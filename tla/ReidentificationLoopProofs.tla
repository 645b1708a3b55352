---------------------- MODULE ReidentificationLoopProofs ----------------------
(***************************************************************************)
(* Theorems about the loop of integrate_new_detections, for any number of  *)
(* keypoints and dormant landmarks and any distances: whom it makes of     *)
(* each keypoint, and that it gives out what the loop-free definitions     *)
(* say.                                                                    *)
(***************************************************************************)
EXTENDS ReidentificationLoop, FiniteSetTheorems, SequenceTheorems,
        WellFoundedInduction, TLAPS

-----------------------------------------------------------------------------
(* The inductive invariant.                                                *)

Result == [id : Nat, isNew : BOOLEAN]

LoopTypes ==
  /\ distance \in [Query -> [Candidate -> 0 .. MaxDistance]]
  /\ near \in [Query -> SUBSET Candidate]
  /\ next \in 1 .. Keypoints + 1
  /\ claimed \subseteq Candidate
  /\ nextId \in Nat
  /\ results \in Seq(Result) /\ Len(results) = next - 1

(* The keypoints before the i-th that become new landmarks.                *)
CreatedBefore(i) == {j \in Created(Keypoint) : j < i}

(* What the loop remembers of the keypoints it has visited.                *)
Progress ==
  /\ claimed = {BestForQuery(j) : j \in 1 .. next - 1} \ {None}
  /\ nextId = FirstFree + Cardinality(CreatedBefore(next))

(* What it has returned for them.                                          *)
Returned ==
  /\ \A i \in DOMAIN results :
       /\ results[i].id = IdOf(Keypoint, FirstFree, i)
       /\ results[i].isNew <=> i \in Created(Keypoint)
       /\ results[i].isNew => FirstFree <= results[i].id /\ results[i].id < nextId
       /\ ~results[i].isNew =>
            results[i].id \in claimed /\ results[i].id = BestForQuery(i)
  /\ OneKeypointPerLandmark

LoopInv == LoopTypes /\ Progress /\ Returned

-----------------------------------------------------------------------------
(* Operators.                                                              *)

(* A set of naturals that has a member has a least one, and Min names it.  *)
LEMMA LeastIsLeast ==
  ASSUME NEW S \in SUBSET Nat, S # {}
  PROVE  Min(S) \in S /\ \A k \in S : Min(S) <= k
<1> DEFINE Less == {r \in Nat \X Nat : r[1] < r[2]}
<1>1. IsWellFoundedOn(Less, Nat)
  BY NatLessThanWellFounded DEF OpToRel
<1> HIDE DEF Less
<1>2. PICK m \in S : \A k \in S : ~(<<k, m>> \in Less)
  BY <1>1, WFMin
<1>3. \A k \in S : ~(k < m)
  BY <1>2 DEF Less
<1>4. \A k \in S : m <= k
  BY <1>3
<1>5. QED
  BY <1>4 DEF Min

(* The matcher's answer is as near in descriptor as any candidate.         *)
LEMMA NearestIsNearest ==
  ASSUME distance \in [Query -> [Candidate -> 0 .. MaxDistance]],
         NEW q \in Query, NEW c \in Candidate
  PROVE  Nearest(q) \in Candidate /\ distance[q][Nearest(q)] <= distance[q][c]
<1> DEFINE D == {distance[q][d] : d \in Candidate}
           S == {d \in Candidate : \A b \in Candidate : distance[q][d] <= distance[q][b]}
<1>1. \A d \in Candidate : distance[q][d] \in Nat
  BY LoopAssumption
<1>2. D \in SUBSET Nat /\ D # {}
  BY <1>1
<1>3. PICK d \in Candidate : distance[q][d] = Min(D)
  BY <1>2, LeastIsLeast
<1>4. \A k \in D : Min(D) <= k
  BY <1>2, LeastIsLeast
<1>5. S # {}
  BY <1>3, <1>4
<1>6. S \in SUBSET Nat
  BY LoopAssumption DEF Candidate
<1>7. Nearest(q) \in S
  BY <1>5, <1>6, LeastIsLeast DEF Nearest
<1>8. QED
  BY <1>7

(* Only a candidate within the radius is best.                             *)
LEMMA BestIsCandidate ==
  ASSUME near \in [Query -> SUBSET Candidate], NEW q \in Query,
         BestForQuery(q) # None
  PROVE  /\ BestForQuery(q) \in Candidate /\ BestForQuery(q) \in Nat
         /\ BestForQuery(q) \in near[q]
         /\ distance[q][BestForQuery(q)] <= Threshold
<1>1. BestForQuery(q) = Nearest(q) /\ Nearest(q) \in near[q]
      /\ distance[q][Nearest(q)] <= Threshold
  BY DEF BestForQuery
<1>2. \A c \in Candidate : c \in Nat
  BY LoopAssumption DEF Candidate
<1>3. QED
  BY <1>1, <1>2

(* The keypoint visited next claims its best candidate exactly if nobody   *)
(* has claimed it.                                                         *)
LEMMA ClaimsUnclaimed ==
  ASSUME LoopTypes, Progress, next <= Keypoints
  PROVE  /\ next \in Query /\ DOMAIN Keypoint = Query
         /\ Keypoint[next].match = BestForQuery(next)
         /\ Claims(Keypoint, next) <=>
              BestForQuery(next) # None /\ BestForQuery(next) \notin claimed
<1>1. next \in Query /\ DOMAIN Keypoint = Query
  BY LoopAssumption DEF LoopTypes, Query, Keypoint
<1>2. \A j \in Query : Keypoint[j].match = BestForQuery(j)
  BY DEF Keypoint
<1>3. \A j \in 1 .. next - 1 : j \in Query
  BY LoopAssumption DEF LoopTypes, Query
<1>4. (\E j \in 1 .. next - 1 : Keypoint[j].match = BestForQuery(next)) <=>
        \E j \in 1 .. next - 1 : BestForQuery(j) = BestForQuery(next)
  BY <1>2, <1>3
<1>5. BestForQuery(next) # None =>
        (BestForQuery(next) \in claimed <=>
           \E j \in 1 .. next - 1 : BestForQuery(j) = BestForQuery(next))
  BY DEF Progress
<1>6. QED
  BY <1>1, <1>2, <1>4, <1>5 DEF Claims

(* Visiting a keypoint adds it to those created, or does not.              *)
LEMMA CreatedBeforeNext ==
  ASSUME LoopTypes, next <= Keypoints
  PROVE  /\ IsFiniteSet(CreatedBefore(next))
         /\ Cardinality(CreatedBefore(next)) \in Nat
         /\ Claims(Keypoint, next) => CreatedBefore(next + 1) = CreatedBefore(next)
         /\ ~Claims(Keypoint, next) =>
              Cardinality(CreatedBefore(next + 1)) =
                Cardinality(CreatedBefore(next)) + 1
<1>1. /\ Created(Keypoint) \subseteq 1 .. Keypoints
      /\ next \in 1 .. Keypoints /\ Keypoints \in Nat
      /\ next \in Created(Keypoint) <=> ~Claims(Keypoint, next)
  BY LoopAssumption DEF LoopTypes, Created, Keypoint, Query
<1>2. IsFiniteSet(1 .. Keypoints)
  BY <1>1, FS_Interval
<1>3. IsFiniteSet(CreatedBefore(next)) /\ Cardinality(CreatedBefore(next)) \in Nat
  <2>1. CreatedBefore(next) \subseteq 1 .. Keypoints
    BY <1>1 DEF CreatedBefore
  <2>2. IsFiniteSet(CreatedBefore(next))
    BY <1>2, <2>1, FS_Subset
  <2>3. QED
    BY <2>2, FS_CardinalityType
<1>4. \A j \in Created(Keypoint) : j < next + 1 <=> j < next \/ j = next
  BY <1>1
<1>5. ASSUME Claims(Keypoint, next)
      PROVE  CreatedBefore(next + 1) = CreatedBefore(next)
  BY <1>1, <1>4, <1>5 DEF CreatedBefore
<1>6. ASSUME ~Claims(Keypoint, next)
      PROVE  Cardinality(CreatedBefore(next + 1)) =
               Cardinality(CreatedBefore(next)) + 1
  <2>1. CreatedBefore(next + 1) = CreatedBefore(next) \cup {next}
    BY <1>1, <1>4, <1>6 DEF CreatedBefore
  <2>2. next \notin CreatedBefore(next)
    BY <1>1 DEF CreatedBefore
  <2>3. QED
    BY <1>3, <2>1, <2>2, FS_AddElement
<1>7. QED
  BY <1>3, <1>5, <1>6

(* The id of the keypoint visited next.                                    *)
LEMMA IdOfNext ==
  ASSUME LoopTypes, Progress, next <= Keypoints
  PROVE  IdOf(Keypoint, FirstFree, next) =
           IF Claims(Keypoint, next) THEN BestForQuery(next) ELSE nextId
<1>1. Keypoint[next].match = BestForQuery(next)
  BY ClaimsUnclaimed
<1>2. nextId = FirstFree + Cardinality({j \in Created(Keypoint) : j < next})
  BY DEF Progress, CreatedBefore
<1>3. QED
  BY <1>1, <1>2 DEF IdOf

(* Appending keeps what was there.                                         *)
LEMMA AppendResult ==
  ASSUME NEW s \in Seq(Result), NEW e \in Result
  PROVE  /\ Append(s, e) \in Seq(Result)
         /\ Len(Append(s, e)) = Len(s) + 1
         /\ DOMAIN Append(s, e) = 1 .. Len(s) + 1
         /\ Append(s, e)[Len(s) + 1] = e
         /\ \A i \in 1 .. Len(s) : Append(s, e)[i] = s[i]
OBVIOUS

-----------------------------------------------------------------------------
(* The matcher's answers do not change while the loop runs.                *)
LEMMA MatchesStay ==
  ASSUME UNCHANGED <<distance, near>>
  PROVE  /\ \A q : BestForQuery(q)' = BestForQuery(q)
         /\ Keypoint' = Keypoint
         /\ Created(Keypoint)' = Created(Keypoint)
         /\ \A i : IdOf(Keypoint, FirstFree, i)' = IdOf(Keypoint, FirstFree, i)
         /\ \A i : CreatedBefore(i)' = CreatedBefore(i)
<1>1. \A q : BestForQuery(q)' = BestForQuery(q)
  BY DEF BestForQuery, Nearest
<1>2. Keypoint' = Keypoint
  BY <1>1 DEF Keypoint
<1>3. Created(Keypoint)' = Created(Keypoint)
  BY <1>2 DEF Created, Claims
<1>4. QED
  BY <1>1, <1>2, <1>3 DEF IdOf, CreatedBefore, Claims, Created

(* What a visit changes, whichever of the two it is.                       *)
LEMMA VisitPreserves ==
  ASSUME LoopInv, next <= Keypoints, NEW id \in Nat, NEW new \in BOOLEAN,
         UNCHANGED <<distance, near>>, next' = next + 1,
         results' = Append(results, [id |-> id, isNew |-> new]),
         LoopTypes', Progress',
         claimed \subseteq claimed', nextId <= nextId',
         id = IdOf(Keypoint, FirstFree, next),
         new <=> next \in Created(Keypoint),
         new => id = nextId /\ id < nextId',
         ~new => id \notin claimed /\ id \in claimed' /\ id = BestForQuery(next)
  PROVE  LoopInv'
<1> DEFINE n == Len(results)
           e == [id |-> id, isNew |-> new]
<1>1. /\ n \in Nat /\ n + 1 = next /\ DOMAIN results = 1 .. n
      /\ results \in Seq(Result) /\ e \in Result
      /\ e.id = id /\ e.isNew = new
  BY DEF LoopInv, LoopTypes, Result
<1>2. /\ DOMAIN results' = 1 .. n + 1 /\ results'[n + 1] = e
      /\ \A i \in 1 .. n : results'[i] = results[i]
  BY <1>1, AppendResult
<1>3. \A i \in 1 .. n : results[i].id \in Nat /\ results[i].isNew \in BOOLEAN
  <2>1. \A i \in 1 .. n : results[i] \in Result
    BY <1>1
  <2>2. QED
    BY <2>1 DEF Result
<1>4. /\ nextId \in Nat /\ nextId' \in Nat /\ FirstFree \in Nat
      /\ FirstFree <= nextId
      /\ \A c \in claimed \cup claimed' : c \in Nat /\ c < FirstFree
  <2>1. nextId \in Nat /\ nextId' \in Nat /\ FirstFree \in Nat
    BY LoopAssumption DEF LoopInv, LoopTypes, FirstFree
  <2>2. FirstFree <= nextId
    BY <2>1, CreatedBeforeNext DEF LoopInv, Progress
  <2>3. \A c \in claimed \cup claimed' : c \in Candidate
    BY DEF LoopInv, LoopTypes, Candidate
  <2>4. QED
    BY <2>1, <2>2, <2>3, LoopAssumption DEF Candidate, FirstFree
<1> HIDE DEF n, e
<1>5. \A i \in 1 .. n + 1 : i \in 1 .. n \/ i = n + 1
  BY <1>1
<1>6. \A i \in 1 .. n : results[i].id # id
  <2>1. ASSUME NEW i \in 1 .. n
        PROVE  results[i].id # id
    <3>1. /\ results[i].isNew => FirstFree <= results[i].id /\ results[i].id < nextId
          /\ ~results[i].isNew => results[i].id \in claimed
      BY <1>1 DEF LoopInv, Returned
    <3>2. CASE new
      BY <1>3, <1>4, <3>1, <3>2
    <3>3. CASE ~new
      BY <1>3, <1>4, <3>1, <3>3
    <3>4. QED
      BY <3>2, <3>3
  <2>2. QED
    BY <2>1
<1>7. OneKeypointPerLandmark'
  <2>1. \A i, j \in 1 .. n : i # j => results[i].id # results[j].id
    BY <1>1 DEF LoopInv, Returned, OneKeypointPerLandmark
  <2>2. QED
    BY <1>1, <1>2, <1>5, <1>6, <2>1 DEF OneKeypointPerLandmark
<1>8. ASSUME NEW i \in 1 .. n + 1
      PROVE  /\ results'[i].id = IdOf(Keypoint, FirstFree, i)'
             /\ results'[i].isNew <=> i \in Created(Keypoint)'
             /\ results'[i].isNew =>
                  FirstFree <= results'[i].id /\ results'[i].id < nextId'
             /\ ~results'[i].isNew =>
                  results'[i].id \in claimed' /\ results'[i].id = BestForQuery(i)'
  <2>1. CASE i \in 1 .. n
    <3>1. /\ results[i].id = IdOf(Keypoint, FirstFree, i)
          /\ results[i].isNew <=> i \in Created(Keypoint)
          /\ results[i].isNew => FirstFree <= results[i].id /\ results[i].id < nextId
          /\ ~results[i].isNew =>
               results[i].id \in claimed /\ results[i].id = BestForQuery(i)
      BY <1>1, <2>1 DEF LoopInv, Returned
    <3>2. results[i].id < nextId => results[i].id < nextId'
      BY <1>3, <1>4, <2>1
    <3>3. results'[i] = results[i]
      BY <1>2, <2>1
    <3>4. QED
      BY <3>1, <3>2, <3>3, MatchesStay
  <2>2. CASE i = n + 1
    <3>1. results'[i].id = id /\ results'[i].isNew = new /\ i = next
      BY <1>1, <1>2, <2>2
    <3>2. QED
      BY <1>4, <3>1, MatchesStay
  <2>3. QED
    BY <1>5, <2>1, <2>2
<1>9. Returned'
  BY <1>2, <1>7, <1>8 DEF Returned
<1>10. QED
  BY <1>9 DEF LoopInv

(* A dormant landmark is claimed.                                          *)
LEMMA ReidentifyPreserves ==
  ASSUME LoopInv, Reidentify
  PROVE  LoopInv'
<1> DEFINE best == BestForQuery(next)
<1>1. /\ LoopTypes /\ Progress /\ next <= Keypoints
      /\ best # None /\ best \notin claimed
      /\ claimed' = claimed \cup {best}
      /\ results' = Append(results, [id |-> best, isNew |-> FALSE])
      /\ next' = next + 1
      /\ UNCHANGED <<distance, near>> /\ nextId' = nextId
  BY DEF LoopInv, Reidentify
<1>2. /\ next \in Query /\ Claims(Keypoint, next)
      /\ next \notin Created(Keypoint)
  BY <1>1, ClaimsUnclaimed DEF Created
<1>3. best \in Candidate /\ best \in Nat
  BY <1>1, <1>2, BestIsCandidate DEF LoopTypes
<1>4. next \in Nat /\ next' \in 1 .. Keypoints + 1 /\ next' - 1 = next
  BY <1>1, LoopAssumption DEF LoopTypes
<1> HIDE DEF best
<1>5. LoopTypes'
  <2>1. [id |-> best, isNew |-> FALSE] \in Result
    BY <1>3 DEF Result
  <2>2. results' \in Seq(Result) /\ Len(results') = Len(results) + 1
    BY <1>1, <2>1, AppendResult DEF LoopTypes
  <2>3. claimed' \subseteq Candidate
    BY <1>1, <1>3 DEF LoopTypes
  <2>4. /\ near' = near /\ distance' = distance
        /\ Candidate' = Candidate /\ Query' = Query
    BY <1>1 DEF Candidate, Query
  <2>5. QED
    BY <1>1, <1>4, <2>2, <2>3, <2>4 DEF LoopTypes
<1>6. Progress'
  <2>1. \A j \in 1 .. next : j \in 1 .. next - 1 \/ j = next
    BY <1>4
  <2>2. \A j \in 1 .. next - 1 : j \in 1 .. next
    BY <1>4
  <2>3. next \in 1 .. next
    BY <1>1, <1>4 DEF LoopTypes
  <2>4. {BestForQuery(j) : j \in 1 .. next} =
          {BestForQuery(j) : j \in 1 .. next - 1} \cup {best}
    BY <2>1, <2>2, <2>3 DEF best
  <2>5. claimed' = {BestForQuery(j) : j \in 1 .. next} \ {None}
    BY <1>1, <2>4 DEF Progress
  <2>6. {BestForQuery(j)' : j \in 1 .. next} = {BestForQuery(j) : j \in 1 .. next}
    BY <1>1, MatchesStay
  <2>7. CreatedBefore(next)' = CreatedBefore(next + 1)
    BY <1>1, MatchesStay DEF CreatedBefore
  <2>8. CreatedBefore(next + 1) = CreatedBefore(next)
    BY <1>1, <1>2, CreatedBeforeNext
  <2>9. Cardinality(CreatedBefore(next))' = Cardinality(CreatedBefore(next))
    BY <2>7, <2>8
  <2>10. QED
    BY <1>1, <1>4, <2>5, <2>6, <2>9 DEF Progress, FirstFree
<1>7. best = IdOf(Keypoint, FirstFree, next)
  BY <1>1, <1>2, IdOfNext DEF best
<1>8. nextId \in Nat /\ nextId <= nextId'
  BY <1>1 DEF LoopTypes
<1>9. QED
  BY <1>1, <1>2, <1>3, <1>5, <1>6, <1>7, <1>8, VisitPreserves DEF best

(* A new landmark is created.                                              *)
LEMMA CreatePreserves ==
  ASSUME LoopInv, Create
  PROVE  LoopInv'
<1>1. /\ LoopTypes /\ Progress /\ next <= Keypoints
      /\ BestForQuery(next) = None \/ BestForQuery(next) \in claimed
      /\ results' = Append(results, [id |-> nextId, isNew |-> TRUE])
      /\ nextId' = nextId + 1 /\ next' = next + 1
      /\ UNCHANGED <<distance, near>> /\ claimed' = claimed
  BY DEF LoopInv, Create
<1>2. /\ next \in Query /\ ~Claims(Keypoint, next)
      /\ next \in Created(Keypoint)
  BY <1>1, ClaimsUnclaimed DEF Created
<1>3. /\ next \in Nat /\ next' \in 1 .. Keypoints + 1 /\ next' - 1 = next
      /\ nextId \in Nat /\ nextId' \in Nat /\ nextId < nextId'
  BY <1>1, LoopAssumption DEF LoopTypes
<1>4. LoopTypes'
  <2>1. [id |-> nextId, isNew |-> TRUE] \in Result
    BY <1>3 DEF Result
  <2>2. results' \in Seq(Result) /\ Len(results') = Len(results) + 1
    BY <1>1, <2>1, AppendResult DEF LoopTypes
  <2>3. near' = near /\ Candidate' = Candidate /\ Query' = Query
    BY <1>1 DEF Candidate, Query
  <2>4. QED
    BY <1>1, <1>3, <2>2, <2>3 DEF LoopTypes
<1>5. Progress'
  <2>1. \A j \in 1 .. next : j \in 1 .. next - 1 \/ j = next
    BY <1>3
  <2>2. \A j \in 1 .. next - 1 : j \in 1 .. next
    BY <1>3
  <2>3. next \in 1 .. next
    BY <1>1, <1>3 DEF LoopTypes
  <2>4. {BestForQuery(j) : j \in 1 .. next} =
          {BestForQuery(j) : j \in 1 .. next - 1} \cup {BestForQuery(next)}
    BY <2>1, <2>2, <2>3
  <2>5. claimed' = {BestForQuery(j) : j \in 1 .. next} \ {None}
    BY <1>1, <2>4 DEF Progress
  <2>6. {BestForQuery(j)' : j \in 1 .. next} = {BestForQuery(j) : j \in 1 .. next}
    BY <1>1, MatchesStay
  <2>7. Cardinality(CreatedBefore(next + 1)) = Cardinality(CreatedBefore(next)) + 1
    BY <1>1, <1>2, CreatedBeforeNext
  <2>8. CreatedBefore(next)' = CreatedBefore(next + 1)
    BY <1>1, MatchesStay DEF CreatedBefore
  <2>9. nextId' = FirstFree + Cardinality(CreatedBefore(next + 1))
    <3>1. nextId = FirstFree + Cardinality(CreatedBefore(next))
          /\ FirstFree \in Nat /\ Cardinality(CreatedBefore(next)) \in Nat
      BY <1>1, CreatedBeforeNext, LoopAssumption DEF Progress, FirstFree
    <3>2. QED
      BY <1>1, <2>7, <3>1
  <2>10. QED
    BY <1>1, <1>3, <2>5, <2>6, <2>8, <2>9 DEF Progress, FirstFree
<1>6. nextId = IdOf(Keypoint, FirstFree, next)
  BY <1>1, <1>2, IdOfNext
<1>7. nextId <= nextId' /\ TRUE \in BOOLEAN
  BY <1>3
<1>8. QED
  BY <1>1, <1>2, <1>3, <1>4, <1>5, <1>6, <1>7, VisitPreserves

-----------------------------------------------------------------------------
(* The theorems.                                                           *)

(* The invariant of the loop is inductive.                                 *)
THEOREM LoopInvariant == Spec => []LoopInv
<1>1. Init => LoopInv
  <2> SUFFICES ASSUME Init PROVE LoopInv
    OBVIOUS
  <2>1. /\ distance \in [Query -> [Candidate -> 0 .. MaxDistance]]
        /\ near \in [Query -> SUBSET Candidate]
        /\ next = 1 /\ claimed = {} /\ nextId = FirstFree /\ results = << >>
    BY DEF Init
  <2>2. LoopTypes
    BY <2>1, LoopAssumption DEF LoopTypes, FirstFree
  <2>3. CreatedBefore(1) = {}
    <3>1. \A j \in Created(Keypoint) : j \in Nat /\ j >= 1
      BY LoopAssumption DEF Created, Keypoint, Query
    <3>2. QED
      BY <3>1 DEF CreatedBefore
  <2>4. Progress
    <3>1. 1 .. next - 1 = {} /\ Cardinality(CreatedBefore(next)) = 0
      BY <2>1, <2>3, FS_EmptySet
    <3>2. FirstFree \in Nat
      BY LoopAssumption DEF FirstFree
    <3>3. QED
      BY <2>1, <3>1, <3>2 DEF Progress
  <2>5. Returned
    BY <2>1 DEF Returned, OneKeypointPerLandmark
  <2>6. QED
    BY <2>2, <2>4, <2>5 DEF LoopInv
<1>2. LoopInv /\ [Next]_vars => LoopInv'
  <2> SUFFICES ASSUME LoopInv, [Next]_vars
               PROVE  LoopInv'
    OBVIOUS
  <2>1. CASE Reidentify
    BY <2>1, ReidentifyPreserves
  <2>2. CASE Create
    BY <2>2, CreatePreserves
  <2>3. CASE UNCHANGED vars
    <3>1. /\ UNCHANGED <<distance, near>> /\ UNCHANGED <<next, claimed>>
          /\ UNCHANGED <<nextId, results>>
      BY <2>3 DEF vars
    <3>2. LoopTypes'
      BY <3>1 DEF LoopInv, LoopTypes
    <3>3. Progress'
      BY <3>1, MatchesStay DEF LoopInv, Progress
    <3>4. Returned'
      BY <3>1, MatchesStay DEF LoopInv, Returned, OneKeypointPerLandmark
    <3>5. QED
      BY <3>2, <3>3, <3>4 DEF LoopInv
  <2>4. QED
    BY <2>1, <2>2, <2>3 DEF Next
<1>3. QED
  BY <1>1, <1>2, PTL DEF Spec

(* No two keypoints of one pass get the same landmark.                     *)
THEOREM LandmarksAreTakenOnce == Spec => []OneKeypointPerLandmark
<1>1. LoopInv => OneKeypointPerLandmark
  BY DEF LoopInv, Returned
<1>2. QED
  BY <1>1, LoopInvariant, PTL

(* A keypoint is denied the identity of a dormant landmark that agrees     *)
(* with it only because a match as near in descriptor lies out of the      *)
(* radius, or went to an earlier keypoint.                                 *)
THEOREM MissedLandmarksAreHidden == Spec => []MissedOnlyWhenHidden
<1>1. LoopInv => MissedOnlyWhenHidden
  <2> SUFFICES ASSUME LoopInv, NEW q \in DOMAIN results, NEW c \in Candidate,
                      results[q].isNew, WithinGates(q, c)
               PROVE  \E d \in Candidate :
                        /\ distance[q][d] <= distance[q][c]
                        /\ d \notin near[q] \/ TakenBefore(d, q)
    BY DEF MissedOnlyWhenHidden
  <2> DEFINE d == Nearest(q)
  <2>1. /\ distance \in [Query -> [Candidate -> 0 .. MaxDistance]]
        /\ near \in [Query -> SUBSET Candidate]
    BY DEF LoopInv, LoopTypes
  <2>2. /\ q \in Nat /\ q \in Query
        /\ \A j \in 1 .. q - 1 : j \in DOMAIN results /\ j \in Query
    BY LoopAssumption DEF LoopInv, LoopTypes, Query
  <2>3. d \in Candidate /\ distance[q][d] <= distance[q][c]
    BY <2>1, <2>2, NearestIsNearest
  <2>4. d \in near[q] => BestForQuery(q) = d /\ d # None
    <3>1. /\ distance[q][d] \in Nat /\ distance[q][c] \in Nat
          /\ distance[q][c] <= Threshold /\ Threshold \in Nat
      BY <2>1, <2>2, <2>3, LoopAssumption DEF WithinGates
    <3>2. Candidates > 0 /\ d # None
      BY <2>3, LoopAssumption DEF Candidate
    <3>3. distance[q][d] <= Threshold
      BY <2>3, <3>1
    <3>4. QED
      BY <3>2, <3>3 DEF BestForQuery
  <2>5. \A j \in Query : Keypoint[j].match = BestForQuery(j)
    BY DEF Keypoint
  <2>6. ~Claims(Keypoint, q)
    BY DEF LoopInv, Returned, Created
  <2>7. ASSUME d \in near[q]
        PROVE  TakenBefore(d, q)
    <3> DEFINE S == {j \in 1 .. q - 1 : BestForQuery(j) = d}
               j == Min(S)
    <3>1. S # {}
      BY <2>2, <2>4, <2>5, <2>6, <2>7 DEF Claims
    <3>2. S \in SUBSET Nat
      BY <2>2
    <3>3. j \in S /\ \A k \in S : j <= k
      BY <3>1, <3>2, LeastIsLeast
    <3> HIDE DEF j
    <3>4. /\ j \in 1 .. q - 1 /\ BestForQuery(j) = d /\ j \in Nat
          /\ \A k \in 1 .. j - 1 : BestForQuery(k) # d
      BY <2>2, <3>3
    <3>5. Claims(Keypoint, j)
      <4>1. \A k \in 1 .. j - 1 : k \in Query
        BY <2>2, <3>4
      <4>2. QED
        BY <2>2, <2>4, <2>5, <2>7, <3>4, <4>1 DEF Claims
    <3>6. ~results[j].isNew
      BY <2>2, <3>4, <3>5 DEF LoopInv, Returned, Created
    <3>7. results[j].id = d
      BY <2>2, <3>4, <3>6 DEF LoopInv, Returned
    <3>8. QED
      BY <3>4, <3>6, <3>7 DEF TakenBefore
  <2>8. QED
    BY <2>3, <2>7
<1>2. QED
  BY <1>1, LoopInvariant, PTL

(* The loop returns what the loop-free definitions say.                    *)
THEOREM LoopIsItsDefinition == Spec => []LoopComputesIds
<1>1. LoopInv => LoopComputesIds
  <2> SUFFICES ASSUME LoopInv
               PROVE  next > Keypoints =>
                        nextId = FirstFree + Cardinality(Created(Keypoint))
    BY DEF LoopComputesIds, LoopInv, Returned
  <2>1. ASSUME next > Keypoints
        PROVE  CreatedBefore(next) = Created(Keypoint)
    <3>1. \A j \in Created(Keypoint) : j < next
      BY <2>1, LoopAssumption DEF LoopInv, LoopTypes, Created, Keypoint, Query
    <3>2. QED
      BY <3>1 DEF CreatedBefore
  <2>2. QED
    BY <2>1 DEF LoopInv, Progress
<1>2. QED
  BY <1>1, LoopInvariant, PTL
=============================================================================
