------------------------ MODULE LandmarkManagerProofs ------------------------
(* Theorems about the landmark dictionary and the tracking loop, for every *)
(* set of pixels, every neighbourhood relation and all thresholds.         *)
EXTENDS LandmarkManager, FiniteSetTheorems, TLAPS

(* The identities one detection hands out.                                 *)
-----------------------------------------------------------------------------

(* What is known of the keypoints of one detection in a dictionary lms.    *)
Detected(kps, lms) ==
  \E n \in Nat :
    /\ DOMAIN kps = 1 .. n
    /\ \A i \in 1 .. n :
         /\ kps[i].pixel \in Visible
         /\ kps[i].match = None \/
              /\ kps[i].match \in DOMAIN lms
              /\ ~lms[kps[i].match].tracked
              /\ <<kps[i].pixel, lms[kps[i].match].pixel>> \in Near

LEMMA DetectionsAreDetected ==
  ASSUME NEW lms, NEW mask, NEW kps \in Detections(lms, mask)
  PROVE  Detected(kps, lms)
PROOF
<1> DEFINE Candidate(px) == {id \in DOMAIN lms :
                               ~lms[id].tracked /\ <<px, lms[id].pixel>> \in Near}
           KeypointAt(px) == [pixel : {px}, match : Candidate(px) \cup {None}]
           Keypoint == UNION {KeypointAt(px) : px \in Visible \ mask}
<1>1. PICK n \in 0 .. MaxDetections : kps \in [1 .. n -> Keypoint]
  BY DEF Detections
<1>2. n \in Nat /\ DOMAIN kps = 1 .. n
  BY <1>1, LandmarkAssumption
<1>3. ASSUME NEW i \in 1 .. n
      PROVE  /\ kps[i].pixel \in Visible
             /\ kps[i].match = None \/
                  /\ kps[i].match \in DOMAIN lms
                  /\ ~lms[kps[i].match].tracked
                  /\ <<kps[i].pixel, lms[kps[i].match].pixel>> \in Near
  <2>1. kps[i] \in Keypoint
    BY <1>1
  <2>2. PICK px \in Visible : kps[i] \in KeypointAt(px)
    BY <2>1
  <2>3. kps[i].pixel = px /\ kps[i].match \in Candidate(px) \cup {None}
    BY <2>2
  <2> QED
    BY <2>3
<1> QED
  BY <1>2, <1>3 DEF Detected

(* New ids are fresh and within the number of landmarks created.           *)
LEMMA CreatedIdsAreFresh ==
  ASSUME NEW kps, NEW n \in Nat, DOMAIN kps = 1 .. n, NEW first \in Nat,
         NEW i \in 1 .. n, ~Claims(kps, i)
  PROVE  /\ Cardinality(Created(kps)) \in Nat
         /\ IdOf(kps, first, i) \in first .. first + Cardinality(Created(kps)) - 1
PROOF
<1> DEFINE before == {j \in Created(kps) : j < i}
<1>1. IsFiniteSet(1 .. n)
  BY FS_Interval
<1>2. Created(kps) \subseteq 1 .. n
  BY DEF Created
<1>3. IsFiniteSet(Created(kps)) /\ IsFiniteSet(before)
  BY <1>1, <1>2, FS_Subset
<1>4. Cardinality(Created(kps)) \in Nat /\ Cardinality(before) \in Nat
  BY <1>3, FS_CardinalityType
<1>5. i \in Created(kps) /\ i \notin before
  BY DEF Created
<1>6. Cardinality(before \cup {i}) = Cardinality(before) + 1
  BY <1>3, <1>5, FS_AddElement
<1>7. Cardinality(before \cup {i}) <= Cardinality(Created(kps))
  BY <1>3, <1>5, FS_Subset
<1>8. IdOf(kps, first, i) = first + Cardinality(before)
  BY DEF IdOf
<1> HIDE DEF before
<1> QED
  BY <1>4, <1>6, <1>7, <1>8

(* No two keypoints are given one id, when the matches are existing ids.   *)
LEMMA IdsAreDistinct ==
  ASSUME NEW kps, NEW n \in Nat, DOMAIN kps = 1 .. n, NEW first \in Nat,
         \A i \in 1 .. n : kps[i].match = None \/ kps[i].match \in 0 .. first - 1,
         NEW i \in 1 .. n, NEW k \in 1 .. n, i # k
  PROVE  IdOf(kps, first, i) # IdOf(kps, first, k)
PROOF
<1>1. ASSUME NEW a \in 1 .. n, NEW b \in 1 .. n, a < b,
             IdOf(kps, first, a) = IdOf(kps, first, b)
      PROVE  FALSE
  <2>1. CASE Claims(kps, a) /\ Claims(kps, b)
    <3>1. kps[a].match = kps[b].match
      BY <1>1, <2>1 DEF IdOf
    <3>2. a \in 1 .. b - 1
      BY <1>1
    <3> QED
      BY <2>1, <3>1, <3>2 DEF Claims
  <2>2. CASE Claims(kps, a) /\ ~Claims(kps, b)
    <3>1. IdOf(kps, first, a) \in 0 .. first - 1
      BY <2>2 DEF IdOf, Claims
    <3>2. /\ Cardinality(Created(kps)) \in Nat
          /\ IdOf(kps, first, b) \in first .. first + Cardinality(Created(kps)) - 1
      BY <2>2, CreatedIdsAreFresh
    <3> QED
      BY <1>1, <3>1, <3>2
  <2>3. CASE ~Claims(kps, a) /\ Claims(kps, b)
    <3>1. IdOf(kps, first, b) \in 0 .. first - 1
      BY <2>3 DEF IdOf, Claims
    <3>2. /\ Cardinality(Created(kps)) \in Nat
          /\ IdOf(kps, first, a) \in first .. first + Cardinality(Created(kps)) - 1
      BY <2>3, CreatedIdsAreFresh
    <3> QED
      BY <1>1, <3>1, <3>2
  <2>4. CASE ~Claims(kps, a) /\ ~Claims(kps, b)
    <3> DEFINE Before(x) == {j \in Created(kps) : j < x}
    <3>1. IsFiniteSet(1 .. n) /\ Created(kps) \subseteq 1 .. n
      BY FS_Interval DEF Created
    <3>2. Before(a) \subseteq 1 .. n /\ Before(b) \subseteq 1 .. n
      BY <3>1
    <3>3. IsFiniteSet(Before(a)) /\ IsFiniteSet(Before(b))
      BY <3>1, <3>2, FS_Subset
    <3>4. Cardinality(Before(a)) \in Nat /\ Cardinality(Before(b)) \in Nat
      BY <3>3, FS_CardinalityType
    <3>5. a \notin Before(a) /\ Before(a) \cup {a} \subseteq Before(b)
      BY <1>1, <2>4, <3>1 DEF Created
    <3>6. Cardinality(Before(a) \cup {a}) = Cardinality(Before(a)) + 1
      BY <3>3, <3>5, FS_AddElement
    <3>7. Cardinality(Before(a) \cup {a}) <= Cardinality(Before(b))
      BY <3>3, <3>5, FS_Subset
    <3>8. /\ IdOf(kps, first, a) = first + Cardinality(Before(a))
          /\ IdOf(kps, first, b) = first + Cardinality(Before(b))
      BY <2>4 DEF IdOf
    <3>9. PICK ca \in Nat, cb \in Nat :
            ca = Cardinality(Before(a)) /\ cb = Cardinality(Before(b))
      BY <3>4
    <3>10. ca + 1 <= cb
      BY <3>6, <3>7, <3>9
    <3>11. first + ca = first + cb
      BY <1>1, <3>8, <3>9
    <3> QED
      BY <3>9, <3>10, <3>11
  <2> QED
    BY <2>1, <2>2, <2>3, <2>4
<1> QED
  BY <1>1

-----------------------------------------------------------------------------
(* What the updates of one landmark do to its fields.                      *)

LEMMA OlderType ==
  ASSUME NEW age \in 1 .. MinAge
  PROVE  Older(age) \in 1 .. MinAge
PROOF
  BY LandmarkAssumption DEF Older

LEMMA MarkTrackedFields ==
  ASSUME NEW lm \in Landmark, NEW px \in Pixel
  PROVE  /\ MarkTracked(lm, px) \in Landmark
         /\ MarkTracked(lm, px).pixel = px
         /\ MarkTracked(lm, px).tracked
         /\ MarkTracked(lm, px).active = lm.active
         /\ MarkTracked(lm, px).validDepth = lm.validDepth
PROOF
<1>1. Older(lm.age) \in 1 .. MinAge /\ 0 \in 0 .. StaleTimeout + 1
  BY OlderType, LandmarkAssumption DEF Landmark
<1> QED
  BY <1>1 DEF MarkTracked, Landmark

LEMMA MarkLostFields ==
  ASSUME NEW lm \in Landmark
  PROVE  /\ MarkLost(lm) \in Landmark
         /\ ~MarkLost(lm).tracked
         /\ ~MarkLost(lm).active
         /\ MarkLost(lm).validDepth = lm.validDepth
         /\ MarkLost(lm).pixel = lm.pixel
         /\ MarkLost(lm).idle = lm.idle
PROOF
  BY DEF MarkLost, Landmark

LEMMA ReidentifiedFields ==
  ASSUME NEW lm \in Landmark, NEW px \in Pixel
  PROVE  /\ Reidentified(lm, px) \in Landmark
         /\ Reidentified(lm, px).pixel = px
         /\ Reidentified(lm, px).tracked
         /\ Reidentified(lm, px).active = lm.active
         /\ Reidentified(lm, px).validDepth = lm.validDepth
PROOF
<1>1. 0 \in 0 .. StaleTimeout + 1
  BY LandmarkAssumption
<1> QED
  BY <1>1 DEF Reidentified, Landmark

LEMMA NewLandmarkFields ==
  ASSUME NEW px \in Pixel
  PROVE  /\ NewLandmark(px) \in Landmark
         /\ NewLandmark(px).pixel = px
         /\ NewLandmark(px).tracked
         /\ ~NewLandmark(px).active
         /\ ~NewLandmark(px).validDepth
PROOF
<1>1. 0 \in 0 .. StaleTimeout + 1 /\ 1 \in 1 .. MinAge
  BY LandmarkAssumption
<1> QED
  BY <1>1 DEF NewLandmark, Landmark

-----------------------------------------------------------------------------
(* The steps of one image, each on a dictionary.                           *)

Typed(lms) == \A id \in DOMAIN lms : lms[id] \in Landmark

TracksMatch(lms, trk) ==
  /\ \A t \in trk :
       /\ t.id \in DOMAIN lms
       /\ lms[t.id].tracked
       /\ t.pixel = lms[t.id].pixel
  /\ \A id \in DOMAIN lms :
       lms[id].tracked => \E t \in trk : t.id = id

(* Before the depth is stamped: what is lost is not active, and a depth    *)
(* that is valid came from somewhere.                                      *)
Consistent(lms) ==
  \A id \in DOMAIN lms :
    /\ lms[id].active => lms[id].tracked /\ lms[id].validDepth
    /\ lms[id].validDepth => depth # None /\ intrinsics

Track == [id : Id, pixel : Pixel]

LEMMA PropagatedPreserves ==
  ASSUME Typed(landmarks), TracksMatch(landmarks, tracks), Consistent(landmarks),
         tracks \subseteq Track,
         NEW kept \in SUBSET tracks, NEW flow \in [kept -> Pixel]
  PROVE  LET lms      == Propagated(landmarks, flow)
             survived == {[id |-> t.id, pixel |-> flow[t]] : t \in kept}
         IN  /\ DOMAIN lms = DOMAIN landmarks
             /\ Typed(lms) /\ TracksMatch(lms, survived) /\ Consistent(lms)
             /\ survived \subseteq Track
             /\ \A id \in DOMAIN lms :
                  /\ ~landmarks[id].tracked => lms[id] = landmarks[id]
                  /\ ~lms[id].tracked => lms[id].pixel = landmarks[id].pixel
                                         /\ lms[id].idle = landmarks[id].idle
PROOF
<1> DEFINE lms == Propagated(landmarks, flow)
           survived == {[id |-> t.id, pixel |-> flow[t]] : t \in kept}
<1>1. DOMAIN lms = DOMAIN landmarks /\ DOMAIN flow = kept
  BY DEF Propagated
<1>2. ASSUME NEW t \in kept
      PROVE  /\ t.id \in DOMAIN landmarks
             /\ landmarks[t.id].tracked
             /\ lms[t.id] = MarkTracked(landmarks[t.id], flow[t])
             /\ flow[t] \in Pixel
  <2>1. t \in tracks /\ t.id \in DOMAIN landmarks /\ landmarks[t.id].tracked
    BY DEF TracksMatch
  <2>2. ASSUME NEW u \in kept, u.id = t.id PROVE u = t
    <3>1. t.pixel = landmarks[t.id].pixel /\ u.pixel = landmarks[t.id].pixel
      BY <2>2 DEF TracksMatch
    <3>2. t = [id |-> t.id, pixel |-> t.pixel] /\ u = [id |-> u.id, pixel |-> u.pixel]
      BY DEF Track
    <3> QED
      BY <2>2, <3>1, <3>2
  <2>3. (CHOOSE u \in kept : u.id = t.id) = t
    BY <2>2
  <2> QED
    BY <1>1, <2>1, <2>3 DEF Propagated
<1>3. ASSUME NEW id \in DOMAIN landmarks, ~ \E t \in kept : t.id = id,
             \E t \in tracks : t.id = id
      PROVE  lms[id] = MarkLost(landmarks[id])
  BY <1>1, <1>3 DEF Propagated
<1>4. ASSUME NEW id \in DOMAIN landmarks, ~ \E t \in tracks : t.id = id
      PROVE  lms[id] = landmarks[id] /\ ~landmarks[id].tracked
  <2>1. ~ \E t \in kept : t.id = id
    BY <1>4
  <2> QED
    BY <1>1, <1>4, <2>1 DEF Propagated, TracksMatch
<1> HIDE DEF lms
<1>5. Typed(lms)
  <2> SUFFICES ASSUME NEW id \in DOMAIN landmarks PROVE lms[id] \in Landmark
    BY <1>1 DEF Typed
  <2>1. landmarks[id] \in Landmark
    BY DEF Typed
  <2> QED
    BY <1>2, <1>3, <1>4, <2>1, MarkTrackedFields, MarkLostFields
<1>6. survived \subseteq Track
  <2> SUFFICES ASSUME NEW t \in kept PROVE t.id \in Id /\ flow[t] \in Pixel
    BY DEF Track
  <2> QED
    BY DEF Track
<1>7. TracksMatch(lms, survived)
  <2>1. ASSUME NEW t \in kept
        PROVE  t.id \in DOMAIN lms /\ lms[t.id].tracked /\ flow[t] = lms[t.id].pixel
    <3>1. landmarks[t.id] \in Landmark
      BY <1>2 DEF Typed
    <3> QED
      BY <1>1, <1>2, <3>1, MarkTrackedFields
  <2>2. ASSUME NEW id \in DOMAIN lms, lms[id].tracked PROVE \E t \in kept : t.id = id
    <3>1. landmarks[id] \in Landmark
      BY <1>1 DEF Typed
    <3> QED
      BY <1>1, <1>3, <1>4, <2>2, <3>1, MarkLostFields
  <2>3. ASSUME NEW t \in survived
        PROVE  t.id \in DOMAIN lms /\ lms[t.id].tracked /\ t.pixel = lms[t.id].pixel
    <3>1. PICK u \in kept : t = [id |-> u.id, pixel |-> flow[u]]
      OBVIOUS
    <3>2. t.id = u.id /\ t.pixel = flow[u]
      BY <3>1
    <3> QED
      BY <2>1, <3>2
  <2>4. ASSUME NEW id \in DOMAIN lms, lms[id].tracked
        PROVE  \E t \in survived : t.id = id
    <3>1. PICK u \in kept : u.id = id
      BY <2>2, <2>4
    <3>2. [id |-> u.id, pixel |-> flow[u]] \in survived
      OBVIOUS
    <3> QED
      BY <3>1, <3>2
  <2> QED
    BY <2>3, <2>4 DEF TracksMatch
<1>8. ASSUME NEW id \in DOMAIN landmarks
      PROVE  /\ lms[id].active => lms[id].tracked /\ lms[id].validDepth
             /\ lms[id].validDepth => depth # None /\ intrinsics
             /\ ~landmarks[id].tracked => lms[id] = landmarks[id]
             /\ ~lms[id].tracked => lms[id].pixel = landmarks[id].pixel
                                    /\ lms[id].idle = landmarks[id].idle
  <2>1. landmarks[id] \in Landmark
    BY DEF Typed
  <2>2. /\ landmarks[id].active => landmarks[id].tracked /\ landmarks[id].validDepth
        /\ landmarks[id].validDepth => depth # None /\ intrinsics
    BY DEF Consistent
  <2>3. CASE \E t \in kept : t.id = id
    BY <1>2, <2>1, <2>2, <2>3, MarkTrackedFields
  <2>4. CASE ~(\E t \in kept : t.id = id) /\ \E t \in tracks : t.id = id
    <3>1. landmarks[id].tracked
      BY <2>4 DEF TracksMatch
    <3> QED
      BY <1>3, <2>1, <2>2, <2>4, <3>1, MarkLostFields
  <2>5. CASE ~ \E t \in tracks : t.id = id
    BY <1>4, <2>2, <2>5
  <2> QED
    BY <2>3, <2>4, <2>5
<1>9. Consistent(lms)
  BY <1>1, <1>8 DEF Consistent
<1> QED
  BY <1>1, <1>5, <1>6, <1>7, <1>8, <1>9 DEF lms

LEMMA IntegratedPreserves ==
  ASSUME NEW lms, NEW trk, NEW kps,
         Typed(lms), TracksMatch(lms, trk), Consistent(lms), trk \subseteq Track,
         nextId \in Nat, DOMAIN lms \subseteq 0 .. nextId - 1,
         Detected(kps, lms), nextId + Cardinality(Created(kps)) <= MaxId
  PROVE  LET all  == Integrated(lms, kps)
             both == trk \cup {[id |-> IdOf(kps, nextId, i), pixel |-> kps[i].pixel] :
                                 i \in DOMAIN kps}
         IN  /\ Cardinality(Created(kps)) \in Nat
             /\ DOMAIN lms \subseteq DOMAIN all
             /\ DOMAIN all \subseteq 0 .. nextId + Cardinality(Created(kps)) - 1
             /\ \A id \in DOMAIN all \ DOMAIN lms :
                  id >= nextId /\ ~all[id].active /\ ~all[id].validDepth
             /\ Typed(all) /\ TracksMatch(all, both) /\ Consistent(all)
             /\ both \subseteq Track
             /\ \A id \in DOMAIN lms :
                  \/ all[id] = lms[id]
                  \/ /\ ~lms[id].tracked /\ all[id].tracked
                     /\ <<all[id].pixel, lms[id].pixel>> \in Near
PROOF
<1> DEFINE all == Integrated(lms, kps)
           found == {[id |-> IdOf(kps, nextId, i), pixel |-> kps[i].pixel] :
                       i \in DOMAIN kps}
           both == trk \cup found
           count == Cardinality(Created(kps))
           ident(i) == IdOf(kps, nextId, i)
<1>1. PICK n \in Nat :
        /\ DOMAIN kps = 1 .. n
        /\ \A i \in 1 .. n :
             /\ kps[i].pixel \in Visible
             /\ kps[i].match = None \/
                  /\ kps[i].match \in DOMAIN lms
                  /\ ~lms[kps[i].match].tracked
                  /\ <<kps[i].pixel, lms[kps[i].match].pixel>> \in Near
  BY DEF Detected
<1>2. count \in Nat
  <2>1. IsFiniteSet(1 .. n) /\ Created(kps) \subseteq 1 .. n
    BY <1>1, FS_Interval DEF Created
  <2> QED
    BY <2>1, FS_Subset, FS_CardinalityType
<1>3. \A i \in 1 .. n : kps[i].pixel \in Pixel
  BY <1>1, LandmarkAssumption
<1>4. DOMAIN all = DOMAIN lms \cup {ident(i) : i \in 1 .. n}
  BY <1>1 DEF Integrated
<1>5. ASSUME NEW i \in 1 .. n, NEW k \in 1 .. n, ident(i) = ident(k) PROVE i = k
  BY <1>1, <1>5, IdsAreDistinct
<1>6. ASSUME NEW i \in 1 .. n
      PROVE  all[ident(i)] = IF Claims(kps, i) THEN Reidentified(lms[ident(i)], kps[i].pixel)
                             ELSE NewLandmark(kps[i].pixel)
  <2>1. (CHOOSE k \in DOMAIN kps : IdOf(kps, nextId, k) = ident(i)) = i
    BY <1>1, <1>5
  <2>2. \E k \in DOMAIN kps : IdOf(kps, nextId, k) = ident(i)
    BY <1>1
  <2>3. ident(i) \in DOMAIN lms \cup {IdOf(kps, nextId, k) : k \in DOMAIN kps}
    BY <1>1
  <2> QED
    BY <2>1, <2>2, <2>3 DEF Integrated
<1>7. ASSUME NEW id \in DOMAIN lms, ~ \E i \in 1 .. n : ident(i) = id
      PROVE  all[id] = lms[id]
  BY <1>1, <1>7 DEF Integrated
<1>8. ASSUME NEW i \in 1 .. n, Claims(kps, i)
      PROVE  /\ ident(i) \in DOMAIN lms
             /\ ~lms[ident(i)].tracked
             /\ <<kps[i].pixel, lms[ident(i)].pixel>> \in Near
  BY <1>1, <1>8 DEF IdOf, Claims
<1>9. ASSUME NEW i \in 1 .. n, ~Claims(kps, i)
      PROVE  ident(i) \in nextId .. nextId + count - 1
  BY <1>1, <1>9, CreatedIdsAreFresh
<1> HIDE DEF all, ident
<1>10. ASSUME NEW i \in 1 .. n
       PROVE  /\ all[ident(i)] \in Landmark
              /\ all[ident(i)].tracked
              /\ all[ident(i)].pixel = kps[i].pixel
              /\ ~all[ident(i)].active
              /\ all[ident(i)].validDepth => depth # None /\ intrinsics
  <2>1. CASE Claims(kps, i)
    <3>1. lms[ident(i)] \in Landmark /\ ~lms[ident(i)].tracked
      BY <1>8, <2>1 DEF Typed
    <3>2. all[ident(i)] = Reidentified(lms[ident(i)], kps[i].pixel)
      BY <1>6, <2>1
    <3>3. /\ ~lms[ident(i)].active
          /\ lms[ident(i)].validDepth => depth # None /\ intrinsics
      BY <1>8, <2>1, <3>1 DEF Consistent
    <3> QED
      BY <1>3, <3>1, <3>2, <3>3, ReidentifiedFields
  <2>2. CASE ~Claims(kps, i)
    BY <1>3, <1>6, <2>2, NewLandmarkFields
  <2> QED
    BY <2>1, <2>2
<1>11. ASSUME NEW id \in DOMAIN all, ~ \E i \in 1 .. n : ident(i) = id
       PROVE  id \in DOMAIN lms /\ all[id] = lms[id]
  BY <1>4, <1>7, <1>11
<1>12. Typed(all)
  BY <1>10, <1>11 DEF Typed
<1>13. Consistent(all)
  BY <1>10, <1>11 DEF Consistent
<1>14. DOMAIN all \subseteq 0 .. nextId + count - 1
  <2> SUFFICES ASSUME NEW id \in DOMAIN all PROVE id \in 0 .. nextId + count - 1
    OBVIOUS
  <2>1. CASE id \in DOMAIN lms
    BY <1>2, <2>1
  <2>2. CASE id \notin DOMAIN lms
    <3>1. PICK i \in 1 .. n : ident(i) = id
      BY <1>4, <2>2
    <3>2. ~Claims(kps, i)
      BY <1>8, <2>2, <3>1
    <3> QED
      BY <1>2, <1>9, <3>1, <3>2
  <2> QED
    BY <2>1, <2>2
<1>15. ASSUME NEW id \in DOMAIN all \ DOMAIN lms
       PROVE  id >= nextId /\ ~all[id].active /\ ~all[id].validDepth
  <2>1. PICK i \in 1 .. n : ident(i) = id
    BY <1>4
  <2>2. ~Claims(kps, i)
    BY <1>8, <2>1
  <2>3. id >= nextId
    BY <1>2, <1>9, <2>1, <2>2
  <2>4. ~all[id].active /\ ~all[id].validDepth
    BY <1>3, <1>6, <2>1, <2>2, NewLandmarkFields
  <2> QED
    BY <2>3, <2>4
<1>16. ASSUME NEW id \in DOMAIN lms
       PROVE  \/ all[id] = lms[id]
              \/ /\ ~lms[id].tracked /\ all[id].tracked
                 /\ <<all[id].pixel, lms[id].pixel>> \in Near
  <2>1. CASE \E i \in 1 .. n : ident(i) = id
    <3>1. PICK i \in 1 .. n : ident(i) = id
      BY <2>1
    <3>2. Claims(kps, i)
      BY <1>2, <1>9, <3>1
    <3> QED
      BY <1>8, <1>10, <3>1, <3>2
  <2> QED
    BY <1>7, <2>1
<1>17. \A t \in found : \E i \in 1 .. n :
         t = [id |-> ident(i), pixel |-> kps[i].pixel]
  BY <1>1 DEF ident
<1>18. \A i \in 1 .. n : [id |-> ident(i), pixel |-> kps[i].pixel] \in found
  BY <1>1 DEF ident
<1> HIDE DEF found
<1>19. TracksMatch(all, both)
  <2>1. ASSUME NEW t \in trk
        PROVE  t.id \in DOMAIN all /\ all[t.id].tracked /\ t.pixel = all[t.id].pixel
    <3>1. t.id \in DOMAIN lms /\ lms[t.id].tracked /\ t.pixel = lms[t.id].pixel
      BY DEF TracksMatch
    <3>2. all[t.id] = lms[t.id]
      BY <1>16, <3>1
    <3> QED
      BY <1>4, <3>1, <3>2
  <2>2. ASSUME NEW t \in found
        PROVE  t.id \in DOMAIN all /\ all[t.id].tracked /\ t.pixel = all[t.id].pixel
    <3>1. PICK i \in 1 .. n : t = [id |-> ident(i), pixel |-> kps[i].pixel]
      BY <1>17
    <3>2. t.id = ident(i) /\ t.pixel = kps[i].pixel
      BY <3>1
    <3> QED
      BY <1>4, <1>10, <3>2
  <2>3. ASSUME NEW id \in DOMAIN all, all[id].tracked PROVE \E t \in both : t.id = id
    <3>1. CASE \E i \in 1 .. n : ident(i) = id
      <4>1. PICK i \in 1 .. n : ident(i) = id
        BY <3>1
      <4>2. [id |-> ident(i), pixel |-> kps[i].pixel] \in both
        BY <1>18
      <4> QED
        BY <4>1, <4>2
    <3>2. CASE ~ \E i \in 1 .. n : ident(i) = id
      BY <1>11, <2>3, <3>2 DEF TracksMatch
    <3> QED
      BY <3>1, <3>2
  <2> QED
    BY <2>1, <2>2, <2>3 DEF TracksMatch
<1>20. both \subseteq Track
  <2> SUFFICES ASSUME NEW t \in found PROVE t \in Track
    OBVIOUS
  <2>1. PICK i \in 1 .. n : t = [id |-> ident(i), pixel |-> kps[i].pixel]
    BY <1>17
  <2>2. ident(i) \in 0 .. nextId + count - 1
    BY <1>4, <1>14
  <2>3. ident(i) \in Id
    BY <1>2, <2>2, LandmarkAssumption DEF Id
  <2> QED
    BY <1>3, <2>1, <2>3 DEF Track
<1> QED
  BY <1>2, <1>4, <1>12, <1>13, <1>14, <1>15, <1>16, <1>19, <1>20 DEF all, found

(* What a dictionary is after the depth has been stamped.                  *)
Reportable(lms) ==
  \A id \in DOMAIN lms :
    /\ lms[id].active <=> (lms[id].tracked /\ lms[id].validDepth /\ lms[id].age = MinAge)
    /\ lms[id].active => lms[id].measured = lms[id].pixel
    /\ lms[id].validDepth => depth # None /\ intrinsics

(* Just after the stamping what is active was measured in the latest depth. *)
AllLatest(lms) == \A id \in DOMAIN lms : lms[id].active => lms[id].latest

LEMMA StampedPreserves ==
  ASSUME NEW lms, NEW trk,
         Typed(lms), TracksMatch(lms, trk), Consistent(lms)
  PROVE  LET stamped == Stamped(lms)
         IN  /\ DOMAIN stamped = DOMAIN lms
             /\ Typed(stamped) /\ TracksMatch(stamped, trk) /\ Reportable(stamped)
             /\ AllLatest(stamped)
             /\ \A id \in DOMAIN lms :
                  /\ stamped[id].tracked = lms[id].tracked
                  /\ stamped[id].pixel = lms[id].pixel
                  /\ stamped[id].idle = lms[id].idle
PROOF
<1> DEFINE stamped == Stamped(lms)
<1>1. CASE depth = None \/ ~intrinsics
  <2>1. stamped = lms
    BY <1>1 DEF Stamped
  <2>2. \A id \in DOMAIN lms : ~lms[id].validDepth /\ ~lms[id].active
    BY <1>1 DEF Consistent
  <2>3. Reportable(lms) /\ AllLatest(lms)
    BY <2>2 DEF Reportable, AllLatest
  <2> HIDE DEF stamped
  <2>4. DOMAIN stamped = DOMAIN lms
    BY <2>1
  <2>5. Typed(stamped)
    BY <2>1
  <2>6. TracksMatch(stamped, trk)
    BY <2>1
  <2>7. Reportable(stamped) /\ AllLatest(stamped)
    BY <2>1, <2>3
  <2>8. \A id \in DOMAIN lms : /\ stamped[id].tracked = lms[id].tracked
                              /\ stamped[id].pixel = lms[id].pixel
                              /\ stamped[id].idle = lms[id].idle
    BY <2>1
  <2> QED
    BY <2>4, <2>5, <2>6, <2>7, <2>8 DEF stamped
<1>2. CASE depth # None /\ intrinsics
  <2> DEFINE Blind(lm) == [lm EXCEPT !.validDepth = FALSE, !.active = FALSE]
             Seen(lm) == [lm EXCEPT !.measured = lm.pixel, !.latest = TRUE,
                                    !.validDepth = TRUE,
                                    !.active = (lm.age >= MinAge)]
  <2>1. DOMAIN stamped = DOMAIN lms
    BY <1>2 DEF Stamped
  <2>2. ASSUME NEW id \in DOMAIN lms
        PROVE  stamped[id] = IF ~lms[id].tracked THEN lms[id]
                             ELSE IF lms[id].pixel \notin depth THEN Blind(lms[id])
                             ELSE Seen(lms[id])
    BY <1>2 DEF Stamped
  <2> HIDE DEF stamped
  <2>3. ASSUME NEW id \in DOMAIN lms
        PROVE  /\ stamped[id] \in Landmark
               /\ stamped[id].tracked = lms[id].tracked
               /\ stamped[id].pixel = lms[id].pixel
               /\ stamped[id].idle = lms[id].idle
               /\ stamped[id].active <=> (/\ stamped[id].tracked
                                          /\ stamped[id].validDepth
                                          /\ stamped[id].age = MinAge)
               /\ stamped[id].active => stamped[id].measured = stamped[id].pixel
               /\ stamped[id].active => stamped[id].latest
    <3> DEFINE lm == lms[id]
    <3>1. lm \in Landmark
      BY DEF Typed
    <3>2. CASE ~lm.tracked
      <4>1. stamped[id] = lm /\ ~lm.active
        BY <2>2, <3>2 DEF Consistent
      <4> QED
        BY <3>1, <3>2, <4>1
    <3>3. CASE lm.tracked /\ lm.pixel \notin depth
      <4>1. stamped[id] = Blind(lm)
        BY <2>2, <3>3
      <4>2. /\ Blind(lm) \in Landmark /\ Blind(lm).tracked = lm.tracked
            /\ Blind(lm).pixel = lm.pixel /\ Blind(lm).idle = lm.idle
            /\ ~Blind(lm).active /\ ~Blind(lm).validDepth
        BY <3>1 DEF Landmark
      <4> QED
        BY <4>1, <4>2
    <3>4. CASE lm.tracked /\ lm.pixel \in depth
      <4>1. stamped[id] = Seen(lm)
        BY <2>2, <3>4
      <4>2. (lm.age >= MinAge) <=> (lm.age = MinAge)
        BY <3>1, LandmarkAssumption DEF Landmark
      <4>3. (lm.age >= MinAge) \in BOOLEAN
        OBVIOUS
      <4> DEFINE old == (lm.age >= MinAge)
      <4>4. old \in BOOLEAN
        BY <4>3
      <4>5. Seen(lm) = [lm EXCEPT !.measured = lm.pixel, !.latest = TRUE,
                                  !.validDepth = TRUE, !.active = old]
        OBVIOUS
      <4> HIDE DEF old
      <4>6. /\ Seen(lm) \in Landmark /\ Seen(lm).tracked = lm.tracked
            /\ Seen(lm).pixel = lm.pixel /\ Seen(lm).idle = lm.idle
            /\ Seen(lm).age = lm.age
            /\ Seen(lm).validDepth /\ Seen(lm).latest
            /\ Seen(lm).measured = lm.pixel
        BY <3>1, <4>4, <4>5 DEF Landmark
      <4>7. Seen(lm).active = old
        BY <3>1, <4>5 DEF Landmark
      <4>8. old <=> lm.age = MinAge
        BY <4>2 DEF old
      <4> HIDE DEF Seen
      <4>9. /\ stamped[id] \in Landmark
            /\ stamped[id].tracked = lms[id].tracked
            /\ stamped[id].pixel = lms[id].pixel
            /\ stamped[id].idle = lms[id].idle
        BY <4>1, <4>6
      <4>10. stamped[id].measured = stamped[id].pixel /\ stamped[id].latest
        BY <4>1, <4>6
      <4>11. stamped[id].active <=> (/\ stamped[id].tracked
                                     /\ stamped[id].validDepth
                                     /\ stamped[id].age = MinAge)
        BY <3>4, <4>1, <4>6, <4>7, <4>8
      <4> QED
        BY <4>9, <4>10, <4>11
    <3> QED
      BY <3>2, <3>3, <3>4
  <2>4. Typed(stamped)
    BY <2>1, <2>3 DEF Typed
  <2>5. Reportable(stamped) /\ AllLatest(stamped)
    BY <1>2, <2>1, <2>3 DEF Reportable, AllLatest
  <2>6. TracksMatch(stamped, trk)
    BY <2>1, <2>3 DEF TracksMatch
  <2>7. \A id \in DOMAIN lms : /\ stamped[id].tracked = lms[id].tracked
                              /\ stamped[id].pixel = lms[id].pixel
                              /\ stamped[id].idle = lms[id].idle
    BY <2>3
  <2> QED
    BY <2>1, <2>4, <2>5, <2>6, <2>7 DEF stamped
<1> QED
  BY <1>1, <1>2

LEMMA PrunedPreserves ==
  ASSUME NEW lms, NEW trk,
         Typed(lms), TracksMatch(lms, trk), Reportable(lms)
  PROVE  LET pruned == Pruned(lms)
         IN  /\ DOMAIN pruned \subseteq DOMAIN lms
             /\ Typed(pruned) /\ TracksMatch(pruned, trk) /\ Reportable(pruned)
             /\ \A id \in DOMAIN pruned : pruned[id] = lms[id]
             /\ \A id \in DOMAIN lms \ DOMAIN pruned :
                  ~lms[id].tracked /\ lms[id].idle > StaleTimeout
PROOF
<1> DEFINE pruned == Pruned(lms)
<1>1. DOMAIN pruned = Kept(lms) /\ \A id \in Kept(lms) : pruned[id] = lms[id]
  BY DEF Pruned
<1>2. /\ Kept(lms) \subseteq DOMAIN lms
      /\ \A id \in DOMAIN lms : lms[id].tracked => id \in Kept(lms)
  BY DEF Kept
<1>3. ASSUME NEW id \in DOMAIN lms \ Kept(lms)
      PROVE  ~lms[id].tracked /\ lms[id].idle > StaleTimeout
  <2>1. lms[id] \in Landmark
    BY DEF Typed
  <2>2. lms[id].idle \in 0 .. StaleTimeout + 1
    BY <2>1 DEF Landmark
  <2>3. ~lms[id].tracked /\ ~(lms[id].idle <= StaleTimeout)
    BY DEF Kept
  <2> QED
    BY <2>2, <2>3, LandmarkAssumption
<1> HIDE DEF pruned
<1>4. Typed(pruned)
  BY <1>1, <1>2 DEF Typed
<1>5. Reportable(pruned)
  BY <1>1, <1>2 DEF Reportable
<1>6. TracksMatch(pruned, trk)
  BY <1>1, <1>2 DEF TracksMatch
<1> QED
  BY <1>1, <1>2, <1>3, <1>4, <1>5, <1>6 DEF pruned

-----------------------------------------------------------------------------
(* The inductive invariant.                                                *)

LEMMA InvariantParts ==
  ASSUME LandmarkInv
  PROVE  /\ Typed(landmarks) /\ TracksMatch(landmarks, tracks) /\ Consistent(landmarks)
         /\ Reportable(landmarks)
         /\ tracks \subseteq Track
         /\ nextId \in Nat /\ DOMAIN landmarks \subseteq 0 .. nextId - 1
PROOF
<1>1. Typed(landmarks) /\ tracks \subseteq Track /\ DOMAIN landmarks \subseteq 0 .. nextId - 1
  BY DEF LandmarkInv, TypeOK, Typed, Track
<1>2. nextId \in Nat
  BY LandmarkAssumption DEF LandmarkInv, TypeOK
<1>3. TracksMatch(landmarks, tracks)
  BY DEF LandmarkInv, TracksMatchLandmarks, TracksMatch
<1>4. Reportable(landmarks)
  BY DEF LandmarkInv, ActiveMeansReportable, DepthIsBacked, Reportable
<1>5. Consistent(landmarks)
  BY <1>4 DEF Reportable, Consistent
<1> QED
  BY <1>1, <1>2, <1>3, <1>4, <1>5

LEMMA InitEstablishes ==
  ASSUME Init
  PROVE  LandmarkInv
PROOF
<1>1. DOMAIN landmarks = {}
  BY DEF Init
<1>2. TypeOK
  <2>1. nextId \in 0 .. MaxId
    BY LandmarkAssumption DEF Init
  <2>2. /\ tracks = {} /\ reported = {} /\ depth = None
        /\ started \in BOOLEAN /\ intrinsics \in BOOLEAN /\ alive \in BOOLEAN
    BY DEF Init
  <2> QED
    BY <1>1, <2>1, <2>2 DEF TypeOK
<1>3. TracksMatchLandmarks /\ ReportsAreFresh /\ ActiveMeansReportable
  BY <1>1 DEF Init, TracksMatchLandmarks, ReportsAreFresh, ActiveMeansReportable
<1>4. EmptyBeforeStart /\ DepthIsBacked
  BY <1>1 DEF Init, EmptyBeforeStart, DepthIsBacked
<1> QED
  BY <1>2, <1>3, <1>4 DEF LandmarkInv

(* What a step may do to the landmarks, besides keeping the invariant.     *)
IdentitiesKept ==
  /\ \A id \in DOMAIN landmarks \ DOMAIN landmarks' : landmarks[id].idle > StaleTimeout
  /\ \A id \in DOMAIN landmarks' \ DOMAIN landmarks : id >= nextId

ComesBackNearby ==
  \A id \in DOMAIN landmarks \cap DOMAIN landmarks' :
    ~landmarks[id].tracked /\ landmarks'[id].tracked
      => <<landmarks'[id].pixel, landmarks[id].pixel>> \in Near

LEMMA BootstrapPreserves ==
  ASSUME LandmarkInv, Bootstrap
  PROVE  LandmarkInv' /\ IdentitiesKept /\ ComesBackNearby
PROOF
<1>1. PICK kps \in Detections(landmarks, {}) :
        /\ nextId + Len(kps) <= MaxId
        /\ landmarks' = Integrated(landmarks, kps)
        /\ nextId' = nextId + Len(kps)
        /\ tracks' = {[id |-> IdOf(kps, nextId, i), pixel |-> kps[i].pixel] :
                        i \in DOMAIN kps}
  BY DEF Bootstrap
<1>2. DOMAIN landmarks = {} /\ tracks = {} /\ reported = {}
  BY DEF Bootstrap, LandmarkInv, EmptyBeforeStart
<1>3. started' /\ UNCHANGED <<depth, intrinsics, reported, alive>>
  BY DEF Bootstrap
<1>4. Detected(kps, landmarks)
  BY DetectionsAreDetected
<1>5. Len(kps) \in Nat /\ DOMAIN kps = 1 .. Len(kps)
  <2> DEFINE Candidate(px) == {id \in DOMAIN landmarks :
                                 /\ ~landmarks[id].tracked
                                 /\ <<px, landmarks[id].pixel>> \in Near}
             Keypoint == UNION {[pixel : {px}, match : Candidate(px) \cup {None}] :
                                  px \in Visible \ {}}
  <2>1. PICK n \in 0 .. MaxDetections : kps \in [1 .. n -> Keypoint]
    BY DEF Detections
  <2>2. n \in Nat
    BY <2>1, LandmarkAssumption
  <2> HIDE DEF Keypoint
  <2>3. kps \in Seq(Keypoint)
    BY <2>1, <2>2
  <2> QED
    BY <2>3
<1>6. Created(kps) = 1 .. Len(kps)
  <2>1. \A i \in 1 .. Len(kps) : kps[i].match = None
    BY <1>2, <1>4, <1>5 DEF Detected
  <2> QED
    BY <1>5, <2>1 DEF Created, Claims
<1>7. Cardinality(Created(kps)) = Len(kps)
  <2>1. PICK n \in Nat : n = Len(kps)
    BY <1>5
  <2>2. Cardinality(1 .. n) = n
    BY FS_Interval
  <2> QED
    BY <1>6, <2>1, <2>2
<1>8. /\ Typed(landmarks) /\ TracksMatch(landmarks, tracks) /\ Consistent(landmarks)
      /\ tracks \subseteq Track
      /\ nextId \in Nat /\ DOMAIN landmarks \subseteq 0 .. nextId - 1
  BY InvariantParts
<1>9. tracks' = tracks \cup {[id |-> IdOf(kps, nextId, i), pixel |-> kps[i].pixel] :
                               i \in DOMAIN kps}
  BY <1>1, <1>2
<1>10. /\ DOMAIN landmarks' \subseteq 0 .. nextId' - 1
       /\ \A id \in DOMAIN landmarks' \ DOMAIN landmarks :
            id >= nextId /\ ~landmarks'[id].active /\ ~landmarks'[id].validDepth
       /\ Typed(landmarks') /\ TracksMatch(landmarks', tracks')
       /\ tracks' \subseteq Track
  <2> DEFINE all  == Integrated(landmarks, kps)
             both == tracks \cup {[id |-> IdOf(kps, nextId, i), pixel |-> kps[i].pixel] :
                                     i \in DOMAIN kps}
  <2>1. nextId + Cardinality(Created(kps)) <= MaxId
    BY <1>1, <1>7
  <2>2. /\ Cardinality(Created(kps)) \in Nat
        /\ DOMAIN landmarks \subseteq DOMAIN all
        /\ DOMAIN all \subseteq 0 .. nextId + Cardinality(Created(kps)) - 1
        /\ \A id \in DOMAIN all \ DOMAIN landmarks :
             id >= nextId /\ ~all[id].active /\ ~all[id].validDepth
        /\ Typed(all) /\ TracksMatch(all, both) /\ Consistent(all)
        /\ both \subseteq Track
        /\ \A id \in DOMAIN landmarks :
             \/ all[id] = landmarks[id]
             \/ /\ ~landmarks[id].tracked /\ all[id].tracked
                /\ <<all[id].pixel, landmarks[id].pixel>> \in Near
    BY <1>4, <1>8, <2>1, IntegratedPreserves
  <2>3. landmarks' = all /\ tracks' = both
    BY <1>1, <1>9
  <2>4. nextId' = nextId + Cardinality(Created(kps))
    BY <1>1, <1>7
  <2> HIDE DEF all, both
  <2>5. DOMAIN landmarks' \subseteq 0 .. nextId' - 1
    <3>1. DOMAIN all \subseteq 0 .. nextId + Cardinality(Created(kps)) - 1
      BY <2>2
    <3>2. 0 .. nextId' - 1 = 0 .. nextId + Cardinality(Created(kps)) - 1
      BY <1>8, <2>2, <2>4
    <3> QED
      BY <2>3, <3>1, <3>2, Zenon
  <2>6. \A id \in DOMAIN landmarks' \ DOMAIN landmarks :
          id >= nextId /\ ~landmarks'[id].active /\ ~landmarks'[id].validDepth
    BY <2>2, <2>3
  <2>7. Typed(landmarks') /\ TracksMatch(landmarks', tracks') /\ tracks' \subseteq Track
    BY <2>2, <2>3
  <2> QED
    BY <2>5, <2>6, <2>7
<1>11. TypeOK'
  <2>1. nextId' \in 0 .. MaxId
    BY <1>1, <1>5, <1>8, LandmarkAssumption
  <2>2. \A id \in DOMAIN landmarks' : landmarks'[id] \in Landmark
    BY <1>10 DEF Typed
  <2>3. tracks' \subseteq [id : Id, pixel : Pixel]
    BY <1>10 DEF Track
  <2> QED
    BY <1>3, <1>10, <2>1, <2>2, <2>3 DEF Bootstrap, LandmarkInv, TypeOK
<1>12. TracksMatchLandmarks'
  BY <1>10 DEF TracksMatch, TracksMatchLandmarks
<1>13. ReportsAreFresh'
  BY <1>2, <1>3 DEF ReportsAreFresh
<1>14. ActiveMeansReportable'
  BY <1>2, <1>10 DEF ActiveMeansReportable
<1>15. EmptyBeforeStart' /\ DepthIsBacked'
  BY <1>2, <1>3, <1>10 DEF EmptyBeforeStart, DepthIsBacked
<1>16. IdentitiesKept /\ ComesBackNearby
  BY <1>2, <1>10 DEF IdentitiesKept, ComesBackNearby
<1> QED
  BY <1>11, <1>12, <1>13, <1>14, <1>15, <1>16 DEF LandmarkInv

LEMMA FramePreserves ==
  ASSUME LandmarkInv, Frame
  PROVE  LandmarkInv' /\ IdentitiesKept /\ ComesBackNearby
PROOF
<1>0. PICK kept \in SUBSET tracks : \E flow \in [kept -> Pixel] :
        LET lms      == Propagated(landmarks, flow)
            survived == {[id |-> t.id, pixel |-> flow[t]] : t \in kept}
            mask     == {t.pixel : t \in survived}
        IN  \E kps \in IF Cardinality(kept) < MinTracked
                       THEN Detections(lms, mask) ELSE {<< >>} :
              LET final == Pruned(Stamped(Integrated(lms, kps)))
              IN  /\ nextId + Cardinality(Created(kps)) <= MaxId
                  /\ landmarks' = final
                  /\ nextId' = nextId + Cardinality(Created(kps))
                  /\ tracks' = survived \cup
                       {[id |-> IdOf(kps, nextId, i), pixel |-> kps[i].pixel] :
                          i \in DOMAIN kps}
                  /\ reported' = ActiveLandmarks(final)
  BY DEF Frame
<1>1. PICK flow \in [kept -> Pixel] :
        LET lms      == Propagated(landmarks, flow)
            survived == {[id |-> t.id, pixel |-> flow[t]] : t \in kept}
            mask     == {t.pixel : t \in survived}
        IN  \E kps \in IF Cardinality(kept) < MinTracked
                       THEN Detections(lms, mask) ELSE {<< >>} :
              LET final == Pruned(Stamped(Integrated(lms, kps)))
              IN  /\ nextId + Cardinality(Created(kps)) <= MaxId
                  /\ landmarks' = final
                  /\ nextId' = nextId + Cardinality(Created(kps))
                  /\ tracks' = survived \cup
                       {[id |-> IdOf(kps, nextId, i), pixel |-> kps[i].pixel] :
                          i \in DOMAIN kps}
                  /\ reported' = ActiveLandmarks(final)
  BY <1>0
<1> DEFINE lms      == Propagated(landmarks, flow)
           survived == {[id |-> t.id, pixel |-> flow[t]] : t \in kept}
           mask     == {t.pixel : t \in survived}
<1>2. PICK kps \in IF Cardinality(kept) < MinTracked
                   THEN Detections(lms, mask) ELSE {<< >>} :
        /\ nextId + Cardinality(Created(kps)) <= MaxId
        /\ landmarks' = Pruned(Stamped(Integrated(lms, kps)))
        /\ nextId' = nextId + Cardinality(Created(kps))
        /\ tracks' = survived \cup
             {[id |-> IdOf(kps, nextId, i), pixel |-> kps[i].pixel] : i \in DOMAIN kps}
        /\ reported' = ActiveLandmarks(Pruned(Stamped(Integrated(lms, kps))))
  BY <1>1
<1> DEFINE all == Integrated(lms, kps)
           stamped == Stamped(all)
<1>3. started /\ UNCHANGED <<started, depth, intrinsics, alive>>
  BY DEF Frame
<1>4. /\ Typed(landmarks) /\ TracksMatch(landmarks, tracks) /\ Consistent(landmarks)
      /\ tracks \subseteq Track
      /\ nextId \in Nat /\ DOMAIN landmarks \subseteq 0 .. nextId - 1
  BY InvariantParts
<1>5. /\ DOMAIN lms = DOMAIN landmarks
      /\ Typed(lms) /\ TracksMatch(lms, survived) /\ Consistent(lms)
      /\ survived \subseteq Track
      /\ \A id \in DOMAIN lms :
           /\ ~landmarks[id].tracked => lms[id] = landmarks[id]
           /\ ~lms[id].tracked => lms[id].pixel = landmarks[id].pixel
                                  /\ lms[id].idle = landmarks[id].idle
  BY <1>4, PropagatedPreserves
<1> HIDE DEF lms, survived
<1>6. Detected(kps, lms)
  <2>1. CASE Cardinality(kept) < MinTracked
    BY <1>2, <2>1, DetectionsAreDetected
  <2>2. CASE ~(Cardinality(kept) < MinTracked)
    <3>1. kps = << >>
      BY <1>2, <2>2
    <3>2. DOMAIN kps = 1 .. 0 /\ 0 \in Nat
      BY <3>1
    <3> QED
      BY <3>2 DEF Detected
  <2> QED
    BY <2>1, <2>2
<1>7. /\ Cardinality(Created(kps)) \in Nat
      /\ DOMAIN lms \subseteq DOMAIN all
      /\ DOMAIN all \subseteq 0 .. nextId' - 1
      /\ \A id \in DOMAIN all \ DOMAIN lms : id >= nextId
      /\ Typed(all) /\ TracksMatch(all, tracks') /\ Consistent(all)
      /\ tracks' \subseteq Track
      /\ \A id \in DOMAIN lms :
           \/ all[id] = lms[id]
           \/ /\ ~lms[id].tracked /\ all[id].tracked
              /\ <<all[id].pixel, lms[id].pixel>> \in Near
  <2> DEFINE both == survived \cup {[id |-> IdOf(kps, nextId, i), pixel |-> kps[i].pixel] :
                                       i \in DOMAIN kps}
  <2>1. /\ nextId + Cardinality(Created(kps)) <= MaxId
        /\ nextId' = nextId + Cardinality(Created(kps)) /\ tracks' = both
    BY <1>2
  <2>2. DOMAIN lms \subseteq 0 .. nextId - 1
    BY <1>4, <1>5
  <2>3. /\ Cardinality(Created(kps)) \in Nat
        /\ DOMAIN lms \subseteq DOMAIN all
        /\ DOMAIN all \subseteq 0 .. nextId + Cardinality(Created(kps)) - 1
        /\ \A id \in DOMAIN all \ DOMAIN lms :
             id >= nextId /\ ~all[id].active /\ ~all[id].validDepth
        /\ Typed(all) /\ TracksMatch(all, both) /\ Consistent(all)
        /\ both \subseteq Track
        /\ \A id \in DOMAIN lms :
             \/ all[id] = lms[id]
             \/ /\ ~lms[id].tracked /\ all[id].tracked
                /\ <<all[id].pixel, lms[id].pixel>> \in Near
    BY <1>4, <1>5, <1>6, <2>1, <2>2, IntegratedPreserves
  <2> HIDE DEF all, both
  <2>4. DOMAIN all \subseteq 0 .. nextId' - 1
    <3>1. DOMAIN all \subseteq 0 .. nextId + Cardinality(Created(kps)) - 1
      BY <2>3
    <3>2. 0 .. nextId' - 1 = 0 .. nextId + Cardinality(Created(kps)) - 1
      BY <1>4, <2>1, <2>3
    <3> QED
      BY <3>1, <3>2, Zenon
  <2>5. Typed(all) /\ TracksMatch(all, tracks') /\ Consistent(all)
    BY <2>1, <2>3
  <2>6. tracks' \subseteq Track
    BY <2>1, <2>3
  <2>7. \A id \in DOMAIN all \ DOMAIN lms : id >= nextId
    BY <2>3
  <2> QED
    BY <2>3, <2>4, <2>5, <2>6, <2>7
<1> HIDE DEF all
<1>8. /\ DOMAIN stamped = DOMAIN all
      /\ Typed(stamped) /\ TracksMatch(stamped, tracks') /\ Reportable(stamped)
      /\ AllLatest(stamped)
      /\ \A id \in DOMAIN all :
           /\ stamped[id].tracked = all[id].tracked
           /\ stamped[id].pixel = all[id].pixel
           /\ stamped[id].idle = all[id].idle
  BY <1>7, StampedPreserves
<1> HIDE DEF stamped
<1>9. landmarks' = Pruned(stamped) /\ reported' = ActiveLandmarks(Pruned(stamped))
  BY <1>2 DEF stamped, all
<1>10. /\ DOMAIN landmarks' \subseteq DOMAIN stamped
       /\ Typed(landmarks') /\ TracksMatch(landmarks', tracks') /\ Reportable(landmarks')
       /\ \A id \in DOMAIN landmarks' : landmarks'[id] = stamped[id]
       /\ \A id \in DOMAIN stamped \ DOMAIN landmarks' :
            ~stamped[id].tracked /\ stamped[id].idle > StaleTimeout
  BY <1>8, <1>9, PrunedPreserves
<1>11. ASSUME NEW r \in reported'
       PROVE  /\ r.id \in DOMAIN landmarks' /\ landmarks'[r.id].active
              /\ r.pixel = landmarks'[r.id].pixel /\ r.measured = landmarks'[r.id].measured
              /\ r.latest = landmarks'[r.id].latest
              /\ r = [id |-> r.id, pixel |-> r.pixel, measured |-> r.measured,
                     latest |-> r.latest]
  <2>1. PICK id \in {id \in DOMAIN landmarks' : landmarks'[id].active} :
          r = [id |-> id, pixel |-> landmarks'[id].pixel,
               measured |-> landmarks'[id].measured, latest |-> landmarks'[id].latest]
    BY <1>9 DEF ActiveLandmarks
  <2> QED
    BY <2>1
<1>12. TypeOK'
  <2>1. nextId' \in 0 .. MaxId
    BY <1>2, <1>4, <1>7, LandmarkAssumption
  <2>2. \A id \in DOMAIN landmarks' : landmarks'[id] \in Landmark
    BY <1>10 DEF Typed
  <2>3. tracks' \subseteq [id : Id, pixel : Pixel]
    BY <1>7 DEF Track
  <2>4. DOMAIN landmarks' \subseteq 0 .. nextId' - 1
    BY <1>7, <1>8, <1>10
  <2>5. reported' \subseteq [id : Id, pixel : Pixel, measured : Pixel \cup {None},
                             latest : BOOLEAN]
    <3> SUFFICES ASSUME NEW r \in reported'
                 PROVE  r \in [id : Id, pixel : Pixel, measured : Pixel \cup {None},
                               latest : BOOLEAN]
      OBVIOUS
    <3>1. landmarks'[r.id] \in Landmark
      BY <1>11, <2>2
    <3>2. landmarks'[r.id].pixel \in Pixel
          /\ landmarks'[r.id].measured \in Pixel \cup {None}
          /\ landmarks'[r.id].latest \in BOOLEAN
      BY <3>1 DEF Landmark
    <3>3. r.id \in Id
      BY <1>4, <1>11, <2>1, <2>4, LandmarkAssumption DEF Id
    <3> QED
      BY <1>11, <3>2, <3>3
  <2> QED
    BY <1>3, <2>1, <2>2, <2>3, <2>4, <2>5 DEF LandmarkInv, TypeOK
<1>13. TracksMatchLandmarks'
  BY <1>10 DEF TracksMatch, TracksMatchLandmarks
<1>14. ReportsAreFresh'
  <2> SUFFICES ASSUME NEW r \in reported'
               PROVE  /\ r.measured = r.pixel
                      /\ r.latest
                      /\ [id |-> r.id, pixel |-> r.pixel] \in tracks'
                      /\ landmarks'[r.id].age = MinAge
    BY DEF ReportsAreFresh
  <2>1. /\ landmarks'[r.id].tracked /\ landmarks'[r.id].age = MinAge
        /\ landmarks'[r.id].measured = landmarks'[r.id].pixel
    BY <1>10, <1>11 DEF Reportable
  <2>2. PICK t \in tracks' : t.id = r.id /\ t.pixel = landmarks'[r.id].pixel
    BY <1>10, <1>11, <2>1 DEF TracksMatch
  <2>3. t = [id |-> t.id, pixel |-> t.pixel]
    BY <1>7 DEF Track
  <2>4. r.latest
    BY <1>8, <1>10, <1>11 DEF AllLatest
  <2> QED
    BY <1>11, <2>1, <2>2, <2>3, <2>4
<1>15. ActiveMeansReportable'
  BY <1>10 DEF Reportable, ActiveMeansReportable
<1>16. EmptyBeforeStart' /\ DepthIsBacked'
  BY <1>3, <1>10 DEF Reportable, EmptyBeforeStart, DepthIsBacked
<1>17. IdentitiesKept
  <2>1. ASSUME NEW id \in DOMAIN landmarks \ DOMAIN landmarks'
        PROVE  landmarks[id].idle > StaleTimeout
    <3>1. id \in DOMAIN lms /\ id \in DOMAIN all /\ id \in DOMAIN stamped
      BY <1>5, <1>7, <1>8
    <3>2. ~all[id].tracked /\ all[id].idle > StaleTimeout
      BY <1>8, <1>10, <3>1
    <3>3. all[id] = lms[id]
      BY <1>7, <3>1, <3>2
    <3> QED
      BY <1>5, <3>1, <3>2, <3>3
  <2>2. \A id \in DOMAIN landmarks' \ DOMAIN landmarks : id >= nextId
    BY <1>5, <1>7, <1>8, <1>10
  <2> QED
    BY <2>1, <2>2 DEF IdentitiesKept
<1>18. ComesBackNearby
  <2> SUFFICES ASSUME NEW id \in DOMAIN landmarks \cap DOMAIN landmarks',
                      ~landmarks[id].tracked, landmarks'[id].tracked
               PROVE  <<landmarks'[id].pixel, landmarks[id].pixel>> \in Near
    BY DEF ComesBackNearby
  <2>1. id \in DOMAIN lms /\ id \in DOMAIN all /\ lms[id] = landmarks[id]
    BY <1>5, <1>7
  <2>2. all[id].tracked /\ landmarks'[id].pixel = all[id].pixel
    BY <1>8, <1>10, <2>1
  <2> QED
    BY <1>7, <2>1, <2>2
<1> QED
  BY <1>12, <1>13, <1>14, <1>15, <1>16, <1>17, <1>18 DEF LandmarkInv

LEMMA TickPreserves ==
  ASSUME LandmarkInv, Tick
  PROVE  LandmarkInv' /\ IdentitiesKept /\ ComesBackNearby
PROOF
<1> DEFINE Aged(lm) == [lm EXCEPT !.idle = IF @ <= StaleTimeout THEN @ + 1 ELSE @]
<1>1. /\ DOMAIN landmarks' = DOMAIN landmarks
      /\ \A id \in DOMAIN landmarks : landmarks'[id] = Aged(landmarks[id])
  BY DEF Tick
<1>2. UNCHANGED <<nextId, started, tracks, depth, intrinsics, reported, alive>>
  BY DEF Tick
<1>3. ASSUME NEW id \in DOMAIN landmarks
      PROVE  /\ landmarks'[id] \in Landmark
             /\ landmarks'[id].pixel = landmarks[id].pixel
             /\ landmarks'[id].measured = landmarks[id].measured
             /\ landmarks'[id].validDepth = landmarks[id].validDepth
             /\ landmarks'[id].age = landmarks[id].age
             /\ landmarks'[id].tracked = landmarks[id].tracked
             /\ landmarks'[id].active = landmarks[id].active
  <2>1. landmarks[id] \in Landmark
    BY DEF LandmarkInv, TypeOK
  <2> DEFINE older == IF landmarks[id].idle <= StaleTimeout
                      THEN landmarks[id].idle + 1 ELSE landmarks[id].idle
  <2>2. older \in 0 .. StaleTimeout + 1
    <3>1. landmarks[id].idle \in 0 .. StaleTimeout + 1
      BY <2>1 DEF Landmark
    <3> QED
      BY <3>1, LandmarkAssumption
  <2>3. landmarks'[id] = [landmarks[id] EXCEPT !.idle = older]
    BY <1>1
  <2> HIDE DEF older
  <2> QED
    BY <2>1, <2>2, <2>3 DEF Landmark
<1>4. TypeOK'
  BY <1>1, <1>2, <1>3 DEF LandmarkInv, TypeOK
<1>5. TracksMatchLandmarks'
  BY <1>1, <1>2, <1>3 DEF LandmarkInv, TracksMatchLandmarks
<1>6. ReportsAreFresh'
  <2> SUFFICES ASSUME NEW r \in reported
               PROVE  /\ r.measured = r.pixel
                      /\ r.latest
                      /\ [id |-> r.id, pixel |-> r.pixel] \in tracks
                      /\ landmarks'[r.id].age = MinAge
    BY <1>2 DEF ReportsAreFresh
  <2>1. /\ r.measured = r.pixel /\ r.latest
        /\ [id |-> r.id, pixel |-> r.pixel] \in tracks
        /\ landmarks[r.id].age = MinAge
    BY DEF LandmarkInv, ReportsAreFresh
  <2>2. r.id \in DOMAIN landmarks
    BY <2>1 DEF LandmarkInv, TracksMatchLandmarks
  <2> QED
    BY <1>3, <2>1, <2>2
<1>7. ActiveMeansReportable'
  BY <1>1, <1>3 DEF LandmarkInv, ActiveMeansReportable
<1>8. EmptyBeforeStart' /\ DepthIsBacked'
  BY <1>1, <1>2, <1>3 DEF LandmarkInv, EmptyBeforeStart, DepthIsBacked
<1>9. IdentitiesKept /\ ComesBackNearby
  BY <1>1, <1>3 DEF IdentitiesKept, ComesBackNearby
<1> QED
  BY <1>4, <1>5, <1>6, <1>7, <1>8, <1>9 DEF LandmarkInv

(* A new depth image ages what was measured before it, and no report.      *)
LEMMA DepthImagePreserves ==
  ASSUME LandmarkInv, NEW valid \in SUBSET Visible, DepthImage(valid)
  PROVE  LandmarkInv' /\ IdentitiesKept /\ ComesBackNearby
PROOF
<1>1. /\ DOMAIN landmarks' = DOMAIN landmarks
      /\ \A id \in DOMAIN landmarks :
           landmarks'[id] = [landmarks[id] EXCEPT !.latest = FALSE]
  BY DEF DepthImage
<1>2. UNCHANGED <<nextId, started, tracks, intrinsics, reported, alive>>
  BY DEF DepthImage
<1>3. depth' = valid /\ depth' # None
  BY LandmarkAssumption DEF DepthImage
<1>4. ASSUME NEW id \in DOMAIN landmarks
      PROVE  /\ landmarks'[id] \in Landmark
             /\ landmarks'[id].pixel = landmarks[id].pixel
             /\ landmarks'[id].measured = landmarks[id].measured
             /\ landmarks'[id].validDepth = landmarks[id].validDepth
             /\ landmarks'[id].age = landmarks[id].age
             /\ landmarks'[id].tracked = landmarks[id].tracked
             /\ landmarks'[id].active = landmarks[id].active
  <2>1. landmarks[id] \in Landmark
    BY DEF LandmarkInv, TypeOK
  <2> QED
    BY <1>1, <2>1 DEF Landmark
<1>5. TypeOK'
  BY <1>1, <1>2, <1>3, <1>4 DEF LandmarkInv, TypeOK
<1>6. TracksMatchLandmarks'
  BY <1>1, <1>2, <1>4 DEF LandmarkInv, TracksMatchLandmarks
<1>7. ReportsAreFresh'
  <2> SUFFICES ASSUME NEW r \in reported
               PROVE  /\ r.measured = r.pixel
                      /\ r.latest
                      /\ [id |-> r.id, pixel |-> r.pixel] \in tracks
                      /\ landmarks'[r.id].age = MinAge
    BY <1>2 DEF ReportsAreFresh
  <2>1. /\ r.measured = r.pixel /\ r.latest
        /\ [id |-> r.id, pixel |-> r.pixel] \in tracks
        /\ landmarks[r.id].age = MinAge
    BY DEF LandmarkInv, ReportsAreFresh
  <2>2. r.id \in DOMAIN landmarks
    BY <2>1 DEF LandmarkInv, TracksMatchLandmarks
  <2> QED
    BY <1>4, <2>1, <2>2
<1>8. ActiveMeansReportable'
  BY <1>1, <1>4 DEF LandmarkInv, ActiveMeansReportable
<1>9. EmptyBeforeStart' /\ DepthIsBacked'
  BY <1>1, <1>2, <1>3, <1>4 DEF LandmarkInv, EmptyBeforeStart, DepthIsBacked
<1>10. IdentitiesKept /\ ComesBackNearby
  BY <1>1, <1>4 DEF IdentitiesKept, ComesBackNearby
<1> QED
  BY <1>5, <1>6, <1>7, <1>8, <1>9, <1>10 DEF LandmarkInv

(* The steps that leave the landmarks alone.                               *)
LEMMA OtherStepsPreserve ==
  ASSUME LandmarkInv,
         \/ FrameWithoutTracks
         \/ CameraInfo
         \/ UNCHANGED vars
  PROVE  LandmarkInv' /\ IdentitiesKept /\ ComesBackNearby
PROOF
<1>1. UNCHANGED <<landmarks, nextId, started, tracks, depth, reported>>
  BY DEF FrameWithoutTracks, CameraInfo, vars
<1>2. /\ alive' \in BOOLEAN /\ intrinsics' \in BOOLEAN
      /\ intrinsics => intrinsics'
  <2>1. alive \in BOOLEAN /\ intrinsics \in BOOLEAN
    BY DEF LandmarkInv, TypeOK
  <2> QED
    BY <2>1 DEF FrameWithoutTracks, CameraInfo, vars
<1>3. TypeOK'
  BY <1>1, <1>2 DEF LandmarkInv, TypeOK
<1>4. TracksMatchLandmarks' /\ ReportsAreFresh' /\ ActiveMeansReportable'
  BY <1>1 DEF LandmarkInv, TracksMatchLandmarks, ReportsAreFresh, ActiveMeansReportable
<1>5. EmptyBeforeStart' /\ DepthIsBacked'
  BY <1>1, <1>2 DEF LandmarkInv, EmptyBeforeStart, DepthIsBacked
<1>6. IdentitiesKept /\ ComesBackNearby
  BY <1>1 DEF IdentitiesKept, ComesBackNearby
<1> QED
  BY <1>3, <1>4, <1>5, <1>6 DEF LandmarkInv

LEMMA StepPreserves ==
  ASSUME LandmarkInv, [Next]_vars
  PROVE  LandmarkInv' /\ IdentitiesKept /\ ComesBackNearby
PROOF
<1>1. CASE Bootstrap
  BY <1>1, BootstrapPreserves
<1>2. CASE Frame
  BY <1>2, FramePreserves
<1>3. CASE Tick
  BY <1>3, TickPreserves
<1>4. CASE \E valid \in SUBSET Visible : DepthImage(valid)
  BY <1>4, DepthImagePreserves
<1>5. CASE \/ FrameWithoutTracks
           \/ CameraInfo
           \/ UNCHANGED vars
  BY <1>5, OtherStepsPreserve
<1> QED
  BY <1>1, <1>2, <1>3, <1>4, <1>5 DEF Next

-----------------------------------------------------------------------------
(* The type invariant and its strengthening hold in every reachable state: *)
(* whatever optical flow, detector and matcher return to the image         *)
(* callback, in whatever order images, depth images and camera info come.  *)
THEOREM LandmarkInductive == Spec => []LandmarkInv
PROOF
<1>1. Init => LandmarkInv
  BY InitEstablishes
<1>2. LandmarkInv /\ [Next]_vars => LandmarkInv'
  BY StepPreserves
<1> QED
  BY <1>1, <1>2, PTL DEF Spec

(* Every variable of the manager and of the frontend has its type.         *)
THEOREM TypeCorrect == Spec => []TypeOK
PROOF
<1>1. LandmarkInv => TypeOK
  BY DEF LandmarkInv
<1> QED
  BY <1>1, LandmarkInductive, PTL

(* _prev_points/_prev_ids of the node and the manager's dictionary never   *)
(* disagree on which landmarks are tracked, and where.                     *)
THEOREM FrontendAndManagerAgree == Spec => []TracksMatchLandmarks
PROOF
<1>1. LandmarkInv => TracksMatchLandmarks
  BY DEF LandmarkInv
<1> QED
  BY <1>1, LandmarkInductive, PTL

(* _build_frame_measurement hands the observer no landmark measured before *)
(* an occlusion, at an older pixel or in a depth image replaced since.     *)
THEOREM OnlyFreshReports == Spec => []ReportsAreFresh
PROOF
<1>1. LandmarkInv => ReportsAreFresh
  BY DEF LandmarkInv
<1> QED
  BY <1>1, LandmarkInductive, PTL

(* The active flag, set and cleared in five places, means one thing.       *)
THEOREM ActiveIsReportable == Spec => []ActiveMeansReportable
PROOF
<1>1. LandmarkInv => ActiveMeansReportable
  BY DEF LandmarkInv
<1> QED
  BY <1>1, LandmarkInductive, PTL

(* A landmark is dropped by prune_stale only once it is stale, and no id   *)
(* is ever given out twice.                                                *)
THEOREM IdentitiesPersist == Spec => IdentityIsKept
PROOF
<1>1. LandmarkInv /\ [Next]_vars
        => [/\ \A id \in DOMAIN landmarks \ DOMAIN landmarks' :
                 landmarks[id].idle > StaleTimeout
            /\ \A id \in DOMAIN landmarks' \ DOMAIN landmarks : id >= nextId]_vars
  BY StepPreserves DEF IdentitiesKept
<1> QED
  BY <1>1, LandmarkInductive, PTL DEF Spec, IdentityIsKept

(* integrate_new_detections revives a dormant landmark only inside the     *)
(* search radius of the place it was lost at.                              *)
THEOREM RevivedNearby == Spec => ReidentifiedNearby
PROOF
<1>1. LandmarkInv /\ [Next]_vars
        => [\A id \in DOMAIN landmarks \cap DOMAIN landmarks' :
              ~landmarks[id].tracked /\ landmarks'[id].tracked
                => <<landmarks'[id].pixel, landmarks[id].pixel>> \in Near]_vars
  BY StepPreserves DEF ComesBackNearby
<1> QED
  BY <1>1, LandmarkInductive, PTL DEF Spec, ReidentifiedNearby
=============================================================================
