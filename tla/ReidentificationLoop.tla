------------------------ MODULE ReidentificationLoop ------------------------
(***************************************************************************)
(* LandmarkManager.integrate_new_detections step by step: the matcher's    *)
(* answers are gated, then the keypoints are visited in order and each     *)
(* claims a dormant landmark or creates a new one.                         *)
(***************************************************************************)
EXTENDS Reidentification, Sequences, FiniteSetsExt

CONSTANTS
  Keypoints,   \* number of keypoints detected
  Candidates,  \* number of dormant landmarks; their ids are 1 .. Candidates
  Threshold,   \* MATCH_DISTANCE_THRESH, on a coarse scale
  MaxDistance  \* bound: the largest Hamming distance

ASSUME LoopAssumption ==
  /\ Keypoints \in Nat
  /\ Candidates \in Nat
  /\ Threshold \in Nat
  /\ MaxDistance \in Nat
  /\ None \notin Nat

VARIABLES
  distance,  \* distance[q][c]: descriptor distance of keypoint q and candidate c
  near,      \* near[q]: the candidates within REID_SEARCH_RADIUS of keypoint q
  next,      \* the keypoint the loop visits next
  claimed,   \* claimed_landmark_ids
  nextId,    \* _next_id
  results    \* results: one record [id, isNew] per keypoint visited

vars == <<distance, near, next, claimed, nextId, results>>

Query == 1 .. Keypoints
Candidate == 1 .. Candidates

FirstFree == Candidates + 1

(* BFMatcher.match: the first candidate of least distance.                 *)
Nearest(q) ==
  Min({c \in Candidate : \A d \in Candidate : distance[q][c] <= distance[q][d]})

(* best_for_query: the nearest candidate if it passes both gates.          *)
BestForQuery(q) ==
  IF /\ Candidates > 0
     /\ distance[q][Nearest(q)] <= Threshold
     /\ Nearest(q) \in near[q]
  THEN Nearest(q) ELSE None

Init ==
  /\ distance \in [Query -> [Candidate -> 0 .. MaxDistance]]
  /\ near \in [Query -> SUBSET Candidate]
  /\ next = 1
  /\ claimed = {}
  /\ nextId = FirstFree
  /\ results = << >>

(* Mutated form of Reidentify: claimed_landmark_ids is not filled.         *)
ReidentifyForgets ==
  /\ next <= Keypoints
  /\ BestForQuery(next) # None /\ BestForQuery(next) \notin claimed
  /\ results' = Append(results, [id |-> BestForQuery(next), isNew |-> FALSE])
  /\ next' = next + 1
  /\ UNCHANGED <<distance, near, claimed, nextId>>

Reidentify ==
  /\ next <= Keypoints
  /\ BestForQuery(next) # None /\ BestForQuery(next) \notin claimed
  /\ claimed' = claimed \cup {BestForQuery(next)}
  /\ results' = Append(results, [id |-> BestForQuery(next), isNew |-> FALSE])
  /\ next' = next + 1
  /\ UNCHANGED <<distance, near, nextId>>

(* Mutated form of Create: the nearest candidate is claimed before its     *)
(* gates are looked at.                                                    *)
CreateClaims ==
  /\ next <= Keypoints
  /\ BestForQuery(next) = None \/ BestForQuery(next) \in claimed
  /\ results' = Append(results, [id |-> nextId, isNew |-> TRUE])
  /\ claimed' = claimed \cup {Nearest(next)}
  /\ nextId' = nextId + 1
  /\ next' = next + 1
  /\ UNCHANGED <<distance, near>>

Create ==
  /\ next <= Keypoints
  /\ BestForQuery(next) = None \/ BestForQuery(next) \in claimed
  /\ results' = Append(results, [id |-> nextId, isNew |-> TRUE])
  /\ nextId' = nextId + 1
  /\ next' = next + 1
  /\ UNCHANGED <<distance, near, claimed>>

Next == Reidentify \/ Create

Spec == Init /\ [][Next]_vars

-----------------------------------------------------------------------------
(* No two keypoints of one pass get the same landmark, although several    *)
(* may have the same nearest candidate.                                    *)
OneKeypointPerLandmark ==
  \A i, j \in DOMAIN results : i # j => results[i].id # results[j].id

(* A dormant landmark that agrees with a keypoint in descriptor and place. *)
WithinGates(q, c) == distance[q][c] <= Threshold /\ c \in near[q]

(* A keypoint before q has taken the dormant landmark over.                *)
TakenBefore(d, q) == \E j \in 1 .. q - 1 : ~results[j].isNew /\ results[j].id = d

(* A keypoint that becomes a new landmark, although a dormant one agrees   *)
(* with it in descriptor and place, is denied that identity for one of two *)
(* reasons: the match nearest in descriptor, no further than the right     *)
(* one, lies outside the search radius and hides it, since only the        *)
(* nearest is ever looked at; or an earlier keypoint took the match.       *)
MissedOnlyWhenHidden ==
  \A q \in DOMAIN results, c \in Candidate :
    results[q].isNew /\ WithinGates(q, c) =>
      \E d \in Candidate :
        /\ distance[q][d] <= distance[q][c]
        /\ d \notin near[q] \/ TakenBefore(d, q)

(* The loop returns what the loop-free definitions say, and leaves _next_id *)
(* past every id it created.                                               *)
Keypoint == [q \in Query |-> [match |-> BestForQuery(q)]]
LoopComputesIds ==
  /\ \A i \in DOMAIN results :
       /\ results[i].id = IdOf(Keypoint, FirstFree, i)
       /\ results[i].isNew <=> i \in Created(Keypoint)
  /\ next > Keypoints => nextId = FirstFree + Cardinality(Created(Keypoint))
=============================================================================
