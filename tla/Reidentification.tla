-------------------------- MODULE Reidentification --------------------------
(***************************************************************************)
(* Which landmark each keypoint of a redetect pass becomes                 *)
(* (LandmarkManager.integrate_new_detections), stated without the loop: a  *)
(* keypoint is a record whose match is the dormant landmark that passed    *)
(* both gates for it, or None.  ReidentificationLoop has the loop.         *)
(***************************************************************************)
EXTENDS Integers, FiniteSets

CONSTANT None  \* Python's None

(* Mutated form of Claims: no claimed_landmark_ids set.                    *)
ClaimsUnchecked(kps, i) == kps[i].match # None

(* A match is honoured for the first keypoint that claims the landmark.    *)
Claims(kps, i) ==
  kps[i].match # None /\ \A j \in 1 .. i - 1 : kps[j].match # kps[i].match

Created(kps) == {i \in DOMAIN kps : ~Claims(kps, i)}

(* Mutated form of IdOf: the id is read after it was incremented.          *)
IdOfIncremented(kps, first, i) ==
  IF Claims(kps, i) THEN kps[i].match
  ELSE first + Cardinality({j \in Created(kps) : j <= i})

(* The id of keypoint i, when first is the next free one before the pass.  *)
IdOf(kps, first, i) ==
  IF Claims(kps, i) THEN kps[i].match
  ELSE first + Cardinality({j \in Created(kps) : j < i})
=============================================================================
