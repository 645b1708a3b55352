------------------------------ MODULE MCObserver ------------------------------
(* Model-checking instance of Observer.  The gains, the safety margin and  *)
(* the cap are those of the code.                                          *)
EXTENDS Observer, TLC

CONSTANTS l1, l2

MCLandmark == {l1, l2}
MCSymmetry == Permutations(MCLandmark)
MCStamp == 0 .. 3
=============================================================================
