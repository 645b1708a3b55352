-------------------------- MODULE CorrectionSubsteps --------------------------
(***************************************************************************)
(* How Observer._apply_correction cuts the time since the previous frame   *)
(* into sub-steps of explicit Euler.  Times are counted in whole stamps,   *)
(* Rate of them to the second, and the gains are naturals, so that every   *)
(* comparison is exact.                                                    *)
(***************************************************************************)
EXTENDS Integers

CONSTANTS
  Rate,           \* stamps per second
  Kp,             \* Observer.kp
  Kx,             \* Observer.kx
  InverseSafety,  \* 1 / Observer._CORRECTION_STABILITY_SAFETY
  MaxSubsteps     \* Observer._CORRECTION_MAX_SUBSTEPS

ASSUME CorrectionAssumption ==
  /\ Rate \in Nat \ {0}
  /\ Kp \in Nat \ {0}
  /\ Kx \in Nat
  /\ InverseSafety \in Nat \ {0}
  /\ MaxSubsteps \in Nat \ {0}

(* max(kp, kp + n*kx), and kx is no negative gain.                         *)
DominantPole(n) == Kp + n * Kx

(* dt times the pole, in units of 1/Rate.                                  *)
Stiffness(dt, n) == dt * DominantPole(n)

(* Mutated form of Wanted: rounds down.                                    *)
WantedRoundedDown(stiffness) == (stiffness * InverseSafety) \div Rate

(* ceil(dt * pole / safety).                                               *)
Wanted(stiffness) == (stiffness * InverseSafety + Rate - 1) \div Rate

NumSubsteps(stiffness) ==
  LET wanted == Wanted(stiffness)
      capped == IF wanted < MaxSubsteps THEN wanted ELSE MaxSubsteps
  IN  IF capped > 1 THEN capped ELSE 1

(* dt_sub * pole is within the safety margin, or within the region where   *)
(* explicit Euler is stable, when stiffness is shared among k sub-steps.   *)
WithinMargin(stiffness, k) == stiffness * InverseSafety <= Rate * k
InStabilityRegion(stiffness, k) == stiffness < 2 * Rate * k
=============================================================================
