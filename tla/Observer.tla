------------------------------- MODULE Observer -------------------------------
(***************************************************************************)
(* Observer.process (li_slam/observer/observer.py), frame after frame:     *)
(* the time since the previous frame, the propagator's warm-up, the map of *)
(* landmarks and the measurement correction.  Poses and positions are left *)
(* out; what is kept is which frames, landmarks and intervals of time each *)
(* step applies to, and how finely the correction is integrated.           *)
(***************************************************************************)
EXTENDS CorrectionSubsteps, Sequences, FiniteSets

CONSTANTS
  Landmark,   \* landmarks; each stands for a group seen together
  GroupSize,  \* landmarks in a group
  Warmup,     \* see Propagator
  MaxWindow,  \* bound: see Propagator
  Stamp,      \* the stamps images may have
  MaxFrames,  \* bound: frames processed
  None        \* no frame yet

ASSUME ObserverAssumption ==
  /\ IsFiniteSet(Landmark)
  /\ GroupSize \in Nat \ {0}
  /\ Warmup \in Nat \ {0}
  /\ MaxWindow \in Nat \ {0}
  /\ Stamp \subseteq Nat
  /\ MaxFrames \in Nat
  /\ None \notin Nat

VARIABLES
  initAccel, initGyro, initialized, integrated,  \* the propagator's
  prevFrameT,   \* _prev_frame_t
  mapped,       \* state.landmarks: the frame each landmark was added in
  frames,       \* frames processed
  stamps,       \* their stamps
  aligned,      \* the frame that completed the warm-up, or None
  corrections   \* corrections applied: records [frame, from, to, known,
                \* substeps, stiffness]; known is TRUE if a landmark of an
                \* earlier frame took part

propagatorVars == <<initAccel, initGyro, initialized, integrated>>
vars == <<initAccel, initGyro, initialized, integrated,
          prevFrameT, mapped, frames, stamps, aligned, corrections>>

Prop == INSTANCE Propagator

(* Mutated form of Mapped: landmarks are added before the warm-up is over. *)
MappedAtOnce(measured, ready) ==
  [id \in DOMAIN mapped \cup measured |->
     IF id \in DOMAIN mapped THEN mapped[id] ELSE frames + 1]

(* _initialize_new_landmarks, called once the propagator is initialised;   *)
(* a landmark in the map stays as it is.                                   *)
Mapped(measured, ready) ==
  [id \in DOMAIN mapped \cup (IF ready THEN measured ELSE {}) |->
     IF id \in DOMAIN mapped THEN mapped[id] ELSE frames + 1]

(* _compute_landmark_residuals: the landmarks with a residual.             *)
Residuals(measured, map, ready) ==
  IF ready THEN measured \cap DOMAIN map ELSE {}

(* _apply_correction, called with residuals and a positive dt.             *)
Correction(t, used) ==
  IF used = {} \/ prevFrameT = None THEN {}
  ELSE IF prevFrameT >= t THEN {}
  ELSE LET stiffness == Stiffness(t - prevFrameT, GroupSize * Cardinality(used))
       IN  {[frame |-> frames + 1, from |-> prevFrameT, to |-> t,
             known |-> used \cap DOMAIN mapped # {},
             substeps |-> NumSubsteps(stiffness), stiffness |-> stiffness]}

Init ==
  /\ Prop!Init
  /\ prevFrameT = None
  /\ mapped = << >>
  /\ frames = 0
  /\ stamps = << >>
  /\ aligned = None
  /\ corrections = {}

(* Mutated form of Process: dt is counted from the first frame on.          *)
ProcessKeepsFirstStamp(t, measured, gyro, accel) ==
  /\ frames < MaxFrames
  /\ Prop!Propagate(gyro, accel)
  /\ mapped' = Mapped(measured, initialized')
  /\ corrections' = corrections \cup
       Correction(t, Residuals(measured, mapped', initialized'))
  /\ prevFrameT' = IF prevFrameT = None THEN t ELSE prevFrameT
  /\ frames' = frames + 1
  /\ stamps' = Append(stamps, t)
  /\ aligned' = IF initialized' /\ aligned = None THEN frames + 1 ELSE aligned

(* One frame: its stamp, the landmarks measured in it and how many samples *)
(* of each sensor its window has.                                          *)
Process(t, measured, gyro, accel) ==
  /\ frames < MaxFrames
  /\ Prop!Propagate(gyro, accel)
  /\ mapped' = Mapped(measured, initialized')
  /\ corrections' = corrections \cup
       Correction(t, Residuals(measured, mapped', initialized'))
  /\ prevFrameT' = t
  /\ frames' = frames + 1
  /\ stamps' = Append(stamps, t)
  /\ aligned' = IF initialized' /\ aligned = None THEN frames + 1 ELSE aligned

Next ==
  \E t \in Stamp, measured \in SUBSET Landmark, gyro, accel \in 0 .. MaxWindow :
    Process(t, measured, gyro, accel)

Spec == Init /\ [][Next]_vars

-----------------------------------------------------------------------------
Corrections ==
  [frame : 1 .. frames, from : Stamp, to : Stamp, known : BOOLEAN,
   substeps : 1 .. MaxSubsteps, stiffness : Nat]

TypeOK ==
  /\ Prop!TypeOK
  /\ frames \in 0 .. MaxFrames
  /\ stamps \in Seq(Stamp) /\ Len(stamps) = frames
  /\ prevFrameT = IF frames = 0 THEN None ELSE stamps[frames]
  /\ DOMAIN mapped \subseteq Landmark
  /\ \A id \in DOMAIN mapped : mapped[id] \in 1 .. frames
  /\ aligned \in {None} \cup 1 .. frames
  /\ corrections \subseteq Corrections

(* What ties the records of corrections to the frames they were made in.   *)
CorrectionsHaveFrames ==
  \A c \in corrections :
    /\ c.frame \in 2 .. frames
    /\ c.from = stamps[c.frame - 1]
    /\ c.to = stamps[c.frame]

(* The image stamps went back somewhere after frame j, up to frame k.      *)
SteppedBack(j, k) == \E i \in j + 1 .. k : stamps[i] < stamps[i - 1]

(* A frame is behind an earlier one only after a step back.                *)
BehindOnlyAfterStepBack ==
  \A j \in 1 .. frames : \A k \in j .. frames :
    stamps[k] < stamps[j] => SteppedBack(j, k)

(* The map is empty until the pose is aligned.                             *)
MapIsAligned ==
  /\ aligned = None <=> ~initialized
  /\ \A id \in DOMAIN mapped : aligned # None /\ aligned <= mapped[id]
  /\ \A c \in corrections : c.known => aligned # None /\ aligned < c.frame

(* An interval of time is corrected over a second time only if the image   *)
(* stamps have gone back in between: frames without measurements, the      *)
(* warm-up and skipped corrections never make two corrections overlap.     *)
CorrectedOnce ==
  \A c, d \in corrections :
    c.frame < d.frame /\ d.from < c.to => SteppedBack(c.frame, d.frame)

(* A landmark known from an earlier frame is corrected over time before    *)
(* the image whose frame aligned the pose with gravity only if the image   *)
(* stamps have gone back since that frame: otherwise none of the warm-up   *)
(* is fed back into the map, although frames count their dt from the very  *)
(* first one on.                                                           *)
CorrectsAlignedTime ==
  \A c \in corrections : c.known =>
    /\ aligned # None
    /\ c.from < stamps[aligned] => SteppedBack(aligned, c.frame - 1)

(* The sub-steps are as fine as the safety margin asks, and no finer than  *)
(* needed, unless the cap on their number is hit.                          *)
MarginUnlessCapped ==
  \A c \in corrections :
    /\ WithinMargin(c.stiffness, c.substeps) \/ c.substeps = MaxSubsteps
    /\ c.substeps > 1 => ~WithinMargin(c.stiffness, c.substeps - 1)

(* The inductive invariant.                                                *)
ObserverInv ==
  /\ TypeOK
  /\ CorrectionsHaveFrames
  /\ BehindOnlyAfterStepBack
  /\ MapIsAligned
  /\ CorrectedOnce
  /\ MarginUnlessCapped
=============================================================================
