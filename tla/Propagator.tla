------------------------------ MODULE Propagator ------------------------------
(***************************************************************************)
(* The warm-up of the propagator (li_slam/observer/propagator.py): IMU     *)
(* samples are collected, window by window, until there are enough of both *)
(* sensors to estimate orientation and biases; only then is a window       *)
(* integrated.  Propagation has the integration.                          *)
(***************************************************************************)
EXTENDS Integers

CONSTANTS
  Warmup,    \* samples of each sensor the estimate needs (100 in the code)
  MaxWindow  \* bound: samples of one sensor in a window

ASSUME PropagatorAssumption ==
  /\ Warmup \in Nat \ {0}
  /\ MaxWindow \in Nat \ {0}

VARIABLES
  initAccel,    \* len(init_accel_samples), counted up to Warmup
  initGyro,     \* len(init_gyro_samples), counted up to Warmup
  initialized,  \* Propagator.initialized
  integrated    \* whether the last window was integrated

vars == <<initAccel, initGyro, initialized, integrated>>

UpToWarmup(n) == IF n < Warmup THEN n ELSE Warmup

Init ==
  /\ initAccel = 0
  /\ initGyro = 0
  /\ initialized = FALSE
  /\ integrated = FALSE

(* A window without accelerometer samples is dropped, its gyroscope        *)
(* samples with it.                                                        *)
NoAccel(gyro, accel) ==
  /\ accel = 0
  /\ integrated' = FALSE
  /\ UNCHANGED <<initAccel, initGyro, initialized>>

(* Mutated form of Collect: an incomplete collection starts over.          *)
CollectAfresh(gyro, accel) ==
  /\ accel > 0 /\ ~initialized
  /\ initialized' = (accel >= Warmup /\ gyro >= Warmup)
  /\ initAccel' = UpToWarmup(accel)
  /\ initGyro' = UpToWarmup(gyro)
  /\ integrated' = FALSE

(* Mutated form of Collect: one of the two sensors is enough.              *)
CollectEither(gyro, accel) ==
  /\ accel > 0 /\ ~initialized
  /\ initAccel' = UpToWarmup(initAccel + accel)
  /\ initGyro' = UpToWarmup(initGyro + gyro)
  /\ initialized' = (initAccel' = Warmup \/ initGyro' = Warmup)
  /\ integrated' = FALSE

(* initialize_from_stationary, once there are enough samples of both: the  *)
(* window that completes the collection is not integrated.                 *)
Collect(gyro, accel) ==
  /\ accel > 0 /\ ~initialized
  /\ initAccel' = UpToWarmup(initAccel + accel)
  /\ initGyro' = UpToWarmup(initGyro + gyro)
  /\ initialized' = (initAccel' = Warmup /\ initGyro' = Warmup)
  /\ integrated' = FALSE

(* With samples of both sensors there is an event for each but those that  *)
(* precede the other sensor's first: a single sample of each makes one     *)
(* event, more may make one or several, and it takes two events of         *)
(* different stamps to integrate.                                          *)
Integrate(gyro, accel) ==
  /\ accel > 0 /\ initialized
  /\ integrated' \in IF gyro > 0 /\ gyro + accel > 2 THEN BOOLEAN ELSE {FALSE}
  /\ UNCHANGED <<initAccel, initGyro, initialized>>

(* Propagator.propagate.                                                   *)
Propagate(gyro, accel) ==
  \/ NoAccel(gyro, accel)
  \/ Collect(gyro, accel)
  \/ Integrate(gyro, accel)

Next == \E gyro, accel \in 0 .. MaxWindow : Propagate(gyro, accel)

Spec == Init /\ [][Next]_vars

(* Both streams keep coming: again and again an image finds samples of     *)
(* both since the image before it.  Nothing is said of the images between. *)
BothArrive == \E gyro, accel \in 1 .. MaxWindow : Propagate(gyro, accel)

FairSpec == Spec /\ WF_vars(BothArrive)

-----------------------------------------------------------------------------
TypeOK ==
  /\ initAccel \in 0 .. Warmup
  /\ initGyro \in 0 .. Warmup
  /\ initialized \in BOOLEAN
  /\ integrated \in BOOLEAN

(* Nothing is integrated with the default orientation and biases, or with  *)
(* an estimate that lacks one of the sensors, however the samples of the   *)
(* two were spread over the windows.                                       *)
IntegratesOnlyEstimated ==
  /\ integrated => initialized
  /\ initialized <=> (initAccel = Warmup /\ initGyro = Warmup)

(* The estimate is made in the end, although windows with one sensor only  *)
(* waste or unbalance what they bring.                                     *)
EventuallyInitialized == <>[]initialized
=============================================================================
