--------------------------- MODULE PropagatorProofs ---------------------------
(* Theorems about the warm-up of the propagator, for every number of       *)
(* samples it needs and every spread of them over the windows.             *)
EXTENDS Propagator, TLAPS

LEMMA UpToWarmupFacts ==
  ASSUME NEW n \in Nat
  PROVE  /\ UpToWarmup(n) \in 0 .. Warmup
         /\ UpToWarmup(n) = Warmup <=> n >= Warmup
         /\ n < Warmup => UpToWarmup(n) = n
PROOF
  BY PropagatorAssumption DEF UpToWarmup

(* What a window adds to a count that is cut off at the warm-up.           *)
LEMMA CountGrows ==
  ASSUME NEW n \in 0 .. Warmup, NEW k \in 0 .. MaxWindow
  PROVE  /\ UpToWarmup(n + k) \in 0 .. Warmup
         /\ n <= UpToWarmup(n + k)
         /\ n < Warmup /\ k > 0 => n < UpToWarmup(n + k)
PROOF
<1>1. n \in Nat /\ k \in Nat /\ n + k \in Nat /\ n <= Warmup /\ Warmup \in Nat
  BY PropagatorAssumption
<1>2. QED
  BY <1>1, UpToWarmupFacts DEF UpToWarmup

(* Two counts that grow within a bound.                                    *)
LEMMA SumGrows ==
  ASSUME NEW w \in Nat, NEW m \in 0 .. w, NEW n \in 0 .. w,
         NEW k \in 0 .. w, NEW l \in 0 .. w, m <= k, n <= l
  PROVE  /\ k + l \in 0 .. 2 * w /\ k + l >= m + n
         /\ m < k \/ n < l => k + l > m + n
PROOF
  OBVIOUS

(* Every window keeps the types, and the estimate stands for a full        *)
(* collection of both sensors.                                             *)
LEMMA PropagatePreserves ==
  ASSUME TypeOK, IntegratesOnlyEstimated,
         NEW gyro \in 0 .. MaxWindow, NEW accel \in 0 .. MaxWindow,
         Propagate(gyro, accel)
  PROVE  TypeOK' /\ IntegratesOnlyEstimated'
PROOF
<1>1. CASE NoAccel(gyro, accel)
  BY <1>1 DEF NoAccel, TypeOK, IntegratesOnlyEstimated
<1>2. CASE Collect(gyro, accel)
  <2>1. initAccel' \in 0 .. Warmup /\ initGyro' \in 0 .. Warmup
    BY <1>2, CountGrows DEF Collect, TypeOK
  <2>2. /\ initialized' = (initAccel' = Warmup /\ initGyro' = Warmup)
        /\ integrated' = FALSE
    BY <1>2 DEF Collect
  <2>3. QED
    BY <2>1, <2>2 DEF TypeOK, IntegratesOnlyEstimated
<1>3. CASE Integrate(gyro, accel)
  BY <1>3 DEF Integrate, TypeOK, IntegratesOnlyEstimated
<1>4. QED
  BY <1>1, <1>2, <1>3 DEF Propagate

(* The types and the estimate's completeness are inductive together.       *)
THEOREM WarmupInvariant == Spec => [](TypeOK /\ IntegratesOnlyEstimated)
PROOF
<1>1. Init => TypeOK /\ IntegratesOnlyEstimated
  <2>1. 0 \in 0 .. Warmup /\ Warmup # 0
    BY PropagatorAssumption
  <2>2. QED
    BY <2>1 DEF Init, TypeOK, IntegratesOnlyEstimated
<1>2. TypeOK /\ IntegratesOnlyEstimated /\ [Next]_vars
        => TypeOK' /\ IntegratesOnlyEstimated'
  <2> SUFFICES ASSUME TypeOK, IntegratesOnlyEstimated, [Next]_vars
               PROVE  TypeOK' /\ IntegratesOnlyEstimated'
    OBVIOUS
  <2>1. CASE Next
    BY <2>1, PropagatePreserves DEF Next
  <2>2. CASE UNCHANGED vars
    BY <2>2 DEF vars, TypeOK, IntegratesOnlyEstimated
  <2>3. QED
    BY <2>1, <2>2
<1>3. QED
  BY <1>1, <1>2, PTL DEF Spec

(* No window is integrated before orientation and biases are estimated     *)
(* from enough samples of both sensors.                                    *)
THEOREM EstimateComesFirst == Spec => []IntegratesOnlyEstimated
PROOF
  BY WarmupInvariant, PTL

(* Nothing but a full collection ends the warm-up, and nothing makes the   *)
(* propagator collect again.                                               *)
THEOREM WarmupEndsOnce == Spec => [][initialized => initialized']_vars
PROOF
<1>1. TypeOK /\ IntegratesOnlyEstimated /\ [Next]_vars => [initialized => initialized']_vars
  BY DEF Next, Propagate, NoAccel, Collect, Integrate, vars
<1>2. QED
  BY <1>1, WarmupInvariant, PTL DEF Spec

(* What the end of the warm-up rests on: no window takes the collection    *)
(* back, and one with samples of both sensors takes it further while it is *)
(* not complete, so that 2 * Warmup such windows are enough.               *)
THEOREM WarmupAdvances ==
  ASSUME TypeOK, IntegratesOnlyEstimated, [Next]_vars
  PROVE  /\ initAccel' + initGyro' \in 0 .. 2 * Warmup
         /\ initAccel' + initGyro' >= initAccel + initGyro
         /\ BothArrive /\ ~initialized =>
              initAccel' + initGyro' > initAccel + initGyro
PROOF
<1>1. /\ Warmup \in Nat /\ MaxWindow \in Nat
      /\ initAccel \in 0 .. Warmup /\ initGyro \in 0 .. Warmup
      /\ initialized \in BOOLEAN
  BY PropagatorAssumption DEF TypeOK
<1>2. ASSUME NEW gyro \in 0 .. MaxWindow, NEW accel \in 0 .. MaxWindow,
             Propagate(gyro, accel)
      PROVE  /\ initAccel' \in 0 .. Warmup /\ initAccel <= initAccel'
             /\ initGyro' \in 0 .. Warmup /\ initGyro <= initGyro'
             /\ accel > 0 /\ ~initialized /\ initAccel < Warmup => initAccel < initAccel'
             /\ accel > 0 /\ gyro > 0 /\ ~initialized /\ initGyro < Warmup =>
                  initGyro < initGyro'
  <2>1. CASE NoAccel(gyro, accel)
    BY <1>1, <2>1 DEF NoAccel
  <2>2. CASE Collect(gyro, accel)
    BY <1>1, <2>2, CountGrows DEF Collect
  <2>3. CASE Integrate(gyro, accel)
    BY <1>1, <2>3 DEF Integrate
  <2>4. QED
    BY <1>2, <2>1, <2>2, <2>3 DEF Propagate
<1>3. CASE Next
  <2>1. PICK gyro \in 0 .. MaxWindow, accel \in 0 .. MaxWindow : Propagate(gyro, accel)
    BY <1>3 DEF Next
  <2>2. /\ initAccel' \in 0 .. Warmup /\ initAccel <= initAccel'
        /\ initGyro' \in 0 .. Warmup /\ initGyro <= initGyro'
    BY <1>2, <2>1
  <2>3. ASSUME BothArrive, ~initialized
        PROVE  initAccel < initAccel' \/ initGyro < initGyro'
    <3>1. PICK g \in 1 .. MaxWindow, a \in 1 .. MaxWindow : Propagate(g, a)
      BY <2>3 DEF BothArrive
    <3>2. g \in 0 .. MaxWindow /\ a \in 0 .. MaxWindow /\ g > 0 /\ a > 0
      BY <1>1
    <3>3. /\ initAccel < Warmup => initAccel < initAccel'
          /\ initGyro < Warmup => initGyro < initGyro'
      BY <1>2, <2>3, <3>1, <3>2
    <3>4. initAccel < Warmup \/ initGyro < Warmup
      BY <1>1, <2>3 DEF IntegratesOnlyEstimated
    <3>5. QED
      BY <3>3, <3>4
  <2>4. QED
    BY <1>1, <2>2, <2>3, SumGrows
<1>4. CASE UNCHANGED vars
  <2>1. initAccel' = initAccel /\ initGyro' = initGyro /\ initialized' = initialized
    BY <1>4 DEF vars
  <2>2. BothArrive => initialized
    <3> SUFFICES ASSUME BothArrive, ~initialized PROVE FALSE
      BY <1>1
    <3>1. PICK g \in 1 .. MaxWindow, a \in 1 .. MaxWindow : Propagate(g, a)
      BY DEF BothArrive
    <3>2. g \in 0 .. MaxWindow /\ a \in 0 .. MaxWindow /\ g > 0 /\ a > 0
      BY <1>1
    <3>3. /\ initAccel < Warmup => initAccel < initAccel'
          /\ initGyro < Warmup => initGyro < initGyro'
      BY <1>2, <3>1, <3>2
    <3>4. initAccel < Warmup \/ initGyro < Warmup
      BY <1>1 DEF IntegratesOnlyEstimated
    <3>5. QED
      BY <1>1, <2>1, <3>3, <3>4
  <2>3. QED
    BY <1>1, <2>1, <2>2
<1>5. QED
  BY <1>3, <1>4
=============================================================================
