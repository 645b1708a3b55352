---------------------------- MODULE ObserverProofs ----------------------------
(* Theorems about Observer and the sub-steps of its correction, for every  *)
(* set of landmarks, every order of image stamps, all gains, margins and   *)
(* caps.                                                                   *)
EXTENDS Observer, FiniteSetTheorems, SequenceTheorems, TLAPS

-----------------------------------------------------------------------------
(* The sub-steps of the correction.                                        *)

(* Rounding a quotient up: the smallest q with a <= r * q.                 *)
LEMMA CeilingBounds ==
  ASSUME NEW a \in Nat, NEW r \in Nat \ {0}
  PROVE  LET q == (a + r - 1) \div r
         IN  /\ q \in Nat
             /\ a <= r * q
             /\ r * q < a + r
PROOF
<1> DEFINE b == a + r - 1
           q == b \div r
           m == b % r
<1>1. b \in Nat /\ r \in Nat /\ r > 0
  OBVIOUS
<1>2. q \in Int /\ m \in Int
  BY <1>1
<1>3. b = r * q + m /\ 0 <= m /\ m < r
  BY <1>1
<1>4. q >= 0
  BY <1>1, <1>2, <1>3
<1>5. r * q \in Int
  BY <1>1, <1>2
<1> QED
  BY <1>2, <1>3, <1>4, <1>5

(* Multiplication by a natural is monotone.                                *)
LEMMA ProductMonotone ==
  ASSUME NEW r \in Nat, NEW j \in Nat, NEW k \in Nat, j <= k
  PROVE  r * j \in Nat /\ r * k \in Nat /\ r * j <= r * k
PROOF
<1>1. PICK d \in Nat : k = j + d
  <2>1. k - j \in Nat /\ k = j + (k - j)
    OBVIOUS
  <2> QED
    BY <2>1
<1>2. r * k = r * j + r * d
  BY <1>1
<1>3. r * d \in Nat /\ r * j \in Nat
  BY <1>1
<1> QED
  BY <1>2, <1>3

(* num_substeps before it is capped: the fewest sub-steps that stay within *)
(* the safety margin.                                                      *)
LEMMA WantedIsFewest ==
  ASSUME NEW s \in Nat
  PROVE  /\ Wanted(s) \in Nat
         /\ WithinMargin(s, Wanted(s))
         /\ \A k \in Nat : k < Wanted(s) => ~WithinMargin(s, k)
PROOF
<1> DEFINE a == s * InverseSafety
           q == Wanted(s)
<1>1. a \in Nat /\ Rate \in Nat \ {0}
  BY CorrectionAssumption
<1>2. /\ q \in Nat
      /\ a <= Rate * q
      /\ Rate * q < a + Rate
  BY <1>1, CeilingBounds DEF Wanted
<1>3. ASSUME NEW k \in Nat, k < q, a <= Rate * k
      PROVE  FALSE
  <2>1. k + 1 <= q
    BY <1>2, <1>3
  <2>2. Rate * (k + 1) <= Rate * q
    BY <1>1, <1>2, <2>1, ProductMonotone
  <2>3. Rate * (k + 1) = Rate * k + Rate
    BY <1>1
  <2>4. Rate * k \in Nat /\ Rate * q \in Nat
    BY <1>1, <1>2
  <2> QED
    BY <1>1, <1>2, <1>3, <2>2, <2>3, <2>4
<1> QED
  BY <1>2, <1>3 DEF WithinMargin

(* The correction never runs more sub-steps than its cap and never none;   *)
(* they are within the safety margin unless the cap is hit, and there are  *)
(* no more of them than that takes.                                        *)
THEOREM SubstepsWithinMargin ==
  ASSUME NEW s \in Nat
  PROVE  /\ NumSubsteps(s) \in 1 .. MaxSubsteps
         /\ WithinMargin(s, NumSubsteps(s)) \/ NumSubsteps(s) = MaxSubsteps
         /\ NumSubsteps(s) > 1 => ~WithinMargin(s, NumSubsteps(s) - 1)
PROOF
<1> DEFINE w == Wanted(s)
           n == NumSubsteps(s)
<1>1. /\ w \in Nat
      /\ WithinMargin(s, w)
      /\ \A k \in Nat : k < w => ~WithinMargin(s, k)
  BY WantedIsFewest
<1>2. MaxSubsteps \in Nat /\ MaxSubsteps >= 1 /\ Rate \in Nat
  BY CorrectionAssumption
<1>3. n = IF w < MaxSubsteps THEN (IF w > 1 THEN w ELSE 1) ELSE MaxSubsteps
  BY <1>1, <1>2 DEF NumSubsteps
<1>4. n \in 1 .. MaxSubsteps
  BY <1>1, <1>2, <1>3
<1>5. ASSUME w <= n PROVE WithinMargin(s, n)
  <2>1. Rate * w <= Rate * n /\ Rate * w \in Nat /\ Rate * n \in Nat
    BY <1>1, <1>2, <1>4, <1>5, ProductMonotone
  <2>2. s * InverseSafety \in Nat
    BY CorrectionAssumption
  <2> QED
    BY <1>1, <2>1, <2>2 DEF WithinMargin
<1>6. WithinMargin(s, n) \/ n = MaxSubsteps
  BY <1>1, <1>2, <1>3, <1>5
<1>7. n > 1 => n - 1 \in Nat /\ n - 1 < w
  BY <1>1, <1>2, <1>3
<1> QED
  BY <1>1, <1>4, <1>6, <1>7

(* With no more stiffness than the cap can take, dt * pole below           *)
(* 2 * MaxSubsteps, the integration is in the region where explicit Euler  *)
(* is stable.                                                              *)
THEOREM StableUpToTheCap ==
  ASSUME NEW s \in Nat, s < 2 * (Rate * MaxSubsteps)
  PROVE  InStabilityRegion(s, NumSubsteps(s))
PROOF
<1> DEFINE n == NumSubsteps(s)
<1>1. n \in 1 .. MaxSubsteps /\ (WithinMargin(s, n) \/ n = MaxSubsteps)
  BY SubstepsWithinMargin
<1>2. MaxSubsteps \in Nat /\ Rate \in Nat \ {0} /\ InverseSafety \in Nat \ {0}
  BY CorrectionAssumption
<1>3. 2 * Rate * n = 2 * (Rate * n)
  BY <1>1, <1>2
<1>4. CASE n = MaxSubsteps
  BY <1>3, <1>4 DEF InStabilityRegion
<1>5. CASE WithinMargin(s, n)
  <2>1. s * 1 <= s * InverseSafety
    BY <1>2, ProductMonotone
  <2>2. s <= Rate * n
    <3>1. s * InverseSafety \in Nat /\ Rate * n \in Nat
      BY <1>1, <1>2
    <3> QED
      BY <1>5, <2>1, <3>1 DEF WithinMargin
  <2>3. Rate * 1 <= Rate * n
    BY <1>1, <1>2, ProductMonotone
  <2>4. Rate * n \in Nat /\ Rate * n > 0
    BY <1>1, <1>2, <2>3
  <2> QED
    BY <1>3, <2>2, <2>4 DEF InStabilityRegion
<1> QED
  BY <1>1, <1>4, <1>5

(* Beyond that the cap makes every sub-step too long: the docstring's      *)
(* "small enough to stay inside that region" does not hold.                *)
THEOREM UnstableBeyondTheCap ==
  ASSUME NEW s \in Nat, s >= 2 * (Rate * MaxSubsteps)
  PROVE  ~InStabilityRegion(s, NumSubsteps(s))
PROOF
<1> DEFINE n == NumSubsteps(s)
<1>1. n \in 1 .. MaxSubsteps
  BY SubstepsWithinMargin
<1>2. MaxSubsteps \in Nat /\ Rate \in Nat
  BY CorrectionAssumption
<1>3. Rate * n <= Rate * MaxSubsteps /\ Rate * n \in Nat /\ Rate * MaxSubsteps \in Nat
  BY <1>1, <1>2, ProductMonotone
<1>4. 2 * Rate * n = 2 * (Rate * n)
  BY <1>1, <1>2
<1> QED
  BY <1>3, <1>4 DEF InStabilityRegion

-----------------------------------------------------------------------------
(* The frames.                                                             *)

(* The propagator keeps its types, and stays initialised.                  *)
LEMMA PropagatePreserves ==
  ASSUME Prop!TypeOK, NEW gyro \in 0 .. MaxWindow, NEW accel \in 0 .. MaxWindow,
         Prop!Propagate(gyro, accel)
  PROVE  Prop!TypeOK' /\ (initialized => initialized')
PROOF
<1>1. Warmup \in Nat \ {0} /\ MaxWindow \in Nat
  BY ObserverAssumption
<1>2. \A n \in Nat : Prop!UpToWarmup(n) \in 0 .. Warmup
  BY <1>1 DEF Prop!UpToWarmup
<1>3. CASE Prop!NoAccel(gyro, accel)
  BY <1>3 DEF Prop!TypeOK, Prop!NoAccel
<1>4. CASE Prop!Collect(gyro, accel)
  <2>1. initAccel + accel \in Nat /\ initGyro + gyro \in Nat
    BY <1>1 DEF Prop!TypeOK
  <2>2. initAccel' \in 0 .. Warmup /\ initGyro' \in 0 .. Warmup
    BY <1>2, <1>4, <2>1 DEF Prop!Collect
  <2>3. initialized' \in BOOLEAN /\ integrated' \in BOOLEAN
    BY <1>4 DEF Prop!Collect
  <2> QED
    BY <1>4, <2>2, <2>3 DEF Prop!TypeOK, Prop!Collect
<1>5. CASE Prop!Integrate(gyro, accel)
  BY <1>5 DEF Prop!TypeOK, Prop!Integrate
<1> QED
  BY <1>3, <1>4, <1>5 DEF Prop!Propagate

(* What a correction, if one is applied, records.                          *)
LEMMA CorrectionRecords ==
  ASSUME TypeOK, NEW t \in Stamp, NEW used \in SUBSET Landmark,
         NEW c \in Correction(t, used)
  PROVE  /\ frames >= 1
         /\ c.frame = frames + 1
         /\ c.from = stamps[frames] /\ c.from \in Stamp /\ c.from < t
         /\ c.to = t
         /\ c.known = (used \cap DOMAIN mapped # {}) /\ c.known \in BOOLEAN
         /\ c.stiffness \in Nat
         /\ c.substeps = NumSubsteps(c.stiffness)
         /\ c = [frame |-> c.frame, from |-> c.from, to |-> c.to, known |-> c.known,
                 substeps |-> c.substeps, stiffness |-> c.stiffness]
PROOF
<1> DEFINE s == Stiffness(t - prevFrameT, GroupSize * Cardinality(used))
<1>1. /\ used # {} /\ prevFrameT # None /\ ~(prevFrameT >= t)
      /\ c = [frame |-> frames + 1, from |-> prevFrameT, to |-> t,
              known |-> used \cap DOMAIN mapped # {},
              substeps |-> NumSubsteps(s), stiffness |-> s]
  BY DEF Correction
<1>2. frames \in Nat /\ frames >= 1 /\ prevFrameT = stamps[frames]
  BY <1>1, ObserverAssumption DEF TypeOK
<1>3. prevFrameT \in Stamp
  BY <1>2, ElementOfSeq DEF TypeOK
<1>4. t - prevFrameT \in Nat /\ prevFrameT < t
  BY <1>1, <1>3, ObserverAssumption
<1>5. Cardinality(used) \in Nat
  BY FS_Subset, FS_CardinalityType, ObserverAssumption
<1>6. GroupSize * Cardinality(used) \in Nat
  BY <1>5, ObserverAssumption
<1>7. s \in Nat
  <2>1. DominantPole(GroupSize * Cardinality(used)) \in Nat
    BY <1>6, CorrectionAssumption DEF DominantPole
  <2> QED
    BY <1>4, <2>1 DEF Stiffness
<1> HIDE DEF s
<1> QED
  BY <1>1, <1>2, <1>3, <1>4, <1>7

(* At most one correction is recorded in a frame.                          *)
LEMMA CorrectionIsUnique ==
  ASSUME NEW t, NEW used, NEW c \in Correction(t, used), NEW d \in Correction(t, used)
  PROVE  c = d
PROOF
  BY DEF Correction

LEMMA InitEstablishes == Init => ObserverInv
PROOF
<1> SUFFICES ASSUME Init PROVE ObserverInv
  OBVIOUS
<1>1. Warmup \in Nat \ {0} /\ MaxFrames \in Nat
  BY ObserverAssumption
<1>2. /\ frames = 0 /\ stamps = << >> /\ prevFrameT = None
      /\ mapped = << >> /\ aligned = None /\ corrections = {}
  BY DEF Init
<1>3. initAccel \in 0 .. Warmup /\ initGyro \in 0 .. Warmup
  <2>1. initAccel = 0 /\ initGyro = 0
    BY DEF Init, Prop!Init
  <2> QED
    BY <1>1, <2>1
<1>4. initialized \in BOOLEAN /\ integrated \in BOOLEAN /\ ~initialized
  BY DEF Init, Prop!Init
<1>5. Prop!TypeOK
  BY <1>3, <1>4 DEF Prop!TypeOK
<1>6. DOMAIN mapped = {}
  BY <1>2
<1>7. stamps \in Seq(Stamp) /\ Len(stamps) = 0
  BY <1>2
<1>8. TypeOK
  BY <1>1, <1>2, <1>6, <1>7, <1>5 DEF TypeOK
<1> QED
  BY <1>2, <1>6, <1>8, <1>4 DEF ObserverInv, CorrectionsHaveFrames,
     BehindOnlyAfterStepBack, MapIsAligned, CorrectedOnce, MarginUnlessCapped

(* Every frame preserves the invariant.                                    *)
LEMMA ProcessPreserves ==
  ASSUME ObserverInv,
         NEW t \in Stamp, NEW measured \in SUBSET Landmark,
         NEW gyro \in 0 .. MaxWindow, NEW accel \in 0 .. MaxWindow,
         Process(t, measured, gyro, accel)
  PROVE  ObserverInv'
PROOF
<1> DEFINE used == Residuals(measured, mapped', initialized')
           new == Correction(t, used)
<1>1. /\ TypeOK /\ CorrectionsHaveFrames /\ BehindOnlyAfterStepBack
      /\ MapIsAligned /\ CorrectedOnce /\ MarginUnlessCapped
  BY DEF ObserverInv
<1>2. Prop!TypeOK' /\ (initialized => initialized')
  BY <1>1, PropagatePreserves DEF Process, TypeOK
<1>3. /\ frames \in Nat /\ frames + 1 <= MaxFrames
      /\ frames' = frames + 1
      /\ stamps' = Append(stamps, t)
      /\ prevFrameT' = t
      /\ mapped' = Mapped(measured, initialized')
      /\ corrections' = corrections \cup new
      /\ aligned' = IF initialized' /\ aligned = None THEN frames + 1 ELSE aligned
  BY <1>1, ObserverAssumption DEF Process, TypeOK
<1>4. /\ stamps' \in Seq(Stamp) /\ Len(stamps') = frames + 1
      /\ stamps'[frames + 1] = t
      /\ \A k \in 1 .. frames : stamps'[k] = stamps[k] /\ stamps[k] \in Stamp
  BY <1>1, <1>3, ElementOfSeq DEF TypeOK
<1>5. initialized \in BOOLEAN /\ initialized' \in BOOLEAN
  BY <1>1, <1>2 DEF TypeOK, Prop!TypeOK
<1>6. /\ DOMAIN mapped' = DOMAIN mapped \cup (IF initialized' THEN measured ELSE {})
      /\ \A id \in DOMAIN mapped' :
           mapped'[id] = IF id \in DOMAIN mapped THEN mapped[id] ELSE frames + 1
  BY <1>3 DEF Mapped
<1>7. used \in SUBSET Landmark /\ (used # {} => initialized')
  BY <1>5 DEF Residuals
<1> HIDE DEF used
<1>8. ASSUME NEW c \in new
      PROVE  /\ frames >= 1
             /\ c.frame = frames + 1
             /\ c.from = stamps[frames] /\ c.from \in Stamp
             /\ c.to = t
             /\ c.known = (used \cap DOMAIN mapped # {}) /\ c.known \in BOOLEAN
             /\ c.stiffness \in Nat
             /\ c.substeps = NumSubsteps(c.stiffness)
             /\ c = [frame |-> c.frame, from |-> c.from, to |-> c.to, known |-> c.known,
                     substeps |-> c.substeps, stiffness |-> c.stiffness]
  BY <1>1, <1>7, CorrectionRecords
<1> HIDE DEF new
<1>9. TypeOK'
  <2>1. \A id \in DOMAIN mapped' : id \in Landmark /\ mapped'[id] \in 1 .. frames'
    BY <1>1, <1>3, <1>6 DEF TypeOK
  <2>2. aligned' \in {None} \cup 1 .. frames'
    BY <1>1, <1>3 DEF TypeOK
  <2>3. \A c \in new : c \in Corrections'
    BY <1>3, <1>8, SubstepsWithinMargin DEF Corrections
  <2>4. \A c \in corrections : c \in Corrections'
    <3>1. 1 .. frames \subseteq 1 .. frames'
      BY <1>3
    <3> QED
      BY <1>1, <3>1 DEF TypeOK, Corrections
  <2> QED
    BY <1>1, <1>2, <1>3, <1>4, <2>1, <2>2, <2>3, <2>4 DEF TypeOK
<1>10. CorrectionsHaveFrames'
  <2>1. ASSUME NEW c \in corrections
        PROVE  /\ c.frame \in 2 .. frames'
               /\ c.from = stamps'[c.frame - 1]
               /\ c.to = stamps'[c.frame]
    <3>1. /\ c.frame \in 2 .. frames
          /\ c.from = stamps[c.frame - 1]
          /\ c.to = stamps[c.frame]
      BY <1>1 DEF CorrectionsHaveFrames
    <3>2. c.frame - 1 \in 1 .. frames /\ c.frame \in 1 .. frames
      BY <1>3, <3>1
    <3> QED
      BY <1>3, <1>4, <3>1, <3>2
  <2>2. ASSUME NEW c \in new
        PROVE  /\ c.frame \in 2 .. frames'
               /\ c.from = stamps'[c.frame - 1]
               /\ c.to = stamps'[c.frame]
    <3>1. frames \in 1 .. frames
      BY <1>3, <1>8
    <3> QED
      BY <1>3, <1>4, <1>8, <3>1
  <2> QED
    BY <1>3, <2>1, <2>2 DEF CorrectionsHaveFrames
<1>11. BehindOnlyAfterStepBack'
  <2> DEFINE Back(j, k) == \E i \in j + 1 .. k : stamps'[i] < stamps'[i - 1]
  <2> SUFFICES ASSUME NEW j \in 1 .. frames + 1, NEW k \in j .. frames + 1,
                      stamps'[k] < stamps'[j]
               PROVE  Back(j, k)
    BY <1>3 DEF BehindOnlyAfterStepBack, SteppedBack
  <2>1. stamps'[k] \in Nat /\ stamps'[j] \in Nat
    <3>1. \A n \in 1 .. frames + 1 : stamps'[n] \in Stamp
      BY <1>3, <1>4
    <3>2. k \in 1 .. frames + 1
      BY <1>3
    <3> QED
      BY <3>1, <3>2, ObserverAssumption
  <2>2. j # k
    BY <2>1
  <2>3. j \in 1 .. frames
    BY <1>3, <2>2
  <2>4. ASSUME NEW n \in j .. frames, stamps'[n] < stamps'[j]
        PROVE  Back(j, n)
    <3>1. n \in 1 .. frames
      BY <1>3, <2>3
    <3>2. stamps[n] < stamps[j]
      BY <1>4, <2>3, <2>4, <3>1
    <3>3. PICK i \in j + 1 .. n : stamps[i] < stamps[i - 1]
      BY <1>1, <2>3, <3>2 DEF BehindOnlyAfterStepBack, SteppedBack
    <3>4. i \in 1 .. frames /\ i - 1 \in 1 .. frames
      BY <1>3, <2>3, <3>3
    <3> QED
      BY <1>4, <3>3, <3>4
  <2>5. CASE k # frames + 1
    <3>1. k \in j .. frames
      BY <1>3, <2>3, <2>5
    <3> QED
      BY <2>4, <3>1
  <2>6. CASE k = frames + 1
    <3>1. frames \in j .. frames /\ frames \in 1 .. frames
      BY <1>3, <2>3
    <3>2. CASE stamps'[frames] < stamps'[j]
      <4>1. PICK i \in j + 1 .. frames : stamps'[i] < stamps'[i - 1]
        BY <2>4, <3>1, <3>2
      <4>2. i \in j + 1 .. k
        BY <1>3, <2>3, <2>6, <4>1
      <4> QED
        BY <4>1, <4>2
    <3>3. CASE ~(stamps'[frames] < stamps'[j])
      <4>1. stamps'[frames] \in Nat
        BY <1>4, <3>1, ObserverAssumption
      <4>2. stamps'[k] < stamps'[k - 1]
        <5>1. k - 1 = frames
          BY <1>3, <2>6
        <5>2. stamps'[k] < stamps'[frames]
          BY <2>1, <3>3, <4>1
        <5> QED
          BY <5>1, <5>2
      <4>3. k \in j + 1 .. k
        BY <1>3, <2>3, <2>6
      <4> QED
        BY <4>2, <4>3
    <3> QED
      BY <3>2, <3>3
  <2> QED
    BY <2>5, <2>6
<1>12. MapIsAligned'
  <2>1. aligned' = None <=> ~initialized'
    BY <1>1, <1>2, <1>3, <1>5, ObserverAssumption DEF MapIsAligned
  <2>2. aligned # None => aligned' = aligned /\ aligned \in 1 .. frames
    BY <1>1, <1>3 DEF TypeOK
  <2>3. ASSUME NEW id \in DOMAIN mapped' PROVE aligned' # None /\ aligned' <= mapped'[id]
    <3>1. CASE id \in DOMAIN mapped
      BY <1>1, <1>6, <2>2, <3>1 DEF MapIsAligned
    <3>2. CASE id \notin DOMAIN mapped
      <4>1. initialized' /\ mapped'[id] = frames + 1
        BY <1>5, <1>6, <3>2
      <4>2. aligned' # None
        BY <2>1, <4>1
      <4>3. CASE aligned # None
        <5>1. aligned' = aligned /\ aligned \in 1 .. frames
          BY <2>2, <4>3
        <5>2. mapped'[id] = frames + 1 /\ frames \in Nat
          BY <1>3, <4>1
        <5> HIDE <4>1
        <5>3. aligned' <= mapped'[id]
          BY <5>1, <5>2
        <5> QED
          BY <4>2, <5>3
      <4>4. CASE aligned = None
        <5>1. aligned' = frames + 1 /\ frames + 1 \in Nat
          BY <1>3, <4>1, <4>4
        <5> QED
          BY <4>1, <4>2, <5>1
      <4> QED
        BY <4>3, <4>4
    <3> QED
      BY <3>1, <3>2
  <2>4. ASSUME NEW c \in corrections, c.known PROVE aligned' # None /\ aligned' < c.frame
    BY <1>1, <2>2, <2>4 DEF MapIsAligned
  <2>5. ASSUME NEW c \in new, c.known PROVE aligned' # None /\ aligned' < c.frame
    <3>1. PICK id \in DOMAIN mapped : TRUE
      BY <1>8, <2>5
    <3>2. aligned # None /\ aligned <= mapped[id] /\ mapped[id] \in 1 .. frames
      BY <1>1 DEF MapIsAligned, TypeOK
    <3> QED
      BY <1>3, <1>8, <2>2, <3>2
  <2> QED
    BY <1>3, <2>1, <2>3, <2>4, <2>5 DEF MapIsAligned
<1>13. CorrectedOnce'
  <2> SUFFICES ASSUME NEW c \in corrections', NEW d \in corrections',
                      c.frame < d.frame, d.from < c.to
               PROVE  \E i \in c.frame + 1 .. d.frame : stamps'[i] < stamps'[i - 1]
    BY DEF CorrectedOnce, SteppedBack
  <2>1. /\ c.frame \in 2 .. frames' /\ c.to = stamps'[c.frame]
        /\ d.frame \in 2 .. frames' /\ d.from = stamps'[d.frame - 1]
    BY <1>10 DEF CorrectionsHaveFrames
  <2>2. c.frame \in 1 .. frames' /\ d.frame - 1 \in c.frame .. frames'
    BY <1>3, <2>1
  <2>3. PICK i \in c.frame + 1 .. d.frame - 1 : stamps'[i] < stamps'[i - 1]
    BY <1>11, <2>1, <2>2 DEF BehindOnlyAfterStepBack, SteppedBack
  <2>4. i \in c.frame + 1 .. d.frame
    BY <1>3, <2>1, <2>3
  <2> QED
    BY <2>3, <2>4
<1>14. MarginUnlessCapped'
  <2>1. \A c \in new :
          /\ WithinMargin(c.stiffness, c.substeps) \/ c.substeps = MaxSubsteps
          /\ c.substeps > 1 => ~WithinMargin(c.stiffness, c.substeps - 1)
    BY <1>8, SubstepsWithinMargin
  <2> QED
    BY <1>1, <1>3, <2>1 DEF MarginUnlessCapped
<1> QED
  BY <1>9, <1>10, <1>11, <1>12, <1>13, <1>14 DEF ObserverInv

(* The inductive invariant holds.                                          *)
THEOREM ObserverInductive == Spec => []ObserverInv
PROOF
<1>1. Init => ObserverInv
  BY InitEstablishes
<1>2. ObserverInv /\ [Next]_vars => ObserverInv'
  <2> SUFFICES ASSUME ObserverInv, [Next]_vars PROVE ObserverInv'
    OBVIOUS
  <2>1. CASE Next
    BY <2>1, ProcessPreserves DEF Next
  <2>2. CASE UNCHANGED vars
    BY <2>2 DEF vars, ObserverInv, TypeOK, Prop!TypeOK, Corrections,
       CorrectionsHaveFrames, BehindOnlyAfterStepBack, SteppedBack, MapIsAligned,
       CorrectedOnce, MarginUnlessCapped
  <2> QED
    BY <2>1, <2>2
<1> QED
  BY <1>1, <1>2, PTL DEF Spec

(* Every variable of the observer has its type.                            *)
THEOREM TypeCorrect == Spec => []TypeOK
PROOF
<1>1. ObserverInv => TypeOK
  BY DEF ObserverInv
<1> QED
  BY <1>1, ObserverInductive, PTL

(* No interval is corrected over twice unless the image stamps went back.  *)
THEOREM OnceUnlessSteppedBack == Spec => []CorrectedOnce
PROOF
<1>1. ObserverInv => CorrectedOnce
  BY DEF ObserverInv
<1> QED
  BY <1>1, ObserverInductive, PTL

(* Known landmarks are corrected over time before the image that aligned   *)
(* the pose only if the image stamps went back after it.                   *)
THEOREM OnlyAlignedTime == Spec => []CorrectsAlignedTime
PROOF
<1>1. ObserverInv => CorrectsAlignedTime
  <2> SUFFICES ASSUME ObserverInv, NEW c \in corrections, c.known
               PROVE  /\ aligned # None
                      /\ c.from < stamps[aligned] => SteppedBack(aligned, c.frame - 1)
    BY DEF CorrectsAlignedTime
  <2>1. aligned # None /\ aligned < c.frame
    BY DEF ObserverInv, MapIsAligned
  <2>2. c.from = stamps[c.frame - 1] /\ c.frame \in 2 .. frames /\ frames \in Nat
    BY ObserverAssumption DEF ObserverInv, CorrectionsHaveFrames, TypeOK
  <2>3. aligned \in 1 .. frames
    BY <2>1 DEF ObserverInv, TypeOK
  <2>4. c.frame - 1 \in aligned .. frames
    BY <2>1, <2>2, <2>3
  <2> QED
    BY <2>1, <2>2, <2>3, <2>4 DEF ObserverInv, BehindOnlyAfterStepBack
<1> QED
  BY <1>1, ObserverInductive, PTL

(* Every correction is as fine as its margin asks unless it is capped.     *)
THEOREM WithinMarginUnlessCapped == Spec => []MarginUnlessCapped
PROOF
<1>1. ObserverInv => MarginUnlessCapped
  BY DEF ObserverInv
<1> QED
  BY <1>1, ObserverInductive, PTL

-----------------------------------------------------------------------------
(* The observer drives its propagator as Propagator allows.                *)

Warmed == INSTANCE PropagatorProofs

(* Every frame is a step of the propagator, of a window within its bounds. *)
THEOREM ObserverRunsPropagator == Spec => Prop!Spec
PROOF
<1>1. Init => Prop!Init
  BY DEF Init
<1>2. [Next]_vars => [Prop!Next]_(Prop!vars)
  BY DEF Next, Process, vars, Prop!Next, Prop!vars
<1>3. QED
  BY <1>1, <1>2, PTL DEF Spec, Prop!Spec

(* So what the propagator guarantees by itself holds in the observer: no   *)
(* frame's window is integrated before the estimate is complete.           *)
THEOREM ObserverIntegratesOnlyEstimated == Spec => []Prop!IntegratesOnlyEstimated
PROOF
<1>1. Warmed!PropagatorAssumption
  BY ObserverAssumption DEF Warmed!PropagatorAssumption
<1>2. Warmed!Spec => []Warmed!IntegratesOnlyEstimated
  BY <1>1, Warmed!EstimateComesFirst
<1>3. Init => Warmed!Init
  BY DEF Init, Prop!Init, Warmed!Init
<1>4. [Next]_vars => [Warmed!Next]_(Warmed!vars)
  BY DEF Next, Process, vars, Warmed!Next, Warmed!vars,
     Prop!Propagate, Prop!NoAccel, Prop!Collect, Prop!Integrate, Prop!UpToWarmup,
     Warmed!Propagate, Warmed!NoAccel, Warmed!Collect, Warmed!Integrate, Warmed!UpToWarmup
<1>5. Warmed!IntegratesOnlyEstimated => Prop!IntegratesOnlyEstimated
  BY DEF Warmed!IntegratesOnlyEstimated, Prop!IntegratesOnlyEstimated
<1>6. QED
  BY <1>2, <1>3, <1>4, <1>5, PTL DEF Spec, Warmed!Spec
=============================================================================
