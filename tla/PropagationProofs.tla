--------------------------- MODULE PropagationProofs ---------------------------
(***************************************************************************)
(* Theorems about the propagation of the state over the IMU windows, for   *)
(* windows of any length, any spread of the two sensors' stamps and images *)
(* whose stamps may step back: the events of a window are causal, every    *)
(* instant is integrated once at most and with the samples in force.       *)
(***************************************************************************)
EXTENDS Propagation, FiniteSetTheorems, SequenceTheorems, TLAPS

-----------------------------------------------------------------------------
(* The inductive invariant.                                                *)

Event == [stamp : Nat, gyro : Nat, accel : Nat]
Heard == [stamp : Nat, frame : Nat, after : Nat]
Step  == [at : Nat, gyro : Nat, accel : Nat, frame : Nat]

PropagationTypes ==
  /\ image \in 0 .. Horizon
  /\ frame \in Nat
  /\ merging \in BOOLEAN
  /\ gyro \in Seq(Nat) /\ gyro_idx \in 0 .. Len(gyro)
  /\ accel \in Seq(Nat) /\ accel_idx \in 0 .. Len(accel)
  /\ events \in Seq(Event)
  /\ integrated \subseteq Step
  /\ heard \in [gyro : SUBSET Heard, accel : SUBSET Heard]

(* A window is sorted, ends with the image at the latest and has been      *)
(* heard; what was ever heard of its sensor is in the window or no newer   *)
(* than all of it; and the loop holds the last sample it has taken.        *)
WindowInv(samples, taken, held, everHeard) ==
  /\ \A i, j \in DOMAIN samples : i <= j => samples[i] <= samples[j]
  /\ \A i \in DOMAIN samples : samples[i] <= image
  /\ \A i \in DOMAIN samples : \E s \in everHeard : s.stamp = samples[i]
  /\ \A s \in everHeard :
       \/ s.stamp \in RangeOf(samples)
       \/ \A i \in DOMAIN samples : s.stamp <= samples[i]
  /\ held = IF taken = 0 THEN None ELSE samples[taken]

(* The sample value of a sensor is the one in force from the k-th event to *)
(* the next: what the sensor sent is no newer, or comes no earlier than    *)
(* the next event, or has not been taken yet.                              *)
InForce(samples, taken, k, value) ==
  /\ value \in RangeOf(samples)
  /\ value <= events[k].stamp
  /\ \A i \in DOMAIN samples :
       \/ samples[i] <= value
       \/ k < Len(events) /\ samples[i] >= events[k + 1].stamp
       \/ k = Len(events) /\ i > taken

(* Nothing that is left to take is older than an event.                    *)
Remaining(samples, taken, k) ==
  \A i \in DOMAIN samples : i > taken => events[k].stamp <= samples[i]

(* Anywhere in the loop what was taken is older than what is left, and     *)
(* the list of events is in order and up to date.                          *)
EventsInv ==
  /\ events # << >> =>
       /\ gyro_idx > 0 /\ accel_idx > 0
       /\ events[Len(events)].gyro = latest_gyro
       /\ events[Len(events)].accel = latest_accel
  /\ \A i \in DOMAIN gyro, j \in DOMAIN accel :
       /\ i <= gyro_idx /\ j > accel_idx => gyro[i] <= accel[j]
       /\ i > gyro_idx /\ j <= accel_idx => accel[j] <= gyro[i]
  /\ \A j, k \in DOMAIN events : j <= k => events[j].stamp <= events[k].stamp
  /\ \A k \in DOMAIN events :
       /\ events[k].stamp \in RangeOf(gyro) \cup RangeOf(accel)
       /\ InForce(gyro, gyro_idx, k, events[k].gyro)
       /\ InForce(accel, accel_idx, k, events[k].accel)
       /\ Remaining(gyro, gyro_idx, k)
       /\ Remaining(accel, accel_idx, k)

(* The time up to everything in the window has not been integrated.        *)
Ahead(p, samples) == \A i \in DOMAIN samples : p.at < samples[i]

(* What is integrated ends before a sample of one of the two sensors, and  *)
(* before all that sensor has in the window being merged.                  *)
PastInv ==
  /\ \A p \in integrated :
       /\ p.frame <= frame
       /\ \/ \E s \in heard.gyro : p.at < s.stamp
          \/ \E s \in heard.accel : p.at < s.stamp
  /\ merging => \A p \in integrated : Ahead(p, gyro) \/ Ahead(p, accel)
  /\ IntegratedOnce
  /\ HeldSamplesAreLatest

PropagationInv ==
  /\ PropagationTypes
  /\ WindowInv(gyro, gyro_idx, latest_gyro, heard.gyro)
  /\ WindowInv(accel, accel_idx, latest_accel, heard.accel)
  /\ EventsInv
  /\ PastInv

(* The samples taken so far that have an event; among the accelerometer's, *)
(* those before a gyroscope sample that is left are strictly before it.    *)
GyrosTaken == {i \in 1 .. gyro_idx : Complete(AtGyro(i))}
AccelsTaken == {j \in 1 .. accel_idx : Complete(AtAccel(j))}

(* At every turn of the loop the list is that of the samples taken so far. *)
MergeInv ==
  /\ \A i \in DOMAIN gyro, j \in DOMAIN accel :
       i > gyro_idx /\ j <= accel_idx => accel[j] < gyro[i]
  /\ RangeOf(events) = {AtGyro(i) : i \in GyrosTaken} \cup {AtAccel(j) : j \in AccelsTaken}
  /\ Len(events) = Cardinality(GyrosTaken) + Cardinality(AccelsTaken)

-----------------------------------------------------------------------------
(* Windows and lists.                                                      *)

(* What IMUBuffer hands over: sorted, after the image before, up to this   *)
(* one, and none before what it has handed over of the sensor.             *)
LEMMA WindowFacts ==
  ASSUME NEW lo \in Nat, NEW hi \in Nat, NEW handed, NEW w \in Window(lo, hi, handed)
  PROVE  /\ w \in Seq(Nat)
         /\ \A i \in DOMAIN w : lo < w[i] /\ w[i] <= hi
         /\ \A i, j \in DOMAIN w : i <= j => w[i] <= w[j]
         /\ \A s \in handed : \A i \in DOMAIN w : s.stamp <= w[i]
<1>1. PICK k \in 0 .. MaxSamples : w \in [1 .. k -> lo + 1 .. hi]
  BY DEF Window
<1>2. k \in Nat
  BY PropagationAssumption
<1>3. w \in [1 .. k -> Nat]
  BY <1>1
<1>4. w \in Seq(Nat)
  BY <1>2, <1>3, SeqDef
<1>5. \A i \in DOMAIN w : lo < w[i] /\ w[i] <= hi
  BY <1>1
<1>6. QED
  BY <1>4, <1>5 DEF Window

(* Appending keeps what was there.                                         *)
LEMMA AppendEventFacts ==
  ASSUME NEW s \in Seq(Event), NEW e \in Event
  PROVE  /\ Append(s, e) \in Seq(Event)
         /\ Len(Append(s, e)) = Len(s) + 1
         /\ DOMAIN Append(s, e) = 1 .. Len(s) + 1
         /\ Append(s, e)[Len(s) + 1] = e
         /\ \A i \in 1 .. Len(s) : Append(s, e)[i] = s[i]
OBVIOUS

-----------------------------------------------------------------------------
(* Taking a sample: whichever sensor it is of, it is no newer than what is *)
(* left of either, and what is held is no newer than it.                   *)
LEMMA TakePreserves ==
  ASSUME PropagationInv, NEW stamp \in Nat,
         UNCHANGED <<image, frame, merging, gyro, accel, integrated, heard>>,
         gyro_idx' \in 0 .. Len(gyro), gyro_idx' >= gyro_idx,
         accel_idx' \in 0 .. Len(accel), accel_idx' >= accel_idx,
         latest_gyro' = IF gyro_idx' = 0 THEN None ELSE gyro[gyro_idx'],
         latest_accel' = IF accel_idx' = 0 THEN None ELSE accel[accel_idx'],
         AppendEvent(stamp, latest_gyro', latest_accel'),
         \/ \E i \in DOMAIN gyro : i > gyro_idx /\ gyro[i] = stamp
         \/ \E j \in DOMAIN accel : j > accel_idx /\ accel[j] = stamp,
         \A i \in DOMAIN gyro : /\ i > gyro_idx => stamp <= gyro[i]
                                /\ i <= gyro_idx' => gyro[i] <= stamp,
         \A j \in DOMAIN accel : /\ j > accel_idx => stamp <= accel[j]
                                 /\ j <= accel_idx' => accel[j] <= stamp
  PROVE  PropagationInv'
<1> DEFINE n == Len(events)
           e == [stamp |-> stamp,
                 gyro |-> latest_gyro', accel |-> latest_accel']
<1>1. /\ PropagationTypes /\ EventsInv /\ PastInv
      /\ WindowInv(gyro, gyro_idx, latest_gyro, heard.gyro)
      /\ WindowInv(accel, accel_idx, latest_accel, heard.accel)
  BY DEF PropagationInv
<1>2. /\ gyro \in Seq(Nat) /\ Len(gyro) \in Nat /\ DOMAIN gyro = 1 .. Len(gyro)
      /\ accel \in Seq(Nat) /\ Len(accel) \in Nat
      /\ DOMAIN accel = 1 .. Len(accel)
      /\ \A i \in DOMAIN gyro : gyro[i] \in Nat
      /\ \A i \in DOMAIN accel : accel[i] \in Nat
      /\ gyro_idx \in Nat /\ accel_idx \in Nat
      /\ gyro_idx' \in Nat /\ gyro_idx' >= gyro_idx
      /\ accel_idx' \in Nat /\ accel_idx' >= accel_idx
      /\ events \in Seq(Event) /\ n \in Nat /\ DOMAIN events = 1 .. n
  BY <1>1, SMTT(30) DEF PropagationTypes
<1>3. /\ gyro_idx' > 0 =>
           gyro_idx' \in DOMAIN gyro /\ latest_gyro' = gyro[gyro_idx']
      /\ accel_idx' > 0 =>
           accel_idx' \in DOMAIN accel /\ latest_accel' = accel[accel_idx']
      /\ latest_gyro' # None <=> gyro_idx' > 0
      /\ latest_accel' # None <=> accel_idx' > 0
  BY <1>2, PropagationAssumption
<1>4. /\ WindowInv(gyro, gyro_idx, latest_gyro, heard.gyro)'
      /\ WindowInv(accel, accel_idx, latest_accel, heard.accel)'
  BY <1>1 DEF WindowInv, RangeOf
<1>5. PastInv'
  BY <1>1 DEF PastInv, Ahead, IntegratedOnce, HeldSamplesAreLatest, LateAfterStepBack
<1>6. ASSUME NEW i \in DOMAIN gyro, NEW j \in DOMAIN accel
      PROVE  /\ i <= gyro_idx' /\ j > accel_idx' => gyro[i] <= accel[j]
             /\ i > gyro_idx' /\ j <= accel_idx' => accel[j] <= gyro[i]
  <2>1. /\ i \in Nat /\ gyro[i] \in Nat /\ j \in Nat /\ accel[j] \in Nat
        /\ i > gyro_idx' => i > gyro_idx
        /\ j > accel_idx' => j > accel_idx
    <3>1. i \in Nat /\ gyro[i] \in Nat /\ j \in Nat /\ accel[j] \in Nat
      BY <1>2, SMTT(30)
    <3>2. QED
      BY ONLY <1>2, <3>1, SMTT(30)
  <2>2. /\ i > gyro_idx => stamp <= gyro[i]
        /\ i <= gyro_idx' => gyro[i] <= stamp
        /\ j > accel_idx => stamp <= accel[j]
        /\ j <= accel_idx' => accel[j] <= stamp
    OBVIOUS
  <2>3. QED
    BY ONLY <2>1, <2>2, stamp \in Nat
<1>7. n = Len(events)
  OBVIOUS
<1>8. CASE latest_gyro' # None /\ latest_accel' # None
  <2>1. e \in Event
    BY <1>2, <1>3, <1>8 DEF Event
  <2>2. events' = Append(events, e)
    BY <1>8 DEF AppendEvent
  <2>3. /\ events' \in Seq(Event) /\ Len(events') = n + 1
        /\ DOMAIN events' = 1 .. n + 1
        /\ events'[n + 1] = e
        /\ \A k \in 1 .. n : events'[k] = events[k]
    BY <1>2, <2>1, <2>2, AppendEventFacts
  <2>4. e.stamp = stamp /\ e.gyro = latest_gyro' /\ e.accel = latest_accel'
    OBVIOUS
  <2>5. \A k \in 1 .. n : /\ events[k].stamp \in Nat /\ events[k].gyro \in Nat
                          /\ events[k].accel \in Nat
    <3>1. \A k \in 1 .. n : events[k] \in Event
      BY <1>2
    <3>2. QED
      BY <3>1 DEF Event
  <2> HIDE DEF n, e
  <2>6. \A k \in 1 .. n + 1 : k \in 1 .. n \/ k = n + 1
    BY <1>2
  <2>7. \A k \in 1 .. n : events[k].stamp <= stamp
    <3>1. \A k \in 1 .. n : /\ Remaining(gyro, gyro_idx, k)
                            /\ Remaining(accel, accel_idx, k)
      BY <1>1, <1>2, <1>7 DEF EventsInv
    <3>2. QED
      BY <3>1 DEF Remaining
  <2>8. \A j, k \in 1 .. n + 1 : j <= k => events'[j].stamp <= events'[k].stamp
    <3>1. \A j, k \in 1 .. n : j <= k => events[j].stamp <= events[k].stamp
      BY <1>1, <1>2, <1>7 DEF EventsInv
    <3>2. \A k \in 1 .. n : ~(n + 1 <= k)
      BY <1>2, <1>7
    <3>3. QED
      BY ONLY <2>3, <2>4, <2>6, <2>7, <3>1, <3>2, stamp \in Nat
  <2>9. ASSUME NEW k \in 1 .. n + 1
        PROVE  /\ events'[k].stamp \in RangeOf(gyro) \cup RangeOf(accel)
               /\ InForce(gyro, gyro_idx, k, events[k].gyro)'
               /\ InForce(accel, accel_idx, k, events[k].accel)'
               /\ Remaining(gyro, gyro_idx, k)'
               /\ Remaining(accel, accel_idx, k)'
    <3>1. CASE k \in 1 .. n
      <4>1. /\ events[k].stamp \in RangeOf(gyro) \cup RangeOf(accel)
            /\ InForce(gyro, gyro_idx, k, events[k].gyro)
            /\ InForce(accel, accel_idx, k, events[k].accel)
            /\ Remaining(gyro, gyro_idx, k)
            /\ Remaining(accel, accel_idx, k)
            /\ events'[k] = events[k] /\ k \in Nat
        <5>1. k \in DOMAIN events /\ events'[k] = events[k] /\ k \in Nat
          BY <1>2, <1>7, <2>3, <3>1
        <5>2. QED
          BY <1>1, <5>1 DEF EventsInv
      <4>2. /\ k \in Nat /\ n \in Nat /\ k <= n
            /\ k # n => k + 1 \in 1 .. n /\ k < n
        <5>1. k \in Nat /\ n \in Nat /\ 1 <= k /\ k <= n
          BY <1>2, <1>7, <3>1
        <5>2. QED
          BY ONLY <5>1
      <4>3. k < Len(events') /\ k # Len(events')
        BY <1>2, <1>7, <2>3, <3>1, SMTT(30)
      <4>4. events'[k + 1].stamp = IF k = n THEN stamp ELSE events[k + 1].stamp
        BY <2>3, <2>4, <4>2
      <4>5. /\ InForce(gyro, gyro_idx, k, events[k].gyro)'
            /\ InForce(accel, accel_idx, k, events[k].accel)'
        <5>1. ASSUME NEW i \in DOMAIN gyro
              PROVE  \/ gyro[i] <= events[k].gyro
                     \/ gyro[i] >= events'[k + 1].stamp
          <6>1. \/ gyro[i] <= events[k].gyro
                \/ k < n /\ gyro[i] >= events[k + 1].stamp
                \/ k = n /\ i > gyro_idx
            BY <1>7, <4>1 DEF InForce
          <6>2. i > gyro_idx => stamp <= gyro[i]
            OBVIOUS
          <6>3. gyro[i] \in Nat
            BY <1>2
          <6>4. QED
            BY ONLY <4>2, <4>4, <6>1, <6>2, <6>3, stamp \in Nat
        <5>2. ASSUME NEW i \in DOMAIN accel
              PROVE  \/ accel[i] <= events[k].accel
                     \/ accel[i] >= events'[k + 1].stamp
          <6>1. \/ accel[i] <= events[k].accel
                \/ k < n /\ accel[i] >= events[k + 1].stamp
                \/ k = n /\ i > accel_idx
            BY <1>7, <4>1 DEF InForce
          <6>2. i > accel_idx => stamp <= accel[i]
            OBVIOUS
          <6>3. accel[i] \in Nat
            BY <1>2
          <6>4. QED
            BY ONLY <4>2, <4>4, <6>1, <6>2, <6>3, stamp \in Nat
        <5>3. QED
          BY <4>1, <4>3, <5>1, <5>2 DEF InForce, RangeOf
      <4>6. Remaining(gyro, gyro_idx, k)' /\ Remaining(accel, accel_idx, k)'
        BY <1>2, <4>1, SMTT(30) DEF Remaining
      <4>7. QED
        BY <4>1, <4>5, <4>6
    <3>2. CASE k = n + 1
      <4>1. /\ events'[k] = e /\ k = Len(events') /\ ~(k < Len(events'))
        BY <1>2, <1>7, <2>3, <3>2
      <4>2. stamp \in RangeOf(gyro) \cup RangeOf(accel)
        BY DEF RangeOf
      <4>3. /\ latest_gyro' \in RangeOf(gyro) /\ latest_gyro' <= stamp
            /\ latest_accel' \in RangeOf(accel) /\ latest_accel' <= stamp
        <5>1. /\ gyro_idx' \in DOMAIN gyro /\ latest_gyro' = gyro[gyro_idx']
              /\ accel_idx' \in DOMAIN accel /\ latest_accel' = accel[accel_idx']
              /\ gyro_idx' <= gyro_idx' /\ accel_idx' <= accel_idx'
          BY <1>2, <1>3, <1>8
        <5>2. gyro[gyro_idx'] <= stamp /\ accel[accel_idx'] <= stamp
          BY <5>1
        <5>3. QED
          BY <5>1, <5>2 DEF RangeOf
      <4>4. ASSUME NEW i \in DOMAIN gyro
            PROVE  gyro[i] <= latest_gyro' \/ i > gyro_idx'
        <5>1. gyro_idx' \in DOMAIN gyro /\ latest_gyro' = gyro[gyro_idx']
          BY <1>3, <1>8
        <5>2. i <= gyro_idx' \/ i > gyro_idx'
          BY <1>2
        <5>3. i <= gyro_idx' => gyro[i] <= gyro[gyro_idx']
          BY <1>1, <5>1 DEF WindowInv
        <5>4. QED
          BY ONLY <5>1, <5>2, <5>3
      <4>5. ASSUME NEW i \in DOMAIN accel
            PROVE  accel[i] <= latest_accel' \/ i > accel_idx'
        <5>1. accel_idx' \in DOMAIN accel /\ latest_accel' = accel[accel_idx']
          BY <1>3, <1>8
        <5>2. i <= accel_idx' \/ i > accel_idx'
          BY <1>2
        <5>3. i <= accel_idx' => accel[i] <= accel[accel_idx']
          BY <1>1, <5>1 DEF WindowInv
        <5>4. QED
          BY ONLY <5>1, <5>2, <5>3
      <4>6. /\ InForce(gyro, gyro_idx, k, events[k].gyro)'
            /\ InForce(accel, accel_idx, k, events[k].accel)'
        BY <2>4, <4>1, <4>3, <4>4, <4>5 DEF InForce, RangeOf
      <4>7. Remaining(gyro, gyro_idx, k)' /\ Remaining(accel, accel_idx, k)'
        <5>1. ASSUME NEW i \in DOMAIN gyro, i > gyro_idx'
              PROVE  stamp <= gyro[i]
          <6>1. i \in Nat
            BY <1>2
          <6>2. i > gyro_idx
            BY ONLY <1>2, <5>1, <6>1
          <6>3. QED
            BY <6>2
        <5>2. ASSUME NEW i \in DOMAIN accel, i > accel_idx'
              PROVE  stamp <= accel[i]
          <6>1. i \in Nat
            BY <1>2
          <6>2. i > accel_idx
            BY ONLY <1>2, <5>2, <6>1
          <6>3. QED
            BY <6>2
        <5>3. QED
          BY <2>4, <4>1, <5>1, <5>2 DEF Remaining
      <4>8. QED
        BY <2>4, <4>1, <4>2, <4>6, <4>7
    <3>3. QED
      BY <2>6, <3>1, <3>2
  <2>10. EventsInv'
    <3>1. events' # << >> /\ gyro_idx' > 0 /\ accel_idx' > 0
      BY <1>2, <1>3, <1>8, <1>7, <2>3
    <3>2. RangeOf(gyro)' = RangeOf(gyro) /\ RangeOf(accel)' = RangeOf(accel)
      BY DEF RangeOf
    <3>3. QED
      BY <1>6, <2>3, <2>4, <2>8, <2>9, <3>1, <3>2 DEF EventsInv
  <2>11. PropagationTypes'
    BY <1>1, <2>3 DEF PropagationTypes
  <2>12. QED
    BY <1>4, <1>5, <2>10, <2>11 DEF PropagationInv
<1>9. CASE ~(latest_gyro' # None /\ latest_accel' # None)
  <2>1. events' = events
    BY <1>9 DEF AppendEvent
  <2>2. events = << >>
    BY <1>1, <1>2, <1>3, <1>9 DEF EventsInv
  <2>3. EventsInv'
    BY <1>2, <1>6, <2>1, <2>2 DEF EventsInv
  <2>4. PropagationTypes'
    BY <1>1, <1>2, <2>1 DEF PropagationTypes
  <2>5. QED
    BY <1>4, <1>5, <2>3, <2>4 DEF PropagationInv
<1>10. QED
  BY <1>8, <1>9

(* What both sensors' positions say of a step of the loop.                 *)
LEMMA LoopFacts ==
  ASSUME PropagationInv
  PROVE  /\ gyro \in Seq(Nat) /\ Len(gyro) \in Nat
         /\ DOMAIN gyro = 1 .. Len(gyro)
         /\ accel \in Seq(Nat) /\ Len(accel) \in Nat
         /\ DOMAIN accel = 1 .. Len(accel)
         /\ gyro_idx \in Nat /\ gyro_idx <= Len(gyro)
         /\ accel_idx \in Nat /\ accel_idx <= Len(accel)
         /\ \A i \in DOMAIN gyro : gyro[i] \in Nat /\ gyro[i] < Infinity
         /\ \A j \in DOMAIN accel : accel[j] \in Nat /\ accel[j] < Infinity
         /\ \A i, k \in DOMAIN gyro : i <= k => gyro[i] <= gyro[k]
         /\ \A j, k \in DOMAIN accel : j <= k => accel[j] <= accel[k]
         /\ \A i \in DOMAIN gyro, j \in DOMAIN accel :
              /\ i <= gyro_idx /\ j > accel_idx => gyro[i] <= accel[j]
              /\ i > gyro_idx /\ j <= accel_idx => accel[j] <= gyro[i]
         /\ latest_gyro = IF gyro_idx = 0 THEN None ELSE gyro[gyro_idx]
         /\ latest_accel = IF accel_idx = 0 THEN None ELSE accel[accel_idx]
         /\ Infinity \in Nat
<1>1. /\ gyro \in Seq(Nat) /\ gyro_idx \in 0 .. Len(gyro)
      /\ accel \in Seq(Nat) /\ accel_idx \in 0 .. Len(accel)
      /\ image \in Nat /\ image <= Horizon /\ Horizon \in Nat
  BY PropagationAssumption DEF PropagationInv, PropagationTypes
<1>2. /\ \A i \in DOMAIN gyro : gyro[i] \in Nat /\ gyro[i] <= image
      /\ \A j \in DOMAIN accel : accel[j] \in Nat /\ accel[j] <= image
  BY <1>1 DEF PropagationInv, WindowInv
<1>3. /\ \A i \in DOMAIN gyro : gyro[i] < Infinity
      /\ \A j \in DOMAIN accel : accel[j] < Infinity
      /\ Infinity \in Nat
  BY <1>1, <1>2 DEF Infinity
<1>4. QED
  BY <1>1, <1>2, <1>3 DEF PropagationInv, WindowInv, EventsInv

LEMMA TakeGyroPreserves ==
  ASSUME PropagationInv, TakeGyro
  PROVE  PropagationInv'
<1> DEFINE g == gyro_idx + 1
<1>1. /\ ~Finished /\ NextGyro <= NextAccel
      /\ gyro_idx' = gyro_idx + 1 /\ latest_gyro' = NextGyro
      /\ AppendEvent(NextGyro, NextGyro, latest_accel)
      /\ UNCHANGED <<image, frame, merging, gyro, accel, integrated, heard>>
      /\ accel_idx' = accel_idx /\ latest_accel' = latest_accel
  BY DEF TakeGyro
<1>2. gyro_idx < Len(gyro)
  BY <1>1, LoopFacts, SMTT(30) DEF Finished, NextGyro, NextAccel
<1>3. NextGyro = gyro[g] /\ g \in DOMAIN gyro /\ gyro[g] \in Nat /\ g > gyro_idx
  BY <1>2, LoopFacts DEF NextGyro
<1>4. ASSUME NEW i \in DOMAIN gyro
      PROVE  /\ i > gyro_idx => NextGyro <= gyro[i]
             /\ i <= gyro_idx' => gyro[i] <= NextGyro
  <2>1. /\ i > gyro_idx => g <= i
        /\ i <= gyro_idx' => i <= g
    BY <1>1, LoopFacts
  <2>2. QED
    BY <1>3, <2>1, LoopFacts
<1>5. ASSUME NEW j \in DOMAIN accel
      PROVE  /\ j > accel_idx => NextGyro <= accel[j]
             /\ j <= accel_idx' => accel[j] <= NextGyro
  <2>1. ASSUME j > accel_idx PROVE NextGyro <= accel[j]
    <3>1. /\ accel_idx < Len(accel) /\ accel_idx + 1 \in DOMAIN accel
          /\ accel_idx + 1 <= j
      BY <2>1, LoopFacts, SMTT(30)
    <3>2. NextAccel = accel[accel_idx + 1] /\ accel[accel_idx + 1] <= accel[j]
      BY <3>1, LoopFacts DEF NextAccel
    <3>3. accel[accel_idx + 1] \in Nat /\ accel[j] \in Nat
      BY <3>1, LoopFacts
    <3>4. QED
      BY ONLY <1>1, <1>3, <3>2, <3>3
  <2>2. j <= accel_idx' => accel[j] <= NextGyro
    BY <1>1, <1>3, LoopFacts
  <2>3. QED
    BY <2>1, <2>2
<1>6. /\ latest_gyro' = IF gyro_idx' = 0 THEN None ELSE gyro[gyro_idx']
      /\ latest_accel' = IF accel_idx' = 0 THEN None ELSE accel[accel_idx']
      /\ gyro_idx' \in 0 .. Len(gyro) /\ gyro_idx' >= gyro_idx
      /\ accel_idx' \in 0 .. Len(accel) /\ accel_idx' >= accel_idx
  BY <1>1, <1>2, <1>3, LoopFacts
<1>7. AppendEvent(NextGyro, latest_gyro', latest_accel')
  BY <1>1 DEF AppendEvent
<1>8. \E i \in DOMAIN gyro : i > gyro_idx /\ gyro[i] = NextGyro
  BY <1>3
<1>9. NextGyro \in Nat
  BY <1>3
<1> HIDE DEF g
<1>10. QED
  BY <1>1, <1>4, <1>5, <1>6, <1>7, <1>8, <1>9, TakePreserves

LEMMA TakeAccelPreserves ==
  ASSUME PropagationInv, TakeAccel
  PROVE  PropagationInv'
<1> DEFINE a == accel_idx + 1
<1>1. /\ ~Finished /\ NextGyro > NextAccel
      /\ accel_idx' = accel_idx + 1 /\ latest_accel' = NextAccel
      /\ AppendEvent(NextAccel, latest_gyro, NextAccel)
      /\ UNCHANGED <<image, frame, merging, gyro, accel, integrated, heard>>
      /\ gyro_idx' = gyro_idx /\ latest_gyro' = latest_gyro
  BY DEF TakeAccel
<1>2. accel_idx < Len(accel)
  <2>1. NextGyro \in Nat /\ NextGyro <= Infinity
    BY LoopFacts DEF NextGyro
  <2>2. accel_idx = Len(accel) => NextAccel = Infinity
    BY LoopFacts DEF NextAccel
  <2>3. QED
    BY <1>1, <2>1, <2>2, LoopFacts
<1>3. /\ NextAccel = accel[a] /\ a \in DOMAIN accel /\ accel[a] \in Nat
      /\ a > accel_idx
  BY <1>2, LoopFacts DEF NextAccel
<1>4. ASSUME NEW j \in DOMAIN accel
      PROVE  /\ j > accel_idx => NextAccel <= accel[j]
             /\ j <= accel_idx' => accel[j] <= NextAccel
  <2>1. /\ j > accel_idx => a <= j
        /\ j <= accel_idx' => j <= a
    BY <1>1, LoopFacts
  <2>2. QED
    BY <1>3, <2>1, LoopFacts
<1>5. ASSUME NEW i \in DOMAIN gyro
      PROVE  /\ i > gyro_idx => NextAccel <= gyro[i]
             /\ i <= gyro_idx' => gyro[i] <= NextAccel
  <2>1. ASSUME i > gyro_idx PROVE NextAccel <= gyro[i]
    <3>1. /\ gyro_idx < Len(gyro) /\ gyro_idx + 1 \in DOMAIN gyro
          /\ gyro_idx + 1 <= i
      BY <2>1, LoopFacts, SMTT(30)
    <3>2. NextGyro = gyro[gyro_idx + 1] /\ gyro[gyro_idx + 1] <= gyro[i]
      BY <3>1, LoopFacts DEF NextGyro
    <3>3. gyro[gyro_idx + 1] \in Nat /\ gyro[i] \in Nat
      BY <3>1, LoopFacts
    <3>4. QED
      BY ONLY <1>1, <1>3, <3>2, <3>3
  <2>2. i <= gyro_idx' => gyro[i] <= NextAccel
    BY <1>1, <1>3, LoopFacts
  <2>3. QED
    BY <2>1, <2>2
<1>6. /\ latest_gyro' = IF gyro_idx' = 0 THEN None ELSE gyro[gyro_idx']
      /\ latest_accel' = IF accel_idx' = 0 THEN None ELSE accel[accel_idx']
      /\ gyro_idx' \in 0 .. Len(gyro) /\ gyro_idx' >= gyro_idx
      /\ accel_idx' \in 0 .. Len(accel) /\ accel_idx' >= accel_idx
  BY <1>1, <1>2, <1>3, LoopFacts
<1>7. AppendEvent(NextAccel, latest_gyro', latest_accel')
  BY <1>1 DEF AppendEvent
<1>8. \E j \in DOMAIN accel : j > accel_idx /\ accel[j] = NextAccel
  BY <1>3
<1>9. NextAccel \in Nat
  BY <1>3
<1> HIDE DEF a
<1>10. QED
  BY <1>1, <1>4, <1>5, <1>6, <1>7, <1>8, <1>9, TakePreserves

-----------------------------------------------------------------------------
(* A new window continues each sensor where what was heard of it ends.     *)

(* What is heard of a sensor grows by its window.                          *)
LEMMA HeardGrows ==
  ASSUME NEW lo \in Nat, NEW t \in Nat, NEW known \in SUBSET Heard,
         NEW w \in Window(lo, t, known), frame \in Nat
  PROVE  /\ known \cup HeardOf(w, lo) \in SUBSET Heard
         /\ \A i \in DOMAIN w : \E s \in known \cup HeardOf(w, lo) : s.stamp = w[i]
         /\ \A s \in known \cup HeardOf(w, lo) :
              \/ s.stamp \in RangeOf(w)
              \/ \A i \in DOMAIN w : s.stamp <= w[i]
         /\ \A s \in HeardOf(w, lo) : s.frame = frame + 1 /\ s.after < s.stamp
<1>1. /\ w \in Seq(Nat) /\ \A i \in DOMAIN w : w[i] \in Nat /\ lo < w[i]
      /\ \A s \in known : \A i \in DOMAIN w : s.stamp <= w[i]
  BY WindowFacts
<1>2. ASSUME NEW s \in HeardOf(w, lo)
      PROVE  /\ s \in Heard /\ s.stamp \in RangeOf(w)
             /\ s.frame = frame + 1 /\ s.after < s.stamp
  <2>1. PICK i \in DOMAIN w : s = [stamp |-> w[i], frame |-> frame + 1, after |-> lo]
    BY DEF HeardOf
  <2>2. w[i] \in Nat /\ lo < w[i] /\ frame + 1 \in Nat
    BY <1>1
  <2>3. QED
    BY <2>1, <2>2 DEF Heard, RangeOf
<1>3. ASSUME NEW i \in DOMAIN w
      PROVE  \E s \in HeardOf(w, lo) : s.stamp = w[i]
  <2>1. [stamp |-> w[i], frame |-> frame + 1, after |-> lo] \in HeardOf(w, lo)
    BY DEF HeardOf
  <2>2. QED
    BY <2>1
<1>4. QED
  BY <1>1, <1>2, <1>3

LEMMA BeginPreserves ==
  ASSUME PropagationInv, NEW t \in 0 .. Horizon, Begin(t)
  PROVE  PropagationInv'
<1>1. /\ PropagationTypes /\ EventsInv /\ PastInv
      /\ WindowInv(gyro, gyro_idx, latest_gyro, heard.gyro)
      /\ WindowInv(accel, accel_idx, latest_accel, heard.accel)
  BY DEF PropagationInv
<1> DEFINE G == heard.gyro \cup HeardOf(gyro', image)
           A == heard.accel \cup HeardOf(accel', image)
<1>2. /\ gyro' \in Window(image, t, heard.gyro)
      /\ accel' \in Window(image, t, heard.accel)
      /\ merging' \in BOOLEAN /\ image' = t /\ frame' = frame + 1
      /\ gyro_idx' = 0 /\ accel_idx' = 0
      /\ latest_gyro' = None /\ latest_accel' = None /\ events' = << >>
      /\ heard' = [gyro |-> G, accel |-> A]
      /\ integrated' = integrated
  BY DEF Begin, Reset
<1>3. image \in Nat /\ t \in Nat /\ t <= Horizon /\ Horizon \in Nat /\ frame \in Nat
  BY <1>1, PropagationAssumption DEF PropagationTypes
<1>4. /\ gyro' \in Seq(Nat)
      /\ \A i \in DOMAIN gyro' : i \in Nat /\ i > 0 /\ gyro'[i] \in Nat /\ gyro'[i] <= t
      /\ \A i, j \in DOMAIN gyro' : i <= j => gyro'[i] <= gyro'[j]
      /\ \A s \in heard.gyro : \A i \in DOMAIN gyro' : s.stamp <= gyro'[i]
  BY <1>2, <1>3, WindowFacts
<1>5. /\ accel' \in Seq(Nat)
      /\ \A i \in DOMAIN accel' : i \in Nat /\ i > 0 /\ accel'[i] \in Nat /\ accel'[i] <= t
      /\ \A i, j \in DOMAIN accel' : i <= j => accel'[i] <= accel'[j]
      /\ \A s \in heard.accel : \A i \in DOMAIN accel' : s.stamp <= accel'[i]
  BY <1>2, <1>3, WindowFacts
<1>6. heard.gyro \in SUBSET Heard /\ heard.accel \in SUBSET Heard
  BY <1>1 DEF PropagationTypes
<1>7. /\ G \in SUBSET Heard
      /\ \A i \in DOMAIN gyro' : \E s \in G : s.stamp = gyro'[i]
      /\ \A s \in G : \/ s.stamp \in RangeOf(gyro')
                      \/ \A i \in DOMAIN gyro' : s.stamp <= gyro'[i]
      /\ \A s \in HeardOf(gyro', image) : s.frame = frame + 1 /\ s.after < s.stamp
  BY <1>2, <1>3, <1>6, HeardGrows
<1>8. /\ A \in SUBSET Heard
      /\ \A i \in DOMAIN accel' : \E s \in A : s.stamp = accel'[i]
      /\ \A s \in A : \/ s.stamp \in RangeOf(accel')
                      \/ \A i \in DOMAIN accel' : s.stamp <= accel'[i]
      /\ \A s \in HeardOf(accel', image) : s.frame = frame + 1 /\ s.after < s.stamp
  BY <1>2, <1>3, <1>6, HeardGrows
<1>9. heard'.gyro = G /\ heard'.accel = A
  BY <1>2
<1>10. /\ heard.gyro \subseteq G /\ heard.accel \subseteq A
       /\ \A s \in G : s \in heard.gyro \/ s \in HeardOf(gyro', image)
       /\ \A s \in A : s \in heard.accel \/ s \in HeardOf(accel', image)
  OBVIOUS
<1> HIDE DEF G, A
<1>11. PropagationTypes'
  <2>1. heard' \in [gyro : SUBSET Heard, accel : SUBSET Heard]
    BY <1>2, <1>7, <1>8
  <2>2. image' \in 0 .. Horizon /\ frame' \in Nat /\ integrated' = integrated
    BY <1>2, <1>3
  <2>3. /\ gyro_idx' \in 0 .. Len(gyro') /\ accel_idx' \in 0 .. Len(accel')
        /\ events' \in Seq(Event)
    BY <1>2, <1>4, <1>5
  <2>4. QED
    BY <1>1, <1>2, <1>4, <1>5, <2>1, <2>2, <2>3 DEF PropagationTypes
<1>12. WindowInv(gyro, gyro_idx, latest_gyro, heard.gyro)'
  BY <1>2, <1>4, <1>7, <1>9 DEF WindowInv, RangeOf
<1>13. WindowInv(accel, accel_idx, latest_accel, heard.accel)'
  BY <1>2, <1>5, <1>8, <1>9 DEF WindowInv, RangeOf
<1>14. EventsInv'
  BY <1>2, <1>4, <1>5 DEF EventsInv
<1>15. PastInv'
  <2>1. ASSUME NEW p \in integrated
        PROVE  /\ p.at \in Nat /\ p.frame \in Nat /\ p.frame <= frame
               /\ \/ \E s \in heard.gyro : p.at < s.stamp
                  \/ \E s \in heard.accel : p.at < s.stamp
    BY <1>1 DEF PropagationTypes, PastInv, Step
  <2>2. ASSUME NEW p \in integrated'
        PROVE  /\ p.frame <= frame'
               /\ \/ \E s \in heard'.gyro : p.at < s.stamp
                  \/ \E s \in heard'.accel : p.at < s.stamp
    BY <1>2, <1>3, <1>9, <1>10, <2>1
  <2>3. ASSUME NEW p \in integrated
        PROVE  (\A i \in DOMAIN gyro' : p.at < gyro'[i]) \/ (\A i \in DOMAIN accel' : p.at < accel'[i])
    <3>1. CASE \E s \in heard.gyro : p.at < s.stamp
      <4>1. PICK s \in heard.gyro : p.at < s.stamp
        BY <3>1
      <4>2. s.stamp \in Nat
        BY <1>6 DEF Heard
      <4>3. QED
        BY <1>4, <2>1, <4>1, <4>2
    <3>2. CASE \E s \in heard.accel : p.at < s.stamp
      <4>1. PICK s \in heard.accel : p.at < s.stamp
        BY <3>2
      <4>2. s.stamp \in Nat
        BY <1>6 DEF Heard
      <4>3. QED
        BY <1>5, <2>1, <4>1, <4>2
    <3>3. QED
      BY <2>1, <3>1, <3>2
  <2>4. IntegratedOnce'
    BY <1>1, <1>2 DEF PastInv, IntegratedOnce
  <2>5. ASSUME NEW p \in integrated, NEW s \in Heard,
               s.frame = frame + 1, s.after < s.stamp, s.stamp <= p.at
        PROVE  LateAfterStepBack(s, p)
    <3>1. s.stamp \in Nat /\ s.after \in Nat
      BY DEF Heard
    <3>2. QED
      BY <1>3, <2>1, <2>5, <3>1 DEF LateAfterStepBack
  <2>6. HeldSamplesAreLatest'
    <3>1. \A p \in integrated :
            /\ p.gyro <= p.at
            /\ \A s \in G : s.stamp <= p.at => s.stamp <= p.gyro \/ LateAfterStepBack(s, p)
            /\ p.accel <= p.at
            /\ \A s \in A : s.stamp <= p.at => s.stamp <= p.accel \/ LateAfterStepBack(s, p)
      BY <1>1, <1>7, <1>8, <1>10, <2>5 DEF PastInv, HeldSamplesAreLatest
    <3>2. QED
      BY <1>2, <1>9, <3>1 DEF HeldSamplesAreLatest, LateAfterStepBack
  <2>7. QED
    BY <1>2, <2>2, <2>3, <2>4, <2>6 DEF PastInv, Ahead
<1>16. QED
  BY <1>11, <1>12, <1>13, <1>14, <1>15 DEF PropagationInv

-----------------------------------------------------------------------------
(* Between one event and the next each sensor's sample in force is the     *)
(* latest the sensor sent.                                                 *)
LEMMA InForceIsLatest ==
  ASSUME NEW samples \in Seq(Nat), NEW value \in RangeOf(samples),
         NEW to \in Nat, NEW at \in Nat, at < to,
         \A i \in DOMAIN samples : samples[i] <= value \/ samples[i] >= to,
         NEW s \in Nat, s <= at,
         s \in RangeOf(samples) \/ \A i \in DOMAIN samples : s <= samples[i]
  PROVE  s <= value
<1>1. value \in Nat
  BY DEF RangeOf
<1>2. CASE s \in RangeOf(samples)
  <2>1. PICK i \in DOMAIN samples : samples[i] = s
    BY <1>2 DEF RangeOf
  <2>2. s <= value \/ s >= to
    BY <2>1
  <2>3. QED
    BY <2>2
<1>3. CASE \A i \in DOMAIN samples : s <= samples[i]
  <2>1. PICK i \in DOMAIN samples : samples[i] = value
    BY DEF RangeOf
  <2>2. QED
    BY <1>1, <1>3, <2>1
<1>4. QED
  BY <1>2, <1>3

(* What one window adds: the instants between its events, each with the    *)
(* samples of the event before.                                            *)
Stretch(k) ==
  {[at |-> at, gyro |-> Held(k).gyro, accel |-> Held(k).accel,
    frame |-> frame] :
     at \in events[k].stamp .. events[k + 1].stamp - 1}

LEMMA IntegratePreserves ==
  ASSUME PropagationInv, Integrate
  PROVE  PropagationInv'
<1> DEFINE n   == Len(events)
           new == UNION {Stretch(k) : k \in 1 .. n - 1}
<1>1. /\ PropagationTypes /\ EventsInv /\ PastInv
      /\ WindowInv(gyro, gyro_idx, latest_gyro, heard.gyro)
      /\ WindowInv(accel, accel_idx, latest_accel, heard.accel)
  BY DEF PropagationInv
<1>2. /\ merging = TRUE /\ merging' = FALSE
      /\ integrated' = integrated \cup new
      /\ UNCHANGED <<image, frame, heard, gyro, accel, gyro_idx, accel_idx>>
      /\ UNCHANGED <<latest_gyro, latest_accel, events>>
  BY <1>1 DEF Integrate, Stretch, loopVars, PropagationTypes
<1>3. /\ n \in Nat /\ DOMAIN events = 1 .. n
      /\ gyro \in Seq(Nat) /\ accel \in Seq(Nat)
      /\ heard.gyro \in SUBSET Heard /\ heard.accel \in SUBSET Heard
      /\ image \in Nat /\ frame \in Nat
      /\ \A k \in 1 .. n : /\ events[k].stamp \in Nat /\ events[k].gyro \in Nat
                           /\ events[k].accel \in Nat
  <2>1. /\ events \in Seq(Event)
        /\ gyro \in Seq(Nat) /\ accel \in Seq(Nat)
        /\ image \in Nat /\ frame \in Nat
        /\ heard.gyro \in SUBSET Heard /\ heard.accel \in SUBSET Heard
    BY <1>1 DEF PropagationTypes
  <2>2. n \in Nat /\ DOMAIN events = 1 .. n
    BY <2>1
  <2>3. \A k \in 1 .. n : events[k] \in Event
    BY <2>1, <2>2
  <2>4. QED
    BY <2>1, <2>2, <2>3 DEF Event
<1>4. ASSUME NEW p \in new
      PROVE  \E k \in 1 .. n - 1 :
               /\ k \in 1 .. n /\ k + 1 \in 1 .. n
               /\ p.at \in events[k].stamp .. events[k + 1].stamp - 1
               /\ p = [at |-> p.at, gyro |-> events[k].gyro,
                       accel |-> events[k].accel, frame |-> frame]
  <2>1. PICK k \in 1 .. n - 1 : p \in Stretch(k)
    OBVIOUS
  <2>2. k \in 1 .. n /\ k + 1 \in 1 .. n
    BY <1>3
  <2>3. PICK at \in events[k].stamp .. events[k + 1].stamp - 1 :
          p = [at |-> at, gyro |-> events[k].gyro,
               accel |-> events[k].accel, frame |-> frame]
    BY <2>1 DEF Stretch, Held
  <2>4. p.at = at
    BY <2>3
  <2>5. QED
    BY <2>2, <2>3, <2>4
<1> HIDE DEF n, new
<1>5. \A k \in 1 .. n : events[k].stamp \in RangeOf(gyro) \cup RangeOf(accel)
  BY <1>1, <1>3 DEF EventsInv
<1>6. ASSUME NEW s \in RangeOf(gyro) \cup RangeOf(accel)
      PROVE  \/ \E r \in heard.gyro : r.stamp = s
             \/ \E r \in heard.accel : r.stamp = s
  BY <1>1 DEF WindowInv, RangeOf
<1>7. ASSUME NEW p \in new
      PROVE  /\ p \in Step /\ p.frame <= frame
             /\ \/ \E s \in heard.gyro : p.at < s.stamp
                \/ \E s \in heard.accel : p.at < s.stamp
             /\ \A q \in integrated : q.at < p.at
             /\ p.gyro <= p.at
             /\ \A s \in heard.gyro : s.stamp <= p.at => s.stamp <= p.gyro
             /\ p.accel <= p.at
             /\ \A s \in heard.accel : s.stamp <= p.at => s.stamp <= p.accel
  <2>1. PICK k \in 1 .. n - 1 :
          /\ k \in 1 .. n /\ k + 1 \in 1 .. n
          /\ p.at \in events[k].stamp .. events[k + 1].stamp - 1
          /\ p = [at |-> p.at, gyro |-> events[k].gyro,
                  accel |-> events[k].accel, frame |-> frame]
    BY <1>4
  <2>2. /\ events[k].stamp \in Nat /\ events[k + 1].stamp \in Nat
        /\ events[k].gyro \in Nat /\ events[k].accel \in Nat
        /\ p.at \in Nat /\ p.at < events[k + 1].stamp
    BY <1>3, <2>1, SMTT(30)
  <2>3. \/ \E s \in heard.gyro : p.at < s.stamp
        \/ \E s \in heard.accel : p.at < s.stamp
    <3>1. \/ \E s \in heard.gyro : s.stamp = events[k + 1].stamp
          \/ \E s \in heard.accel : s.stamp = events[k + 1].stamp
      BY <1>5, <1>6, <2>1
    <3>2. QED
      BY <2>2, <3>1
  <2>4. p \in Step /\ p.frame <= frame
    <3>1. p.frame = frame
      BY <2>1
    <3>2. QED
      BY <1>3, <2>1, <2>2, <3>1 DEF Step
  <2>5. /\ InForce(gyro, gyro_idx, k, events[k].gyro)
        /\ InForce(accel, accel_idx, k, events[k].accel)
    BY <1>1, <1>3, <2>1 DEF EventsInv
  <2>6. ASSUME NEW q \in integrated
        PROVE  q.at < p.at
    <3>1. q.at \in Nat
      BY <1>1 DEF PropagationTypes, Step
    <3>2. Ahead(q, gyro) \/ Ahead(q, accel)
      BY <1>1, <1>2 DEF PastInv
    <3>3. q.at < events[k].gyro \/ q.at < events[k].accel
      BY <2>5, <3>2 DEF Ahead, InForce, RangeOf
    <3>4. events[k].gyro <= events[k].stamp /\ events[k].accel <= events[k].stamp
      BY <2>5 DEF InForce
    <3>5. QED
      BY <2>1, <2>2, <3>1, <3>3, <3>4
  <2>7. k \in Nat /\ k < Len(events) /\ Len(events) \in Nat
    BY <1>3, <2>1, SMTT(30) DEF n
  <2>8. /\ events[k].gyro <= p.at
        /\ \A s \in heard.gyro : s.stamp <= p.at => s.stamp <= events[k].gyro
    <3>1. /\ gyro \in Seq(Nat) /\ events[k].gyro \in RangeOf(gyro)
          /\ events[k].gyro <= events[k].stamp
          /\ \A i \in DOMAIN gyro : \/ gyro[i] <= events[k].gyro
                                   \/ gyro[i] >= events[k + 1].stamp
      BY <1>3, <2>5, <2>7 DEF InForce
    <3>2. events[k].gyro <= p.at
      BY <2>1, <2>2, <3>1, SMTT(30)
    <3>3. ASSUME NEW s \in heard.gyro, s.stamp <= p.at
          PROVE  s.stamp <= events[k].gyro
      <4>1. /\ s.stamp \in Nat
            /\ \/ s.stamp \in RangeOf(gyro)
               \/ \A i \in DOMAIN gyro : s.stamp <= gyro[i]
        BY <1>1, <1>3 DEF WindowInv, Heard
      <4>2. QED
        BY <2>2, <3>1, <3>3, <4>1, InForceIsLatest
    <3>4. QED
      BY <3>2, <3>3
  <2>9. /\ events[k].accel <= p.at
        /\ \A s \in heard.accel : s.stamp <= p.at => s.stamp <= events[k].accel
    <3>1. /\ accel \in Seq(Nat) /\ events[k].accel \in RangeOf(accel)
          /\ events[k].accel <= events[k].stamp
          /\ \A i \in DOMAIN accel : \/ accel[i] <= events[k].accel
                                    \/ accel[i] >= events[k + 1].stamp
      BY <1>3, <2>5, <2>7 DEF InForce
    <3>2. events[k].accel <= p.at
      BY <2>1, <2>2, <3>1, SMTT(30)
    <3>3. ASSUME NEW s \in heard.accel, s.stamp <= p.at
          PROVE  s.stamp <= events[k].accel
      <4>1. /\ s.stamp \in Nat
            /\ \/ s.stamp \in RangeOf(accel)
               \/ \A i \in DOMAIN accel : s.stamp <= accel[i]
        BY <1>1, <1>3 DEF WindowInv, Heard
      <4>2. QED
        BY <2>2, <3>1, <3>3, <4>1, InForceIsLatest
    <3>4. QED
      BY <3>2, <3>3
  <2>10. p.gyro = events[k].gyro /\ p.accel = events[k].accel
    BY <2>1
  <2>11. QED
    BY <2>3, <2>4, <2>6, <2>8, <2>9, <2>10
<1>8. ASSUME NEW p \in new, NEW q \in new, p.at = q.at
      PROVE  p = q
  <2>1. PICK j \in 1 .. n - 1 :
          /\ j \in 1 .. n /\ j + 1 \in 1 .. n
          /\ p.at \in events[j].stamp .. events[j + 1].stamp - 1
          /\ p = [at |-> p.at, gyro |-> events[j].gyro,
                  accel |-> events[j].accel, frame |-> frame]
    BY <1>4
  <2>2. PICK k \in 1 .. n - 1 :
          /\ k \in 1 .. n /\ k + 1 \in 1 .. n
          /\ q.at \in events[k].stamp .. events[k + 1].stamp - 1
          /\ q = [at |-> q.at, gyro |-> events[k].gyro,
                  accel |-> events[k].accel, frame |-> frame]
    BY <1>4
  <2>3. \A i, l \in 1 .. n : i <= l => events[i].stamp <= events[l].stamp
    BY <1>1, <1>3 DEF EventsInv
  <2>4. /\ events[j].stamp \in Nat /\ events[j + 1].stamp \in Nat
        /\ events[k].stamp \in Nat /\ events[k + 1].stamp \in Nat
        /\ j \in Nat /\ k \in Nat
    <3>1. j \in 1 .. n /\ j + 1 \in 1 .. n /\ k \in 1 .. n /\ k + 1 \in 1 .. n
      BY <2>1, <2>2
    <3>2. QED
      BY ONLY <1>3, <3>1
  <2>5. ~(j + 1 <= k)
    BY <1>8, <2>1, <2>2, <2>3, <2>4
  <2>6. ~(k + 1 <= j)
    BY <1>8, <2>1, <2>2, <2>3, <2>4
  <2>7. j = k
    BY ONLY <2>4, <2>5, <2>6
  <2>8. QED
    BY ONLY <1>8, <2>1, <2>2, <2>7
<1>9. PropagationTypes'
  BY <1>1, <1>2, <1>7 DEF PropagationTypes
<1>10. /\ WindowInv(gyro, gyro_idx, latest_gyro, heard.gyro)'
       /\ WindowInv(accel, accel_idx, latest_accel, heard.accel)'
  BY <1>1, <1>2 DEF WindowInv, RangeOf
<1>11. EventsInv'
  BY <1>1, <1>2 DEF EventsInv, InForce, Remaining, RangeOf
<1>12. PastInv'
  <2>1. ASSUME NEW p \in integrated'
        PROVE  /\ p.frame <= frame
               /\ \/ \E s \in heard.gyro : p.at < s.stamp
                  \/ \E s \in heard.accel : p.at < s.stamp
    BY <1>1, <1>2, <1>7 DEF PastInv
  <2>2. IntegratedOnce'
    <3> SUFFICES ASSUME NEW p \in integrated', NEW q \in integrated',
                        p.at = q.at
                 PROVE  p = q
      BY DEF IntegratedOnce
    <3>1. \A r \in integrated : r.at \in Nat
      BY <1>1 DEF PropagationTypes, Step
    <3>2. CASE p \in integrated /\ q \in integrated
      BY <1>1, <3>2 DEF PastInv, IntegratedOnce
    <3>3. CASE p \in integrated /\ q \in new
      BY <1>7, <3>1, <3>3
    <3>4. CASE p \in new /\ q \in integrated
      BY <1>7, <3>1, <3>4
    <3>5. CASE p \in new /\ q \in new
      BY <1>8, <3>5
    <3>6. QED
      BY <1>2, <3>2, <3>3, <3>4, <3>5
  <2>3. HeldSamplesAreLatest'
    BY <1>1, <1>2, <1>7 DEF PastInv, HeldSamplesAreLatest, LateAfterStepBack
  <2>4. QED
    BY <1>2, <2>1, <2>2, <2>3 DEF PastInv
<1>13. QED
  BY <1>9, <1>10, <1>11, <1>12 DEF PropagationInv

-----------------------------------------------------------------------------
(* The theorems.                                                           *)

(* The invariant of the propagation is inductive.                          *)
THEOREM PropagationInvariant == Spec => []PropagationInv
<1>1. Init => PropagationInv
  <2> SUFFICES ASSUME Init PROVE PropagationInv
    OBVIOUS
  <2>1. /\ image \in 0 .. Horizon /\ frame = 0 /\ merging = FALSE /\ gyro = << >> /\ accel = << >>
        /\ gyro_idx = 0 /\ accel_idx = 0
        /\ latest_gyro = None /\ latest_accel = None
        /\ events = << >> /\ integrated = {}
        /\ heard = [gyro |-> {}, accel |-> {}]
    BY DEF Init
  <2>2. PropagationTypes
    <3>1. heard \in [gyro : SUBSET Heard, accel : SUBSET Heard]
      BY <2>1
    <3>2. /\ gyro \in Seq(Nat) /\ gyro_idx \in 0 .. Len(gyro)
          /\ accel \in Seq(Nat) /\ accel_idx \in 0 .. Len(accel)
          /\ events \in Seq(Event) /\ frame \in Nat
      BY <2>1, PropagationAssumption
    <3>3. QED
      BY <2>1, <3>1, <3>2 DEF PropagationTypes
  <2>3. /\ WindowInv(gyro, gyro_idx, latest_gyro, heard.gyro)
        /\ WindowInv(accel, accel_idx, latest_accel, heard.accel)
    BY <2>1 DEF WindowInv
  <2>4. EventsInv
    BY <2>1 DEF EventsInv
  <2>5. PastInv
    BY <2>1 DEF PastInv, IntegratedOnce, HeldSamplesAreLatest
  <2>6. QED
    BY <2>2, <2>3, <2>4, <2>5 DEF PropagationInv
<1>2. PropagationInv /\ [Next]_vars => PropagationInv'
  <2> SUFFICES ASSUME PropagationInv, [Next]_vars
               PROVE  PropagationInv'
    OBVIOUS
  <2>1. ASSUME NEW t \in 0 .. Horizon, Begin(t)
        PROVE  PropagationInv'
    BY <2>1, BeginPreserves
  <2>2. CASE TakeGyro
    BY <2>2, TakeGyroPreserves
  <2>3. CASE TakeAccel
    BY <2>3, TakeAccelPreserves
  <2>4. CASE Integrate
    BY <2>4, IntegratePreserves
  <2>5. CASE UNCHANGED vars
    BY <2>5, SMTT(30) DEF vars, PropagationInv, PropagationTypes, WindowInv, EventsInv,
                InForce, Remaining, PastInv, Ahead, IntegratedOnce,
                HeldSamplesAreLatest, LateAfterStepBack, RangeOf
  <2>6. QED
    BY <2>1, <2>2, <2>3, <2>4, <2>5 DEF Next
<1>3. QED
  BY <1>1, <1>2, PTL DEF Spec

(* No event holds a sample from its own future, and stamps never run       *)
(* backwards in the list.                                                  *)
THEOREM NoEventFromTheFuture == Spec => []EventsAreCausal
<1>1. PropagationInv => EventsAreCausal
  <2> SUFFICES ASSUME PropagationInv, NEW k \in DOMAIN events
               PROVE  /\ events[k].gyro <= events[k].stamp
                      /\ events[k].accel <= events[k].stamp
                      /\ k > 1 => events[k - 1].stamp <= events[k].stamp
    BY DEF EventsAreCausal
  <2>1. events \in Seq(Event) /\ DOMAIN events = 1 .. Len(events)
    BY DEF PropagationInv, PropagationTypes
  <2>2. k > 1 => k - 1 \in DOMAIN events /\ k - 1 <= k
    BY <2>1
  <2>3. QED
    BY <2>2 DEF PropagationInv, EventsInv, InForce
<1>2. QED
  BY <1>1, PropagationInvariant, PTL

(* No instant is integrated twice, in one window or in two, although the   *)
(* images' stamps may step back over time that is integrated already.      *)
THEOREM NoInstantTwice == Spec => []IntegratedOnce
<1>1. PropagationInv => IntegratedOnce
  BY DEF PropagationInv, PastInv
<1>2. QED
  BY <1>1, PropagationInvariant, PTL

(* Every instant is integrated with the samples in force, unless one comes *)
(* late and images step back to hand it over.                              *)
THEOREM ZeroOrderHold == Spec => []HeldSamplesAreLatest
<1>1. PropagationInv => HeldSamplesAreLatest
  BY DEF PropagationInv, PastInv
<1>2. QED
  BY <1>1, PropagationInvariant, PTL
-----------------------------------------------------------------------------
(* The merge loop against the events as they are defined without it.       *)

(* The latest of the first n samples of a sorted window is the n-th.       *)
LEMMA LatestOfFirst ==
  ASSUME NEW w \in Seq(Nat), \A i, j \in DOMAIN w : i <= j => w[i] <= w[j],
         NEW n \in 0 .. Len(w)
  PROVE  Latest({w[i] : i \in 1 .. n}) = IF n = 0 THEN None ELSE w[n]
<1> DEFINE S == {w[i] : i \in 1 .. n}
<1>1. CASE n = 0
  BY <1>1 DEF Latest
<1>2. CASE n # 0
  <2>1. n \in 1 .. n /\ \A i \in 1 .. n : i \in DOMAIN w /\ n \in DOMAIN w /\ i <= n
    BY <1>2
  <2>2. w[n] \in S /\ \A r \in S : r \in Nat /\ r <= w[n]
    BY <2>1
  <2>3. ASSUME NEW s \in S, \A r \in S : r <= s
        PROVE  s = w[n]
    <3>1. s \in Nat /\ w[n] \in Nat /\ s <= w[n] /\ w[n] <= s
      BY <2>2, <2>3
    <3>2. QED
      BY ONLY <3>1
  <2>4. S # {}
    BY <2>2
  <2> HIDE DEF S
  <2>5. (CHOOSE s \in S : \A r \in S : r <= s) = w[n]
    BY <2>2, <2>3
  <2>6. QED
    BY <1>2, <2>4, <2>5 DEF Latest, S
<1>3. QED
  BY <1>1, <1>2

LEMMA RangeOfAppend ==
  ASSUME NEW s \in Seq(Event), NEW e \in Event
  PROVE  RangeOf(Append(s, e)) = RangeOf(s) \cup {e}
<1>1. /\ DOMAIN Append(s, e) = 1 .. Len(s) + 1
      /\ Append(s, e)[Len(s) + 1] = e
      /\ \A i \in 1 .. Len(s) : Append(s, e)[i] = s[i]
  BY AppendEventFacts
<1>2. DOMAIN s = 1 .. Len(s) /\ Len(s) \in Nat
  OBVIOUS
<1>3. 1 .. Len(s) + 1 = 1 .. Len(s) \cup {Len(s) + 1}
  BY <1>2
<1>4. QED
  BY <1>1, <1>2, <1>3 DEF RangeOf

(* The next number extends a set of those up to n, if it is let in.        *)
LEMMA TakenGrows ==
  ASSUME NEW n \in Nat, NEW P, NEW Q, P \subseteq 1 .. n,
         Q = P \/ Q = P \cup {n + 1}
  PROVE  /\ Cardinality(P) \in Nat
         /\ Cardinality(Q) = IF Q = P THEN Cardinality(P) ELSE Cardinality(P) + 1
<1>1. IsFiniteSet(P)
  <2>1. IsFiniteSet(1 .. n)
    BY FS_Interval
  <2>2. QED
    BY <2>1, FS_Subset
<1>2. Cardinality(P) \in Nat
  BY <1>1, FS_CardinalityType
<1>3. n + 1 \notin P
  OBVIOUS
<1>4. Cardinality(P \cup {n + 1}) = Cardinality(P) + 1
  BY <1>1, <1>3, FS_AddElement
<1>5. QED
  BY <1>2, <1>4

(* The event of a sample as it is taken: the sample itself, and what is    *)
(* held of the other sensor, which is the latest that came before it.      *)
LEMMA GyroEvent ==
  ASSUME PropagationInv, MergeInv, TakeGyro
  PROVE  /\ gyro_idx + 1 \in DOMAIN gyro
         /\ AtGyro(gyro_idx + 1) = [stamp |-> NextGyro, gyro |-> NextGyro,
                                    accel |-> latest_accel]
<1> DEFINE g == gyro_idx + 1
           before == {s \in RangeOf(accel) : s < gyro[g]}
<1>1. ~Finished /\ NextGyro <= NextAccel
  BY DEF TakeGyro
<1>2. gyro_idx < Len(gyro)
  BY <1>1, LoopFacts, SMTT(30) DEF Finished, NextGyro, NextAccel
<1>3. NextGyro = gyro[g] /\ g \in DOMAIN gyro /\ gyro[g] \in Nat /\ g > gyro_idx
  BY <1>2, LoopFacts DEF NextGyro
<1>4. ASSUME NEW j \in DOMAIN accel
      PROVE  accel[j] < gyro[g] <=> j \in 1 .. accel_idx
  <2>1. j \in Nat /\ j >= 1 /\ accel_idx \in Nat /\ accel[j] \in Nat
    BY LoopFacts
  <2>2. j <= accel_idx => accel[j] < gyro[g]
    BY <1>3 DEF MergeInv
  <2>3. ASSUME j > accel_idx PROVE gyro[g] <= accel[j]
    <3>1. /\ accel_idx < Len(accel) /\ accel_idx + 1 \in DOMAIN accel
          /\ accel_idx + 1 <= j
      BY <2>3, LoopFacts, SMTT(30)
    <3>2. NextAccel = accel[accel_idx + 1] /\ accel[accel_idx + 1] <= accel[j]
      BY <3>1, LoopFacts DEF NextAccel
    <3>3. accel[accel_idx + 1] \in Nat
      BY <3>1, LoopFacts
    <3>4. QED
      BY ONLY <1>1, <1>3, <2>1, <3>2, <3>3
  <2>4. QED
    BY ONLY <1>3, <2>1, <2>2, <2>3
<1>5. before = {accel[j] : j \in 1 .. accel_idx}
  <2>1. 1 .. accel_idx \subseteq DOMAIN accel
    BY LoopFacts
  <2>2. QED
    BY <1>4, <2>1 DEF RangeOf
<1>6. Latest(before) = latest_accel
  <2>1. accel \in Seq(Nat) /\ accel_idx \in 0 .. Len(accel)
    BY LoopFacts
  <2>2. latest_accel = IF accel_idx = 0 THEN None ELSE accel[accel_idx]
    BY LoopFacts
  <2>3. \A i, j \in DOMAIN accel : i <= j => accel[i] <= accel[j]
    BY LoopFacts
  <2>4. QED
    BY <1>5, <2>1, <2>2, <2>3, LatestOfFirst
<1>7. QED
  BY <1>3, <1>6 DEF AtGyro

LEMMA AccelEvent ==
  ASSUME PropagationInv, MergeInv, TakeAccel
  PROVE  /\ accel_idx + 1 \in DOMAIN accel
         /\ AtAccel(accel_idx + 1) = [stamp |-> NextAccel, gyro |-> latest_gyro,
                                      accel |-> NextAccel]
         /\ \A i \in DOMAIN gyro : i > gyro_idx => NextAccel < gyro[i]
<1> DEFINE a == accel_idx + 1
           before == {s \in RangeOf(gyro) : s <= accel[a]}
<1>1. ~Finished /\ NextGyro > NextAccel
  BY DEF TakeAccel
<1>2. accel_idx < Len(accel)
  <2>1. NextGyro \in Nat /\ NextGyro <= Infinity
    BY LoopFacts DEF NextGyro
  <2>2. accel_idx = Len(accel) => NextAccel = Infinity
    BY LoopFacts DEF NextAccel
  <2>3. QED
    BY <1>1, <2>1, <2>2, LoopFacts
<1>3. NextAccel = accel[a] /\ a \in DOMAIN accel /\ accel[a] \in Nat /\ a > accel_idx
  BY <1>2, LoopFacts DEF NextAccel
<1>4. ASSUME NEW i \in DOMAIN gyro, i > gyro_idx
      PROVE  NextAccel < gyro[i]
  <2>1. /\ gyro_idx < Len(gyro) /\ gyro_idx + 1 \in DOMAIN gyro
        /\ gyro_idx + 1 <= i
    BY <1>4, LoopFacts, SMTT(30)
  <2>2. NextGyro = gyro[gyro_idx + 1] /\ gyro[gyro_idx + 1] <= gyro[i]
    BY <2>1, LoopFacts DEF NextGyro
  <2>3. gyro[gyro_idx + 1] \in Nat /\ gyro[i] \in Nat
    BY <2>1, LoopFacts
  <2>4. QED
    BY ONLY <1>1, <1>3, <2>2, <2>3
<1>5. ASSUME NEW i \in DOMAIN gyro
      PROVE  gyro[i] <= accel[a] <=> i \in 1 .. gyro_idx
  <2>1. i \in Nat /\ i >= 1 /\ gyro_idx \in Nat /\ gyro[i] \in Nat
    BY LoopFacts
  <2>2. i <= gyro_idx => gyro[i] <= accel[a]
    BY <1>3, LoopFacts
  <2>3. i > gyro_idx => NextAccel < gyro[i]
    BY <1>4
  <2>4. QED
    BY ONLY <1>3, <2>1, <2>2, <2>3
<1>6. before = {gyro[i] : i \in 1 .. gyro_idx}
  <2>1. 1 .. gyro_idx \subseteq DOMAIN gyro
    BY LoopFacts
  <2>2. QED
    BY <1>5, <2>1 DEF RangeOf
<1>7. Latest(before) = latest_gyro
  <2>1. gyro \in Seq(Nat) /\ gyro_idx \in 0 .. Len(gyro)
    BY LoopFacts
  <2>2. latest_gyro = IF gyro_idx = 0 THEN None ELSE gyro[gyro_idx]
    BY LoopFacts
  <2>3. \A i, j \in DOMAIN gyro : i <= j => gyro[i] <= gyro[j]
    BY LoopFacts
  <2>4. QED
    BY <1>6, <2>1, <2>2, <2>3, LatestOfFirst
<1>8. QED
  BY <1>3, <1>4, <1>7 DEF AtAccel

LEMMA TakeGyroMerges ==
  ASSUME PropagationInv, MergeInv, TakeGyro
  PROVE  MergeInv'
<1> DEFINE g == gyro_idx + 1
           e == AtGyro(g)
<1>1. /\ gyro_idx' = g /\ accel_idx' = accel_idx
      /\ UNCHANGED <<gyro, accel>>
      /\ AppendEvent(NextGyro, NextGyro, latest_accel)
  BY DEF TakeGyro
<1>2. /\ g \in DOMAIN gyro /\ gyro_idx \in Nat /\ accel_idx \in Nat
      /\ e = [stamp |-> NextGyro, gyro |-> NextGyro, accel |-> latest_accel]
  BY GyroEvent, LoopFacts
<1>3. NextGyro \in Nat /\ (latest_accel \in Nat \/ latest_accel = None)
  BY <1>2, LoopFacts DEF NextGyro
<1>4. Complete(e) <=> latest_accel # None
  BY <1>2, <1>3, PropagationAssumption DEF Complete
<1>5. /\ \A i : AtGyro(i)' = AtGyro(i)
      /\ \A j : AtAccel(j)' = AtAccel(j)
  BY <1>1 DEF AtGyro, AtAccel, RangeOf
<1>6. AccelsTaken' = AccelsTaken
  BY <1>1, <1>5 DEF AccelsTaken
<1>7. GyrosTaken' = GyrosTaken \cup (IF Complete(e) THEN {g} ELSE {})
  <2>1. 1 .. g = 1 .. gyro_idx \cup {g}
    BY <1>2
  <2> HIDE DEF g
  <2>2. GyrosTaken' = {i \in 1 .. g : Complete(AtGyro(i))}
    BY <1>1, <1>5 DEF GyrosTaken, Complete
  <2>3. QED
    BY <2>1, <2>2 DEF GyrosTaken
<1>8. GyrosTaken \subseteq 1 .. gyro_idx /\ AccelsTaken \subseteq 1 .. accel_idx
  BY DEF GyrosTaken, AccelsTaken
<1>9. Cardinality(GyrosTaken) \in Nat /\ Cardinality(AccelsTaken) \in Nat
  BY <1>2, <1>8, TakenGrows
<1>10. events \in Seq(Event) /\ Len(events) \in Nat
  BY DEF PropagationInv, PropagationTypes
<1>11. /\ RangeOf(events) = {AtGyro(i) : i \in GyrosTaken} \cup {AtAccel(j) : j \in AccelsTaken}
       /\ Len(events) = Cardinality(GyrosTaken) + Cardinality(AccelsTaken)
  BY DEF MergeInv
<1>12. \A i \in DOMAIN gyro', j \in DOMAIN accel' :
         i > gyro_idx' /\ j <= accel_idx' => accel'[j] < gyro'[i]
  <2>1. \A i \in DOMAIN gyro : i > g => i > gyro_idx
    BY <1>2, LoopFacts
  <2>2. QED
    BY <1>1, <2>1 DEF MergeInv
<1>13. CASE Complete(e)
  <2>1. events' = Append(events, e) /\ e \in Event
    BY <1>1, <1>2, <1>3, <1>4, <1>13, PropagationAssumption DEF AppendEvent, Event
  <2>2. /\ RangeOf(events') = RangeOf(events) \cup {e}
        /\ Len(events') = Len(events) + 1
    BY <1>10, <2>1, RangeOfAppend, AppendEventFacts
  <2>3. GyrosTaken' = GyrosTaken \cup {g} /\ g \notin GyrosTaken
    BY <1>2, <1>7, <1>8, <1>13
  <2>4. Cardinality(GyrosTaken') = Cardinality(GyrosTaken) + 1
    <3>1. GyrosTaken' = GyrosTaken \cup {gyro_idx + 1}
      BY <2>3
    <3>2. gyro_idx \in Nat /\ GyrosTaken \subseteq 1 .. gyro_idx /\ GyrosTaken' # GyrosTaken
      BY <1>2, <1>8, <2>3
    <3> HIDE DEF e, g
    <3>3. QED
      BY <3>1, <3>2, TakenGrows
  <2>5. {AtGyro(i) : i \in GyrosTaken'} = {AtGyro(i) : i \in GyrosTaken} \cup {e}
    BY <2>3
  <2> HIDE DEF e, g
  <2>6. RangeOf(events)' = {AtGyro(i)' : i \in GyrosTaken'} \cup {AtAccel(j)' : j \in AccelsTaken'}
    <3>1. RangeOf(events)' = RangeOf(events')
      BY DEF RangeOf
    <3>2. /\ {AtGyro(i)' : i \in GyrosTaken'} = {AtGyro(i) : i \in GyrosTaken'}
          /\ {AtAccel(j)' : j \in AccelsTaken'} = {AtAccel(j) : j \in AccelsTaken'}
      BY <1>5
    <3>3. QED
      BY <1>6, <1>11, <2>2, <2>5, <3>1, <3>2
  <2>7. Len(events') = Cardinality(GyrosTaken') + Cardinality(AccelsTaken')
    BY <1>6, <1>9, <1>11, <2>2, <2>4
  <2>8. QED
    BY <1>12, <2>6, <2>7 DEF MergeInv
<1>14. CASE ~Complete(e)
  <2>1. events' = events /\ GyrosTaken' = GyrosTaken
    BY <1>1, <1>2, <1>3, <1>4, <1>7, <1>14, PropagationAssumption DEF AppendEvent
  <2>2. QED
    BY <1>5, <1>6, <1>11, <1>12, <2>1 DEF MergeInv, RangeOf
<1>15. QED
  BY <1>13, <1>14

LEMMA TakeAccelMerges ==
  ASSUME PropagationInv, MergeInv, TakeAccel
  PROVE  MergeInv'
<1> DEFINE a == accel_idx + 1
           e == AtAccel(a)
<1>1. /\ accel_idx' = a /\ gyro_idx' = gyro_idx
      /\ UNCHANGED <<gyro, accel>>
      /\ AppendEvent(NextAccel, latest_gyro, NextAccel)
  BY DEF TakeAccel
<1>2. /\ a \in DOMAIN accel /\ gyro_idx \in Nat /\ accel_idx \in Nat
      /\ e = [stamp |-> NextAccel, gyro |-> latest_gyro, accel |-> NextAccel]
      /\ \A i \in DOMAIN gyro : i > gyro_idx => NextAccel < gyro[i]
  BY AccelEvent, LoopFacts
<1>3. NextAccel \in Nat /\ NextAccel = accel[a] /\ (latest_gyro \in Nat \/ latest_gyro = None)
  BY <1>2, LoopFacts DEF NextAccel
<1>4. Complete(e) <=> latest_gyro # None
  BY <1>2, <1>3, PropagationAssumption DEF Complete
<1>5. /\ \A i : AtGyro(i)' = AtGyro(i)
      /\ \A j : AtAccel(j)' = AtAccel(j)
  BY <1>1 DEF AtGyro, AtAccel, RangeOf
<1>6. GyrosTaken' = GyrosTaken
  BY <1>1, <1>5 DEF GyrosTaken
<1>7. AccelsTaken' = AccelsTaken \cup (IF Complete(e) THEN {a} ELSE {})
  <2>1. 1 .. a = 1 .. accel_idx \cup {a}
    BY <1>2
  <2> HIDE DEF a
  <2>2. AccelsTaken' = {j \in 1 .. a : Complete(AtAccel(j))}
    BY <1>1, <1>5 DEF AccelsTaken, Complete
  <2>3. QED
    BY <2>1, <2>2 DEF AccelsTaken
<1>8. GyrosTaken \subseteq 1 .. gyro_idx /\ AccelsTaken \subseteq 1 .. accel_idx
  BY DEF GyrosTaken, AccelsTaken
<1>9. Cardinality(GyrosTaken) \in Nat /\ Cardinality(AccelsTaken) \in Nat
  BY <1>2, <1>8, TakenGrows
<1>10. events \in Seq(Event) /\ Len(events) \in Nat
  BY DEF PropagationInv, PropagationTypes
<1>11. /\ RangeOf(events) = {AtGyro(i) : i \in GyrosTaken} \cup {AtAccel(j) : j \in AccelsTaken}
       /\ Len(events) = Cardinality(GyrosTaken) + Cardinality(AccelsTaken)
  BY DEF MergeInv
<1>12. \A i \in DOMAIN gyro', j \in DOMAIN accel' :
         i > gyro_idx' /\ j <= accel_idx' => accel'[j] < gyro'[i]
  <2>1. \A j \in DOMAIN accel : j <= a => j <= accel_idx \/ j = a
    BY <1>2, LoopFacts
  <2>2. QED
    BY <1>1, <1>2, <1>3, <2>1 DEF MergeInv
<1>13. CASE Complete(e)
  <2>1. events' = Append(events, e) /\ e \in Event
    BY <1>1, <1>2, <1>3, <1>4, <1>13, PropagationAssumption DEF AppendEvent, Event
  <2>2. /\ RangeOf(events') = RangeOf(events) \cup {e}
        /\ Len(events') = Len(events) + 1
    BY <1>10, <2>1, RangeOfAppend, AppendEventFacts
  <2>3. AccelsTaken' = AccelsTaken \cup {a} /\ a \notin AccelsTaken
    BY <1>2, <1>7, <1>8, <1>13
  <2>4. Cardinality(AccelsTaken') = Cardinality(AccelsTaken) + 1
    <3>1. AccelsTaken' = AccelsTaken \cup {accel_idx + 1}
      BY <2>3
    <3>2. accel_idx \in Nat /\ AccelsTaken \subseteq 1 .. accel_idx /\ AccelsTaken' # AccelsTaken
      BY <1>2, <1>8, <2>3
    <3> HIDE DEF e, a
    <3>3. QED
      BY <3>1, <3>2, TakenGrows
  <2>5. {AtAccel(j) : j \in AccelsTaken'} = {AtAccel(j) : j \in AccelsTaken} \cup {e}
    BY <2>3
  <2> HIDE DEF e, a
  <2>6. RangeOf(events)' = {AtGyro(i)' : i \in GyrosTaken'} \cup {AtAccel(j)' : j \in AccelsTaken'}
    <3>1. RangeOf(events)' = RangeOf(events')
      BY DEF RangeOf
    <3>2. /\ {AtGyro(i)' : i \in GyrosTaken'} = {AtGyro(i) : i \in GyrosTaken'}
          /\ {AtAccel(j)' : j \in AccelsTaken'} = {AtAccel(j) : j \in AccelsTaken'}
      BY <1>5
    <3>3. QED
      BY <1>6, <1>11, <2>2, <2>5, <3>1, <3>2
  <2>7. Len(events') = Cardinality(GyrosTaken') + Cardinality(AccelsTaken')
    BY <1>6, <1>9, <1>11, <2>2, <2>4
  <2>8. QED
    BY <1>12, <2>6, <2>7 DEF MergeInv
<1>14. CASE ~Complete(e)
  <2>1. events' = events /\ AccelsTaken' = AccelsTaken
    BY <1>1, <1>2, <1>3, <1>4, <1>7, <1>14, PropagationAssumption DEF AppendEvent
  <2>2. QED
    BY <1>5, <1>6, <1>11, <1>12, <2>1 DEF MergeInv, RangeOf
<1>15. QED
  BY <1>13, <1>14

(* A list that is empty before anything was taken.                         *)
LEMMA NothingMerged ==
  ASSUME gyro \in Seq(Nat), accel \in Seq(Nat),
         gyro_idx = 0, accel_idx = 0, events = << >>
  PROVE  MergeInv
<1>1. GyrosTaken = {} /\ AccelsTaken = {}
  BY DEF GyrosTaken, AccelsTaken
<1>2. RangeOf(events) = {} /\ Len(events) = 0
  BY DEF RangeOf
<1>3. \A j \in DOMAIN accel : ~(j <= accel_idx)
  OBVIOUS
<1>4. QED
  BY <1>1, <1>2, <1>3, FS_EmptySet DEF MergeInv

(* The list of events stays the one of the samples taken.                  *)
LEMMA NextMerges ==
  ASSUME PropagationInv, MergeInv, [Next]_vars
  PROVE  MergeInv'
<1>1. ASSUME NEW t \in 0 .. Horizon, Begin(t)
      PROVE  MergeInv'
  <2>1. /\ gyro' \in Window(image, t, heard.gyro)
        /\ accel' \in Window(image, t, heard.accel)
        /\ gyro_idx' = 0 /\ accel_idx' = 0 /\ events' = << >>
    BY <1>1 DEF Begin, Reset
  <2>2. image \in Nat /\ t \in Nat
    BY PropagationAssumption DEF PropagationInv, PropagationTypes
  <2>3. gyro' \in Seq(Nat) /\ accel' \in Seq(Nat)
    BY <2>1, <2>2, WindowFacts
  <2>4. GyrosTaken' = {} /\ AccelsTaken' = {}
    BY <2>1 DEF GyrosTaken, AccelsTaken
  <2>5. RangeOf(events)' = {} /\ Len(events') = 0
    BY <2>1 DEF RangeOf
  <2>6. \A j \in DOMAIN accel' : ~(j <= accel_idx')
    BY <2>1, <2>3
  <2>7. QED
    BY <2>4, <2>5, <2>6, FS_EmptySet DEF MergeInv
<1>2. CASE TakeGyro
  BY <1>2, TakeGyroMerges
<1>3. CASE TakeAccel
  BY <1>3, TakeAccelMerges
<1>4. CASE UNCHANGED loopVars
  <2>1. /\ UNCHANGED <<gyro, accel, gyro_idx, accel_idx, events>>
        /\ RangeOf(events)' = RangeOf(events)
    BY <1>4 DEF loopVars, RangeOf
  <2>2. /\ \A i : AtGyro(i)' = AtGyro(i)
        /\ \A j : AtAccel(j)' = AtAccel(j)
    BY <2>1 DEF AtGyro, AtAccel, RangeOf
  <2>3. GyrosTaken' = GyrosTaken /\ AccelsTaken' = AccelsTaken
    BY <2>1, <2>2 DEF GyrosTaken, AccelsTaken
  <2>4. /\ {AtGyro(i)' : i \in GyrosTaken'} = {AtGyro(i) : i \in GyrosTaken}
        /\ {AtAccel(j)' : j \in AccelsTaken'} = {AtAccel(j) : j \in AccelsTaken}
    BY <2>2, <2>3
  <2>5. QED
    BY <2>1, <2>3, <2>4 DEF MergeInv
<1>5. Integrate \/ UNCHANGED vars => UNCHANGED loopVars
  BY DEF Integrate, vars, loopVars
<1>6. QED
  BY <1>1, <1>2, <1>3, <1>4, <1>5 DEF Next

(* The merge loop ends with exactly the events that are defined without    *)
(* it: one per sample that both sensors precede, in the order of the       *)
(* stamps, with the latest samples.                                        *)
THEOREM MergeIsItsDefinition == Spec => []MergeComputesEvents
<1>1. Init => MergeInv
  <2> SUFFICES ASSUME Init PROVE MergeInv
    OBVIOUS
  <2>1. gyro = << >> /\ accel = << >> /\ gyro_idx = 0 /\ accel_idx = 0 /\ events = << >>
    BY DEF Init
  <2>2. gyro \in Seq(Nat) /\ accel \in Seq(Nat)
    BY <2>1
  <2>3. QED
    BY <2>1, <2>2, NothingMerged
<1>2. PropagationInv /\ MergeInv /\ [Next]_vars => MergeInv'
  BY NextMerges
<1>3. PropagationInv /\ MergeInv => MergeComputesEvents
  <2> SUFFICES ASSUME PropagationInv, MergeInv, merging, Finished
               PROVE  LET gyros  == {i \in DOMAIN gyro : Complete(AtGyro(i))}
                          accels == {j \in DOMAIN accel : Complete(AtAccel(j))}
                      IN  /\ Len(events) = Cardinality(gyros) + Cardinality(accels)
                          /\ RangeOf(events) = {AtGyro(i) : i \in gyros}
                                               \cup {AtAccel(j) : j \in accels}
                          /\ \A j, k \in DOMAIN events :
                               j <= k => events[j].stamp <= events[k].stamp
    BY DEF MergeComputesEvents
  <2>1. 1 .. gyro_idx = DOMAIN gyro /\ 1 .. accel_idx = DOMAIN accel
    BY LoopFacts DEF Finished
  <2>2. /\ GyrosTaken = {i \in DOMAIN gyro : Complete(AtGyro(i))}
        /\ AccelsTaken = {j \in DOMAIN accel : Complete(AtAccel(j))}
    BY <2>1 DEF GyrosTaken, AccelsTaken
  <2>3. \A j, k \in DOMAIN events : j <= k => events[j].stamp <= events[k].stamp
    BY DEF PropagationInv, EventsInv
  <2>4. QED
    BY <2>2, <2>3 DEF MergeInv
<1>4. QED
  BY <1>1, <1>2, <1>3, PropagationInvariant, PTL DEF Spec
=============================================================================
