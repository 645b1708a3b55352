----------------------------- MODULE Propagation -----------------------------
(***************************************************************************)
(* Propagator.propagate once the propagator is initialised, image after    *)
(* image: the windows of the two sensors are merged by the loop of         *)
(* _build_timeline, step by step, and the time between consecutive events  *)
(* is integrated.  A sample is represented by its stamp and an instant     *)
(* stands for the tick of time that follows it.  Images may carry any      *)
(* stamp, as for IMUBuffer: a window starts where the last image was and   *)
(* is empty when the image is not newer than that.                         *)
(***************************************************************************)
EXTENDS Integers, Sequences, FiniteSets

CONSTANTS
  Horizon,     \* bound: the latest stamp
  MaxSamples,  \* bound: samples of one sensor in a window
  MaxFrames,   \* bound: images processed
  None         \* Python's None

ASSUME PropagationAssumption ==
  /\ Horizon \in Nat
  /\ MaxSamples \in Nat
  /\ MaxFrames \in Nat
  /\ None \notin Nat

VARIABLES
  image,         \* _prev_image_time: stamp of the last image processed
  frame,         \* how many images have been processed since the estimate
  merging,       \* whether _build_timeline is running
  gyro, accel,   \* the windows being merged: gyro_samples, accel_samples
  gyro_idx, accel_idx,
  latest_gyro,   \* the sample held of either sensor, or None
  latest_accel,
  events,        \* the list being built
  integrated,    \* records [at, gyro, accel, frame]: the instant at was
                 \* integrated for an image with these samples held
  heard          \* heard.gyro, heard.accel: every sample handed over so far,
                 \* [stamp, frame, after]: for which image, and where its
                 \* window started

loopVars == <<gyro, accel, gyro_idx, accel_idx, latest_gyro, latest_accel, events>>
vars == <<image, frame, merging, gyro, accel, gyro_idx, accel_idx,
          latest_gyro, latest_accel, events, integrated, heard>>

(* Mutated form of Window: what was handed over stays in the deque.        *)
WindowHandsAgain(lo, hi, handed) ==
  {w \in UNION {[1 .. k -> lo + 1 .. hi] : k \in 0 .. MaxSamples} :
     \A i, j \in DOMAIN w : i <= j => w[i] <= w[j]}

(* What IMUBuffer may extract of a sensor: in the order of the stamps,     *)
(* from after lo up to hi, and, as a sample is handed over once and the    *)
(* sensor's topic is in order, none older than one handed over before.  It *)
(* may still be older than the other sensor's, or than an earlier image.   *)
Window(lo, hi, handed) ==
  {w \in UNION {[1 .. k -> lo + 1 .. hi] : k \in 0 .. MaxSamples} :
     /\ \A i, j \in DOMAIN w : i <= j => w[i] <= w[j]
     /\ \A s \in handed : \A i \in DOMAIN w : s.stamp <= w[i]}

RangeOf(window) == {window[i] : i \in DOMAIN window}

(* What _build_timeline starts with.                                       *)
Reset ==
  /\ gyro_idx' = 0 /\ accel_idx' = 0
  /\ latest_gyro' = None /\ latest_accel' = None
  /\ events' = << >>

Init ==
  /\ image \in 0 .. Horizon /\ frame = 0 /\ merging = FALSE
  /\ gyro = << >> /\ accel = << >>
  /\ gyro_idx = 0 /\ accel_idx = 0
  /\ latest_gyro = None /\ latest_accel = None
  /\ events = << >>
  /\ integrated = {}
  /\ heard = [gyro |-> {}, accel |-> {}]

(* A window's samples, for the records of what was heard.                  *)
HeardOf(window, lo) ==
  {[stamp |-> window[i], frame |-> frame + 1, after |-> lo] : i \in DOMAIN window}

(* propagate is called for the next image, with what came of both sensors  *)
(* since the last; it returns at once when either sent nothing.            *)
Begin(t) ==
  /\ ~merging
  /\ frame < MaxFrames
  /\ gyro' \in Window(image, t, heard.gyro)
  /\ accel' \in Window(image, t, heard.accel)
  /\ merging' = (gyro' # << >> /\ accel' # << >>)
  /\ Reset
  /\ image' = t
  /\ frame' = frame + 1
  /\ heard' = [gyro  |-> heard.gyro \cup HeardOf(gyro', image),
               accel |-> heard.accel \cup HeardOf(accel', image)]
  /\ UNCHANGED integrated

-----------------------------------------------------------------------------
Infinity == Horizon + 1

NextGyro == IF gyro_idx < Len(gyro) THEN gyro[gyro_idx + 1] ELSE Infinity
NextAccel == IF accel_idx < Len(accel) THEN accel[accel_idx + 1] ELSE Infinity

Finished == gyro_idx = Len(gyro) /\ accel_idx = Len(accel)

(* An event is appended once both sensors have a value.                    *)
AppendEvent(stamp, g, a) ==
  events' = IF g # None /\ a # None
            THEN Append(events, [stamp |-> stamp, gyro |-> g, accel |-> a])
            ELSE events

(* Mutated form of TakeGyro: the stamps are not compared.                  *)
TakeGyroFirst ==
  /\ merging /\ gyro_idx < Len(gyro)
  /\ gyro_idx' = gyro_idx + 1
  /\ latest_gyro' = gyro[gyro_idx + 1]
  /\ AppendEvent(gyro[gyro_idx + 1], gyro[gyro_idx + 1], latest_accel)
  /\ UNCHANGED <<image, frame, merging, gyro, accel, accel_idx, latest_accel,
                 integrated, heard>>

TakeGyro ==
  /\ merging /\ ~Finished
  /\ NextGyro <= NextAccel
  /\ gyro_idx' = gyro_idx + 1
  /\ latest_gyro' = NextGyro
  /\ AppendEvent(NextGyro, NextGyro, latest_accel)
  /\ UNCHANGED <<image, frame, merging, gyro, accel, accel_idx, latest_accel,
                 integrated, heard>>

(* Mutated form of TakeAccel: the event keeps the previous sample.         *)
TakeAccelStale ==
  /\ merging /\ ~Finished
  /\ NextGyro > NextAccel
  /\ accel_idx' = accel_idx + 1
  /\ latest_accel' = NextAccel
  /\ AppendEvent(NextAccel, latest_gyro, latest_accel)
  /\ UNCHANGED <<image, frame, merging, gyro, accel, gyro_idx, latest_gyro,
                 integrated, heard>>

TakeAccel ==
  /\ merging /\ ~Finished
  /\ NextGyro > NextAccel
  /\ accel_idx' = accel_idx + 1
  /\ latest_accel' = NextAccel
  /\ AppendEvent(NextAccel, latest_gyro, NextAccel)
  /\ UNCHANGED <<image, frame, merging, gyro, accel, gyro_idx, latest_gyro,
                 integrated, heard>>

(* Mutated form of Held: the samples of the later event are held.          *)
HeldBackwards(k) == events[k + 1]

(* What is held from the k-th event to the next: the samples of the former. *)
Held(k) == events[k]

(* The loop over zip(events[:-1], events[1:]), which skips steps without   *)
(* duration.                                                               *)
Integrate ==
  /\ merging /\ Finished
  /\ merging' = FALSE
  /\ integrated' = integrated \cup
       UNION {{[at |-> at, gyro |-> Held(k).gyro, accel |-> Held(k).accel,
                frame |-> frame] :
                 at \in events[k].stamp .. events[k + 1].stamp - 1} :
                k \in 1 .. Len(events) - 1}
  /\ UNCHANGED <<image, frame, loopVars, heard>>

Next ==
  \/ \E t \in 0 .. Horizon : Begin(t)
  \/ TakeGyro
  \/ TakeAccel
  \/ Integrate

Spec == Init /\ [][Next]_vars

-----------------------------------------------------------------------------
(* The events of a window without the loop: one per sample, a gyro sample  *)
(* first when stamps are equal, from the first on that both sensors have   *)
(* spoken.  before is what the other sensor said by then.                  *)
Latest(samples) ==
  IF samples = {} THEN None
  ELSE CHOOSE s \in samples : \A r \in samples : r <= s

AtGyro(i) ==
  [stamp |-> gyro[i], gyro |-> gyro[i],
   accel |-> Latest({s \in RangeOf(accel) : s < gyro[i]})]
AtAccel(j) ==
  [stamp |-> accel[j], accel |-> accel[j],
   gyro |-> Latest({s \in RangeOf(gyro) : s <= accel[j]})]

Complete(e) == e.gyro # None /\ e.accel # None

(* The merge loop ends with exactly one event per sample that both sensors *)
(* precede, in the order of the stamps and each with the samples that were *)
(* the latest by then.                                                     *)
MergeComputesEvents ==
  merging /\ Finished =>
    LET gyros  == {i \in DOMAIN gyro : Complete(AtGyro(i))}
        accels == {j \in DOMAIN accel : Complete(AtAccel(j))}
    IN  /\ Len(events) = Cardinality(gyros) + Cardinality(accels)
        /\ RangeOf(events) = {AtGyro(i) : i \in gyros} \cup {AtAccel(j) : j \in accels}
        /\ \A j, k \in DOMAIN events : j <= k => events[j].stamp <= events[k].stamp

(* Stamps never run backwards in the list, so that propagate skips no step *)
(* for a negative dt, and no event holds a sample from its own future.     *)
EventsAreCausal ==
  \A k \in DOMAIN events :
    /\ events[k].gyro <= events[k].stamp
    /\ events[k].accel <= events[k].stamp
    /\ k > 1 => events[k - 1].stamp <= events[k].stamp

(* No instant is integrated twice, in one window or in two, whatever the   *)
(* stamps of the images: after a step back the next window reaches over    *)
(* time that is integrated already, and late samples of it may be handed   *)
(* over, but of one sensor only.                                           *)
IntegratedOnce ==
  \A p, q \in integrated : p.at = q.at => p = q

(* The sample was handed over only for a later image, in a window that     *)
(* starts before the instant: the stamps of the images had stepped back    *)
(* and the sample had come too late for its own window.                    *)
LateAfterStepBack(s, p) == s.frame > p.frame /\ s.after < p.at

(* Every instant is integrated with the samples in force: of each sensor,  *)
(* the last one stamped before the instant of all that are ever handed     *)
(* over, whatever the two sensors' rates and whatever was lost (zero-order *)
(* hold); the one exception is a late sample handed over after the images  *)
(* stepped back.                                                           *)
HeldSamplesAreLatest ==
  \A p \in integrated :
    /\ p.gyro <= p.at
    /\ \A s \in heard.gyro :
         s.stamp <= p.at => s.stamp <= p.gyro \/ LateAfterStepBack(s, p)
    /\ p.accel <= p.at
    /\ \A s \in heard.accel :
         s.stamp <= p.at => s.stamp <= p.accel \/ LateAfterStepBack(s, p)

(* propagate says it moves the state "forward in time using the IMU        *)
(* samples from the frame measurement": between two instants integrated,   *)
(* with samples of both sensors throughout, no instant is left out.        *)
TimeIsIntegratedWithoutGaps ==
  \A p, q \in integrated :
    \A at \in p.at .. q.at :
      \/ \E r \in integrated : r.at = at
      \/ \A s \in heard.gyro : s.stamp # at
      \/ \A s \in heard.accel : s.stamp # at
=============================================================================
