------------------------------ MODULE IMUBuffer ------------------------------
(***************************************************************************)
(* The IMU window buffer of the frontend (li_slam/imu_buffer.py) together  *)
(* with the one client it has, the image callback of d455_interface_node,  *)
(* which extracts one window per image between the previous image's stamp  *)
(* and its own.                                                            *)
(*                                                                         *)
(* Each deque is modelled as the suffix log[s][head[s] ..] of everything   *)
(* ever appended to it, so a sample is named by its arrival index and can  *)
(* be followed after it left the deque.  fate, late and bootTime are       *)
(* history variables: no action reads them.                                *)
(***************************************************************************)
EXTENDS Integers, Sequences, FiniteSetsExt

CONSTANTS
  Stream,      \* the buffered topics: gyro and accel
  MaxBuffer,   \* IMUBuffer._max_buffer_seconds, in ticks of the stamps
  Stamp,       \* the stamps sensors may carry
  MaxSamples,  \* bound: samples appended per stream
  None         \* Python's None

ASSUME BufferAssumption ==
  /\ MaxBuffer \in Nat
  /\ MaxSamples \in Nat
  /\ Stamp \subseteq Int
  /\ None \notin Int

VARIABLES
  log,        \* log[s]: the stamp of every sample appended to s, by arrival
  head,       \* head[s]: arrival index at the left end of the deque of s
  prevImage,  \* D455Interface._prev_image_time
  tracking,   \* whether _prev_gray is set: an image has been bootstrapped
  fate,       \* fate[s][i]: what became of sample i of stream s
  late,       \* late[s]: samples stamped inside a window already extracted
  bootTime    \* stamp of the latest bootstrap image

vars == <<log, head, prevImage, tracking, fate, late, bootTime>>

Fate == {"held", "handed", "duplicated", "skipped", "expired", "cleared"}

-----------------------------------------------------------------------------
(* The deque of stream s is log[s][head[s]] .. log[s][Len(log[s])].        *)

Retained(s) == head[s] .. Len(log[s])

(* bisect_right(timestamps, t) on the deque of s: the arrival index of the *)
(* first retained sample stamped after t, one past the end if none is.     *)
FirstAfter(s, t) ==
  Min({i \in head[s] .. Len(log[s]) + 1 :
         i <= Len(log[s]) => log[s][i] > t})

(* Mutated form of TrimmedHead: the cap is not subtracted.                 *)
TrimmedHeadWithoutCap(s, newLog, t) ==
  Min({i \in head[s] .. Len(newLog) + 1 :
         i <= Len(newLog) => newLog[i] >= t})

(* _trim, run on the log an append just produced: the first retained       *)
(* sample that is not older than the newest one by more than MaxBuffer.    *)
TrimmedHead(s, newLog, t) ==
  Min({i \in head[s] .. Len(newLog) + 1 :
         i <= Len(newLog) => newLog[i] >= t - MaxBuffer})

(* Samples leave the deque for the given reason unless already handed out. *)
Dropped(s, f, newHead, reason) ==
  [i \in DOMAIN f |->
     IF i \in head[s] .. newHead - 1 /\ f[i] = "held" THEN reason ELSE f[i]]

(* Samples are handed to the caller.                                       *)
Handed(f, window) ==
  [i \in DOMAIN f |->
     IF i \notin window THEN f[i]
     ELSE IF f[i] = "held" THEN "handed" ELSE "duplicated"]

-----------------------------------------------------------------------------
Init ==
  /\ log = [s \in Stream |-> << >>]
  /\ head = [s \in Stream |-> 1]
  /\ prevImage = None
  /\ tracking = FALSE
  /\ fate = [s \in Stream |-> << >>]
  /\ late = [s \in Stream |-> {}]
  /\ bootTime = None

(* add_gyro / add_accel: append on the right, then trim on the left.  The  *)
(* driver delivers each topic in stamp order, as the buffer's comments     *)
(* rely on.                                                                *)
Add(s, t) ==
  /\ Len(log[s]) < MaxSamples
  /\ log[s] # << >> => log[s][Len(log[s])] <= t
  /\ LET newLog  == Append(log[s], t)
         newHead == TrimmedHead(s, newLog, t)
     IN  /\ log' = [log EXCEPT ![s] = newLog]
         /\ head' = [head EXCEPT ![s] = newHead]
         /\ fate' = [fate EXCEPT ![s] =
                       Dropped(s, Append(@, "held"), newHead, "expired")]
         /\ late' = IF tracking /\ t <= prevImage
                    THEN [late EXCEPT ![s] = @ \cup {Len(newLog)}]
                    ELSE late
  /\ UNCHANGED <<prevImage, tracking, bootTime>>

(* Mutated form of Bootstrap: the image's stamp is not remembered.         *)
BootstrapForgetsStamp(t, detected) ==
  /\ ~tracking
  /\ tracking' = detected
  /\ bootTime' = t
  /\ UNCHANGED <<log, head, prevImage, fate, late>>

(* An image that arrives before any has been bootstrapped: detection may   *)
(* find nothing, and then the next image bootstraps again.  No window is   *)
(* extracted either way.                                                   *)
Bootstrap(t, detected) ==
  /\ ~tracking
  /\ tracking' = detected
  /\ prevImage' = t
  /\ bootTime' = t
  /\ UNCHANGED <<log, head, fate, late>>

(* Mutated form of ExtractWindow: both ends of the window are closed.      *)
ExtractWindowClosed(t) ==
  /\ tracking
  /\ LET lo(s) == FirstAfter(s, prevImage - 1)
         hi(s) == FirstAfter(s, t)
     IN  /\ fate' = [s \in Stream |->
                       Dropped(s, Handed(fate[s], lo(s) .. hi(s) - 1),
                               lo(s), "skipped")]
         /\ head' = [s \in Stream |-> lo(s)]
  /\ prevImage' = t
  /\ UNCHANGED <<log, tracking, late, bootTime>>

(* Mutated form of ExtractWindow: samples after the window are not left in *)
(* place but dropped with it.                                              *)
ExtractWindowEmptiesDeque(t) ==
  /\ tracking
  /\ LET lo(s) == FirstAfter(s, prevImage)
         hi(s) == FirstAfter(s, t)
     IN  fate' = [s \in Stream |->
                    Dropped(s, Handed(fate[s], lo(s) .. hi(s) - 1),
                            Len(log[s]) + 1, "skipped")]
  /\ head' = [s \in Stream |-> Len(log[s]) + 1]
  /\ prevImage' = t
  /\ UNCHANGED <<log, tracking, late, bootTime>>

(* Mutated form of ExtractWindow: lo and hi index the deque after it was   *)
(* trimmed on the left, not before.                                        *)
ExtractWindowTrimsFirst(t) ==
  /\ tracking
  /\ LET lo(s) == FirstAfter(s, prevImage)
         hi(s) == FirstAfter(s, t)
         shift(s) == lo(s) - head[s]
         window(s) == lo(s) + shift(s) .. Min({hi(s) + shift(s), Len(log[s]) + 1}) - 1
     IN  /\ fate' = [s \in Stream |->
                       Dropped(s, Handed(fate[s], window(s)), lo(s), "skipped")]
         /\ head' = [s \in Stream |-> lo(s)]
  /\ prevImage' = t
  /\ UNCHANGED <<log, tracking, late, bootTime>>

(* extract_window(prev_image_time, t) for both streams, then the callback  *)
(* moves prev_image_time to t.                                             *)
ExtractWindow(t) ==
  /\ tracking
  /\ LET lo(s) == FirstAfter(s, prevImage)
         hi(s) == FirstAfter(s, t)
     IN  /\ fate' = [s \in Stream |->
                       Dropped(s, Handed(fate[s], lo(s) .. hi(s) - 1),
                               lo(s), "skipped")]
         /\ head' = [s \in Stream |-> lo(s)]
  /\ prevImage' = t
  /\ UNCHANGED <<log, tracking, late, bootTime>>

(* clear: part of the buffer's interface, not called by the node.          *)
Clear ==
  /\ head' = [s \in Stream |-> Len(log[s]) + 1]
  /\ fate' = [s \in Stream |->
                Dropped(s, fate[s], Len(log[s]) + 1, "cleared")]
  /\ UNCHANGED <<log, prevImage, tracking, late, bootTime>>

Next ==
  \/ \E s \in Stream, t \in Stamp : Add(s, t)
  \/ \E t \in Stamp, detected \in BOOLEAN : Bootstrap(t, detected)
  \/ \E t \in Stamp : ExtractWindow(t)
  \/ Clear

Spec == Init /\ [][Next]_vars

-----------------------------------------------------------------------------
(* Every variable has its type.                                            *)
TypeOK ==
  /\ log \in [Stream -> Seq(Stamp)]
  /\ head \in [Stream -> Nat \ {0}]
  /\ prevImage \in Stamp \cup {None}
  /\ tracking \in BOOLEAN
  /\ fate \in [Stream -> Seq(Fate)]
  /\ late \in [Stream -> SUBSET Nat]
  /\ bootTime \in Stamp \cup {None}
  /\ \A s \in Stream : /\ Len(fate[s]) = Len(log[s])
                       /\ head[s] <= Len(log[s]) + 1
  /\ tracking => prevImage # None /\ bootTime # None

(* No IMU sample is handed to the observer in two windows, although an     *)
(* extracted window stays in the deque until the next extraction, and      *)
(* whatever order the image stamps come in: integrating a sample twice     *)
(* would silently bend the trajectory.                                     *)
HandedAtMostOnce ==
  \A s \in Stream : \A i \in DOMAIN fate[s] : fate[s][i] # "duplicated"

(* extract_window discards a sample unseen only if the sample came in      *)
(* after its window had been extracted, or was stamped no later than the   *)
(* bootstrap image: a sample that is buffered in time is never skipped.    *)
OnlyLateSamplesSkipped ==
  \A s \in Stream : \A i \in DOMAIN fate[s] :
    fate[s][i] = "skipped" => i \in late[s] \/ log[s][i] <= bootTime

(* Across windows each stream is handed out in the order of its stamps: no *)
(* sample is still waiting once a later one has been handed out.           *)
HandedInOrder ==
  \A s \in Stream : \A i, j \in DOMAIN fate[s] :
    i < j /\ fate[s][j] = "handed" => fate[s][i] # "held"

(* A sample no image has covered yet is trimmed only when images have      *)
(* stalled: the stream runs more than MaxBuffer ahead of the last image.   *)
ExpiredOnlyWhenStalled ==
  [][\A s \in Stream : \A i \in DOMAIN fate[s] :
       /\ tracking
       /\ fate[s][i] = "held"
       /\ fate'[s][i] = "expired"
       => \/ log[s][i] <= prevImage
          \/ log'[s][Len(log'[s])] - prevImage > MaxBuffer]_vars

(* What a fate means to the caller.                                        *)
Outcome(f) ==
  CASE f = "held"       -> "waiting"
    [] f = "handed"     -> "delivered"
    [] f = "duplicated" -> "delivered twice"
    [] OTHER            -> "lost"

Delivery == INSTANCE SampleDelivery
  WITH status <- [s \in Stream |-> [i \in DOMAIN fate[s] |-> Outcome(fate[s][i])]]

(* The buffer implements at-most-once, in-order delivery whose losses are  *)
(* older than everything delivered later, on all streams at once.          *)
ImplementsDelivery == Delivery!Spec

-----------------------------------------------------------------------------
(* The inductive invariant behind the three delivery properties.           *)

(* Each stream was appended to in stamp order: bisection is meaningful.    *)
Sorted ==
  \A s \in Stream : \A i, j \in DOMAIN log[s] :
    i <= j => log[s][i] <= log[s][j]

(* What waits is in the deque; what the deque still holds was either never *)
(* handed out or lies at or before the last image, where the next          *)
(* extraction starts.                                                      *)
DequeHoldsWaiting ==
  \A s \in Stream : \A i \in DOMAIN log[s] :
    /\ fate[s][i] = "held" => i >= head[s]
    /\ i >= head[s] =>
         \/ fate[s][i] = "held"
         \/ fate[s][i] = "handed" /\ tracking /\ log[s][i] <= prevImage

(* A waiting sample that came in time is stamped after the last image,     *)
(* unless it predates the bootstrap image.                                 *)
WaitingIsAhead ==
  tracking =>
    \A s \in Stream : \A i \in DOMAIN log[s] :
      fate[s][i] = "held" /\ i \notin late[s]
        => log[s][i] > prevImage \/ log[s][i] <= bootTime

(* No window is extracted before an image has been bootstrapped.           *)
NothingExtractedYet ==
  ~tracking =>
    \A s \in Stream : \A i \in DOMAIN fate[s] :
      fate[s][i] \notin {"handed", "skipped"}

DeliveryInv ==
  /\ TypeOK
  /\ Sorted
  /\ NothingExtractedYet
  /\ DequeHoldsWaiting
  /\ WaitingIsAhead
  /\ HandedAtMostOnce
  /\ OnlyLateSamplesSkipped
  /\ HandedInOrder
=============================================================================
