--------------------------- MODULE SampleDelivery ---------------------------
(***************************************************************************)
(* What the IMU window buffer promises its caller, with no stamp and no    *)
(* deque in sight: every received sample waits, and then either is         *)
(* delivered, once, or is lost; both are final.  Each stream is consumed   *)
(* from its oldest waiting sample on, so what is lost is older than what   *)
(* is delivered and what is delivered is older than what still waits.      *)
(***************************************************************************)
EXTENDS Naturals, Sequences

CONSTANT Stream

VARIABLE status  \* status[s][i]: what became of the i-th sample of stream s

(* The waiting samples of a stream that came before the lost-th are lost,  *)
(* those from there up to the delivered-th are delivered.                  *)
Consumed(stream, lost, delivered) ==
  [i \in DOMAIN stream |->
     IF stream[i] # "waiting" \/ (i >= lost /\ i >= delivered) THEN stream[i]
     ELSE IF i < lost THEN "lost" ELSE "delivered"]

Init == status = [s \in Stream |-> << >>]

(* A sample arrives; the oldest waiting ones may have to make room.        *)
Receive(s) ==
  \E lost \in 1 .. Len(status[s]) + 1 :
    status' = [status EXCEPT ![s] = Consumed(Append(@, "waiting"), lost, lost)]

(* Every stream is consumed up to a point of its own.                      *)
Deliver ==
  /\ DOMAIN status' = Stream
  /\ \A s \in Stream :
       \E lost, delivered \in 1 .. Len(status[s]) + 1 :
         status'[s] = Consumed(status[s], lost, delivered)

Next ==
  \/ \E s \in Stream : Receive(s)
  \/ Deliver

Spec == Init /\ [][Next]_status
=============================================================================
