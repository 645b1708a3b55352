---------------------------- MODULE BridgeThreads ---------------------------
(* The two threads of the bridge's process and what they share with the    *)
(* outside: paho's network thread, which runs on_mqtt_message to the end   *)
(* before it takes the next request, and the executor of rclpy.spin, which *)
(* runs one ROS callback at a time.  A request is known by its place in    *)
(* asked.  Where a handler's writes can be seen half done by the other     *)
(* thread, at says how far it has come.                                    *)
EXTENDS BridgeRequests, Naturals, Sequences

CONSTANTS
  MaxRequests,   \* bound: how many requests are published
  MaxFaults,     \* bound: how many faults happen
  Requests       \* what the n-th request published may be, for every n

Id == 1 .. MaxRequests

ASSUME BoundsAssumption == MaxRequests \in Nat /\ MaxFaults \in Nat
ASSUME RequestsAssumption == Requests \in [Id -> SUBSET Request]

\* A request that names a camera names one of Camera.
ASSUME CameraAssumption ==
  \A r \in Request : r.fields # None /\ InCamera \subseteq r.fields => r.cam \in Camera

VARIABLES
  asked,       \* the requests published so far, in order
  inbox,       \* those delivered to the bridge and not taken up yet
  connected,   \* whether the bridge is connected to the broker
  up,          \* the cameras whose node is running
  faults,      \* how many faults have happened, up to MaxFaults
  mqtt,        \* paho's thread: where it is, and for which request
  executor,    \* the executor thread, likewise
  replies,     \* the messages published about requests, in order
  unanswered   \* history: the requests dropped without a reply of their own

threadVars == <<asked, inbox, connected, up, faults, mqtt, executor, replies, unanswered>>

MqttPoint == {"idle", "waiting", "storing", "sending", "dead"}
ExecutorPoint == {"idle", "resetting", "publishing", "destroying", "clearing", "exited"}

Message == [req : Id, final : BOOLEAN, success : BOOLEAN \cup {None}, progress : 0 .. 100]

ThreadsTypeOK ==
  /\ asked \in Seq(Request) /\ Len(asked) <= MaxRequests
  /\ inbox \in Seq(Id)
  /\ connected \in BOOLEAN
  /\ up \subseteq Camera
  /\ faults \in 0 .. MaxFaults
  /\ mqtt \in [at : MqttPoint, req : Id \cup {None}]
  /\ executor \in [at : ExecutorPoint, req : Id \cup {None}]
  /\ replies \in Seq(Message)
  /\ unanswered \subseteq Id

ThreadsInit ==
  /\ asked = << >> /\ inbox = << >> /\ replies = << >>
  /\ connected = TRUE
  /\ up = Camera
  /\ faults = 0
  /\ mqtt = [at |-> "idle", req |-> None]
  /\ executor = [at |-> "idle", req |-> None]
  /\ unanswered = {}

\* An exception of a ROS callback leaves rclpy.spin, and the process ends.
Running == executor.at # "exited"

MqttGoes(at, id) == mqtt' = [at |-> at, req |-> id]
MqttIdle == MqttGoes("idle", None)
ExecutorGoes(at, id) == executor' = [at |-> at, req |-> id]
ExecutorIdle == ExecutorGoes("idle", None)

Reply(id, final, success, progress) ==
  replies' = Append(replies, [req |-> id, final |-> final,
                              success |-> success, progress |-> progress])
Answer(id, success) == Reply(id, TRUE, success, 0)
Drop(id) == unanswered' = unanswered \cup {id}

\* paho's thread takes the next request up; the handler's action completes
\* the step.
Take(id) ==
  /\ Running /\ mqtt.at = "idle" /\ inbox # << >>
  /\ id = Head(inbox)
  /\ inbox' = Tail(inbox)
  /\ UNCHANGED <<asked, connected, up, faults, executor>>

Handle(id, topic) ==
  /\ Take(id)
  /\ asked[id].topic = topic
  /\ asked[id].fields # None /\ Accepted(asked[id])

\* The step of a callback that the executor starts, and of one it continues.
Starts == executor.at = "idle" /\ UNCHANGED <<asked, inbox, connected, up, faults, mqtt>>
Continues(at, id) ==
  /\ executor = [at |-> at, req |-> id]
  /\ UNCHANGED <<asked, inbox, connected, up, faults, mqtt>>

\* A later step of a handler of paho's thread.
Proceeds(at, id) ==
  /\ Running /\ mqtt = [at |-> at, req |-> id]
  /\ UNCHANGED <<asked, inbox, connected, up, faults, executor>>

\* The final replies to a request published so far.
Final(id) == {i \in DOMAIN replies : replies[i].req = id /\ replies[i].final}
=============================================================================
