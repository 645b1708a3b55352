--------------------------- MODULE MqttBridgeProofs ---------------------------
(* Theorems about the ROS-MQTT bridge, for any requests, cameras, bounds   *)
(* and feedback: the two threads and what they share, and the parameters   *)
(* it sets; and, last, about its example client's program.                 *)
EXTENDS DemoClient, FiniteSetTheorems, SequenceTheorems, TLAPS

(* Sequences.                                                              *)
-----------------------------------------------------------------------------

LEMMA ElementOf ==
  ASSUME NEW S, NEW s \in Seq(S), NEW i \in DOMAIN s
  PROVE  s[i] \in S
PROOF
  OBVIOUS

LEMMA HeadAndTail ==
  ASSUME NEW S, NEW s \in Seq(S), s # << >>
  PROVE  /\ Head(s) \in S /\ Tail(s) \in Seq(S)
         /\ DOMAIN s = 1 .. Len(s) /\ Len(s) \in Nat /\ Len(s) # 0
         /\ Head(s) = s[1]
         /\ DOMAIN Tail(s) = 1 .. (Len(s) - 1)
         /\ \A i \in 1 .. (Len(s) - 1) : Tail(s)[i] = s[i + 1]
PROOF
  OBVIOUS

LEMMA Appended ==
  ASSUME NEW S, NEW s \in Seq(S), NEW e \in S
  PROVE  /\ Append(s, e) \in Seq(S)
         /\ Len(s) \in Nat /\ Len(Append(s, e)) = Len(s) + 1
         /\ DOMAIN s = 1 .. Len(s) /\ DOMAIN Append(s, e) = 1 .. (Len(s) + 1)
         /\ \A i \in 1 .. Len(s) : Append(s, e)[i] = s[i]
         /\ Append(s, e)[Len(s) + 1] = e
PROOF
  OBVIOUS

(* Type correctness.                                                       *)
-----------------------------------------------------------------------------

LEMMA IdsAreNaturals == Id \subseteq Nat \ {0} /\ None \notin Id
PROOF
  BY BoundsAssumption, AbsentAssumption DEF Id

LEMMA TakeTypes ==
  ASSUME TypeOK, NEW id \in Id, Take(id)
  PROVE  /\ inbox' \in Seq(Id)
         /\ UNCHANGED <<asked, connected, up, faults, executor>>
PROOF
  BY HeadAndTail DEF Take, TypeOK, ThreadsTypeOK

LEMMA GoesTypes ==
  ASSUME NEW id \in Id \cup {None}, NEW point
  PROVE  /\ point \in MqttPoint /\ MqttGoes(point, id) =>
              mqtt' \in [at : MqttPoint, req : Id \cup {None}]
         /\ point \in ExecutorPoint /\ ExecutorGoes(point, id) =>
              executor' \in [at : ExecutorPoint, req : Id \cup {None}]
PROOF
  BY DEF MqttGoes, ExecutorGoes

Goal == [at : GoalStage, progress : 0 .. 100]

LEMMA Staging ==
  ASSUME goals \in [Id -> Goal], NEW id \in Id, NEW stage \in GoalStage, Stage(id, stage)
  PROVE  /\ goals' \in [Id -> Goal]
         /\ goals'[id].at = stage
         /\ \A g \in Id : g # id => goals'[g] = goals[g]
PROOF
<1>1. goals' = [goals EXCEPT ![id] = [goals[id] EXCEPT !.at = stage]]
  BY DEF Stage
<1>2. [goals[id] EXCEPT !.at = stage] \in Goal /\ [goals[id] EXCEPT !.at = stage].at = stage
  <2>1. goals[id] \in Goal
    OBVIOUS
  <2> QED
    BY <2>1 DEF Goal
<1> QED
  BY <1>1, <1>2

LEMMA Progressing ==
  ASSUME goals \in [Id -> Goal], NEW id \in Id, NEW p \in Progress,
         goals' = [goals EXCEPT ![id].progress = p]
  PROVE  /\ goals' \in [Id -> Goal]
         /\ \A g \in Id : goals'[g].at = goals[g].at
PROOF
<1>1. goals' = [goals EXCEPT ![id] = [goals[id] EXCEPT !.progress = p]]
  OBVIOUS
<1>2. /\ [goals[id] EXCEPT !.progress = p] \in Goal
      /\ [goals[id] EXCEPT !.progress = p].at = goals[id].at
  <2>1. goals[id] \in Goal /\ p \in 0 .. 100
    BY ProgressAssumption
  <2> QED
    BY <2>1 DEF Goal
<1> QED
  BY <1>1, <1>2

(* A request that is handled has a camera when its topic needs one.        *)
LEMMA HandledNamesCamera ==
  ASSUME TypeOK, NEW id \in Id, id <= Len(asked),
         NEW topic \in {"get_frame_request", "triggered_calibration_request"},
         Handle(id, topic)
  PROVE  asked[id].cam \in Camera
PROOF
<1>1. asked[id] \in Request
  BY IdsAreNaturals DEF TypeOK, ThreadsTypeOK
<1>2. InCamera \subseteq asked[id].fields /\ asked[id].fields # None
  BY DEF Handle, Accepted, Required
<1> QED
  BY <1>1, <1>2, CameraAssumption

(* What the thirteen handlers that call a service have in common.          *)
ServiceHandling(id) ==
  /\ Take(id)
  /\ asked[id].topic \notin NoService
  /\ UNCHANGED <<replies, served>>
  /\ \/ Drop(id) /\ UNCHANGED <<mqtt, call>>
     \/ Drop(id) /\ MqttGoes("dead", id) /\ UNCHANGED call
     \/ /\ MqttGoes("waiting", id)
        /\ call' = [at |-> "sent", outcome |-> "failure"]
        /\ UNCHANGED unanswered

LEMMA ServiceHandlers ==
  ASSUME NEW id, HandleService(id)
  PROVE  ServiceHandling(id)
PROOF
<1>1. ASSUME NEW topic, topic \notin NoService, Handle(id, topic), NEW fits, CallService(id, fits)
      PROVE  ServiceHandling(id)
  BY <1>1 DEF ServiceHandling, Handle, CallService, ServiceMissing, CallRaises, CallAsync,
              NoCall, serviceVars
<1>2. ASSUME SetParam(id)
      PROVE  ServiceHandling(id)
  <2>1. "set_param_request" \notin NoService /\ Handle(id, "set_param_request")
    BY <1>2 DEF NoService, SetParam
  <2>2. CASE CallService(id, Converts(asked[id]))
    BY <1>1, <2>1, <2>2
  <2>3. CASE ~CallService(id, Converts(asked[id]))
    BY <1>2, <2>1, <2>3 DEF SetParam, ServiceHandling, Handle, serviceVars
  <2> QED
    BY <2>2, <2>3
<1>3. CASE \/ GetDeviceInfo(id) \/ SendHwReset(id) \/ SendHwmCommand(id)
           \/ GetSafetyPreset(id) \/ SetSafetyPreset(id)
  BY <1>1, <1>3 DEF GetDeviceInfo, SendHwReset, SendHwmCommand, GetSafetyPreset,
                    SetSafetyPreset, NoService
<1>4. CASE \/ GetSafetyInterfaceConfig(id) \/ SetSafetyInterfaceConfig(id)
           \/ GetCalibConfig(id) \/ SetCalibConfig(id)
  BY <1>1, <1>4 DEF GetSafetyInterfaceConfig, SetSafetyInterfaceConfig, GetCalibConfig,
                    SetCalibConfig, NoService
<1>5. CASE GetApplicationConfig(id) \/ SetApplicationConfig(id) \/ GetParam(id)
  BY <1>1, <1>5 DEF GetApplicationConfig, SetApplicationConfig, GetParam, NoService
<1> QED
  BY <1>2, <1>3, <1>4, <1>5 DEF HandleService

(* The queue of requests, and what both threads are at.                    *)
-----------------------------------------------------------------------------

\* The requests delivered and not taken up.
Pending == {inbox[i] : i \in DOMAIN inbox}

\* They are taken up in the order they were asked, and nothing is said
\* about a request before it is.
ThreadInv ==
  /\ \A i \in DOMAIN inbox : inbox[i] <= Len(asked)
  /\ \A i, j \in DOMAIN inbox : i < j => inbox[i] < inbox[j]
  /\ mqtt.at # "idle" =>
       /\ mqtt.req \in Id /\ mqtt.req <= Len(asked)
       /\ \A id \in Pending : mqtt.req < id
  /\ executor.at # "idle" => executor.req \in Id /\ executor.req <= Len(asked)
  /\ \A i \in DOMAIN replies :
       replies[i].req <= Len(asked) /\ replies[i].req \notin Pending

LEMMA Taking ==
  ASSUME TypeOK, ThreadInv, NEW id \in Id, Take(id)
  PROVE  /\ id \in Pending /\ id <= Len(asked)
         /\ Pending' = Pending \ {id}
         /\ \A other \in Pending' : id < other
         /\ inbox' \in Seq(Id)
         /\ \A i \in DOMAIN inbox' : inbox'[i] <= Len(asked)
         /\ \A i, j \in DOMAIN inbox' : i < j => inbox'[i] < inbox'[j]
PROOF
<1>1. inbox \in Seq(Id) /\ inbox # << >> /\ inbox' = Tail(inbox) /\ id = Head(inbox)
  BY DEF Take, TypeOK, ThreadsTypeOK
<1>2. /\ DOMAIN inbox = 1 .. Len(inbox) /\ Len(inbox) \in Nat /\ Len(inbox) # 0
      /\ id = inbox[1] /\ inbox' \in Seq(Id)
      /\ DOMAIN inbox' = 1 .. (Len(inbox) - 1)
      /\ \A i \in 1 .. (Len(inbox) - 1) : inbox'[i] = inbox[i + 1]
  BY <1>1, HeadAndTail
<1>3. /\ \A i \in DOMAIN inbox' : i \in Nat /\ i + 1 \in DOMAIN inbox /\ inbox'[i] = inbox[i + 1]
      /\ 1 \in DOMAIN inbox
      /\ \A i \in DOMAIN inbox : i \in Nat
      /\ \A i \in DOMAIN inbox : i # 1 => \E k \in DOMAIN inbox' : inbox'[k] = inbox[i]
  <2>1. \A i \in DOMAIN inbox' : i \in Nat /\ i + 1 \in DOMAIN inbox /\ inbox'[i] = inbox[i + 1]
    BY <1>2
  <2>2. 1 \in DOMAIN inbox /\ \A i \in DOMAIN inbox : i \in Nat
    BY <1>2
  <2>3. ASSUME NEW i \in DOMAIN inbox, i # 1
        PROVE  \E k \in DOMAIN inbox' : inbox'[k] = inbox[i]
    <3>1. i - 1 \in 1 .. (Len(inbox) - 1) /\ (i - 1) + 1 = i
      BY <1>2, <2>3
    <3> QED
      BY <1>2, <3>1
  <2> QED
    BY <2>1, <2>2, <2>3
<1>4. /\ \A i \in DOMAIN inbox : i \in Nat /\ inbox[i] \in Nat /\ inbox[i] \in Id
      /\ \A i \in DOMAIN inbox : i # 1 => inbox[1] < inbox[i]
  <2>1. \A i \in DOMAIN inbox : inbox[i] \in Id
    BY <1>1
  <2>2. \A i \in DOMAIN inbox : i # 1 => 1 < i
    BY <1>2
  <2> QED
    BY <1>3, <2>1, <2>2, IdsAreNaturals DEF ThreadInv
<1>5. \A i \in DOMAIN inbox' : inbox'[i] \in Pending /\ inbox'[i] # id /\ id < inbox'[i]
  BY <1>2, <1>3, <1>4 DEF Pending
<1>6. Pending' = Pending \ {id}
  <2>1. \A x \in Pending' : x \in Pending \ {id}
    BY <1>5 DEF Pending
  <2>2. ASSUME NEW x \in Pending \ {id}
        PROVE  x \in Pending'
    <3>1. PICK i \in DOMAIN inbox : x = inbox[i] /\ i # 1
      BY <1>2 DEF Pending
    <3> QED
      BY <1>3, <3>1 DEF Pending
  <2> QED
    BY <2>1, <2>2
<1>7. \A i, j \in DOMAIN inbox' : i < j => inbox'[i] < inbox'[j]
  BY <1>3, <1>4 DEF ThreadInv
<1>8. id \in Pending /\ id <= Len(asked)
  BY <1>2, <1>3 DEF Pending, ThreadInv
<1>9. \A i \in DOMAIN inbox' : inbox'[i] <= Len(asked)
  BY <1>3 DEF ThreadInv
<1>10. \A other \in Pending' : id < other
  BY <1>5 DEF Pending
<1> QED
  BY <1>2, <1>6, <1>7, <1>8, <1>9, <1>10

(* What a message adds.                                                    *)
MessageOf(id, final, success, progress) ==
  [req |-> id, final |-> final, success |-> success, progress |-> progress]

LEMMA MessageTyped ==
  ASSUME NEW id \in Id, NEW final \in BOOLEAN,
         NEW success \in BOOLEAN \cup {None}, NEW progress \in 0 .. 100
  PROVE  MessageOf(id, final, success, progress) \in Message
PROOF
  BY DEF MessageOf, Message

LEMMA Saying ==
  ASSUME TypeOK, NEW id \in Id, NEW final \in BOOLEAN,
         NEW success \in BOOLEAN \cup {None}, NEW progress \in 0 .. 100,
         Reply(id, final, success, progress)
  PROVE  /\ replies' \in Seq(Message)
         /\ DOMAIN replies = 1 .. Len(replies) /\ Len(replies) \in Nat
         /\ DOMAIN replies' = 1 .. (Len(replies) + 1)
         /\ \A i \in DOMAIN replies : replies'[i] = replies[i]
         /\ replies'[Len(replies) + 1] =
              MessageOf(id, final, success, progress)
PROOF
<1>1. MessageOf(id, final, success, progress) \in Message
  BY MessageTyped
<1>2. replies' = Append(replies, MessageOf(id, final, success, progress))
  BY DEF Reply, MessageOf
<1>3. replies \in Seq(Message)
  BY DEF TypeOK, ThreadsTypeOK
<1> QED
  BY <1>1, <1>2, <1>3, Appended

\* A step says at most one thing, and about a request that was taken up.
SaysAbout(id) ==
  \/ UNCHANGED replies
  \/ \E final \in BOOLEAN, success \in BOOLEAN \cup {None}, progress \in 0 .. 100 :
       Reply(id, final, success, progress)

LEMMA Said ==
  ASSUME TypeOK, NEW id \in Id, SaysAbout(id)
  PROVE  /\ replies' \in Seq(Message)
         /\ DOMAIN replies \subseteq DOMAIN replies'
         /\ \A i \in DOMAIN replies : replies'[i] = replies[i]
         /\ \A i \in DOMAIN replies' : i \in DOMAIN replies \/ replies'[i].req = id
PROOF
<1>1. CASE UNCHANGED replies
  BY <1>1 DEF TypeOK, ThreadsTypeOK
<1>2. ASSUME NEW final \in BOOLEAN, NEW success \in BOOLEAN \cup {None},
             NEW progress \in 0 .. 100, Reply(id, final, success, progress)
      PROVE  /\ replies' \in Seq(Message)
             /\ DOMAIN replies \subseteq DOMAIN replies'
             /\ \A i \in DOMAIN replies : replies'[i] = replies[i]
             /\ \A i \in DOMAIN replies' : i \in DOMAIN replies \/ replies'[i].req = id
  <2>1. /\ replies' \in Seq(Message)
        /\ DOMAIN replies = 1 .. Len(replies) /\ Len(replies) \in Nat
        /\ DOMAIN replies' = 1 .. (Len(replies) + 1)
        /\ \A i \in DOMAIN replies : replies'[i] = replies[i]
        /\ replies'[Len(replies) + 1] =
             MessageOf(id, final, success, progress)
    BY <1>2, Saying
  <2>2. \A i \in DOMAIN replies' : i \in DOMAIN replies \/ i = Len(replies) + 1
    BY <2>1
  <2>3. DOMAIN replies \subseteq DOMAIN replies'
    BY <2>1
  <2>4. MessageOf(id, final, success, progress).req = id
    BY DEF MessageOf
  <2> QED
    BY <2>1, <2>2, <2>3, <2>4
<1> QED
  BY <1>1, <1>2 DEF SaysAbout

(* The inductive invariant.                                                *)
-----------------------------------------------------------------------------

\* Request id has been taken up by its handler, and names a camera.
Serving(id, topic) ==
  /\ id \in Id /\ id <= Len(asked) /\ id \notin Pending
  /\ asked[id].topic = topic
  /\ CameraOf(id) \in Camera

FrameRequest(id) ==
  /\ Serving(id, "get_frame_request") /\ asked[id].arg \in SupportedStream
  /\ Final(id) = {}

\* Whoever is in the middle of a frame's handler holds a request that is
\* not answered yet; while paho's thread is about to store a handle, no
\* other frame of that topic is awaited.
FrameInv ==
  /\ FrameSlots
  /\ \A id \in subscriptions : FrameRequest(id)
  /\ mqtt.at = "storing" => mqtt.req \in subscriptions /\ ~Busy(ImageTopicOf(mqtt.req))
  /\ executor.at \in {"resetting", "publishing"} =>
       FrameRequest(executor.req) /\ executor.req \notin subscriptions
  /\ executor.at = "resetting" => topic_handle[ImageTopicOf(executor.req)] = executor.req

\* The call under way is that of the request paho's thread waits for, which
\* comes after all that were served before it.
ServiceInv ==
  /\ ServedInOrder
  /\ \A k \in DOMAIN served :
       served[k].req <= Len(asked) /\ \A id \in Pending : served[k].req < id
  /\ call.at # "none" => mqtt.at = "waiting"
  /\ mqtt.at = "waiting" => asked[mqtt.req].topic \notin NoService /\ Final(mqtt.req) = {}
  /\ call.at = "sent" => \A k \in DOMAIN served : served[k].req < mqtt.req
  /\ call.at = "answered" => \E k \in DOMAIN served : served[k].req = mqtt.req

Calibrating(id) == Serving(id, "triggered_calibration_request")
GoalUnderWay(g) == goals[g].at \in {"sent", "tracked"}

KnownClients ==
  /\ \A id \in Id : id \in registered \/ goals[id].at # "none" => Calibrating(id)
  /\ \A c \in Camera : action_clients[c] # None =>
       Calibrating(action_clients[c]) /\ CameraOf(action_clients[c]) = c

UnansweredUnderWay == \A id \in Id : GoalUnderWay(id) => Final(id) = {}

\* Unless runs of its camera have overlapped, the client of the run whose
\* goal is about to be sent is in the slot, and no run is under way.
AboutToSend ==
  mqtt.at = "sending" =>
    /\ Calibrating(mqtt.req)
    /\ goals[mqtt.req].at = "none" /\ Final(mqtt.req) = {}
    /\ CameraOf(mqtt.req) \notin overlapped =>
         /\ action_clients[CameraOf(mqtt.req)] = mqtt.req
         /\ mqtt.req \in registered
         /\ ~RunUnderWay(CameraOf(mqtt.req))

\* Likewise that of the run the executor is cleaning up after, and no other
\* goal is under way.
CleaningUp ==
  executor.at \in {"destroying", "clearing"} =>
    /\ Calibrating(executor.req)
    /\ goals[executor.req].at = "done"
    /\ CameraOf(executor.req) \notin overlapped =>
         /\ action_clients[CameraOf(executor.req)] = executor.req
         /\ \A g \in Id : GoalUnderWay(g) => CameraOf(g) # CameraOf(executor.req)
         /\ executor.at = "clearing" => executor.req \notin registered

\* A stored handle is that of a goal that was sent, and a client whose goal
\* was not is that of the run whose goal paho's thread is about to send.
KnownHandles ==
  \A c \in Camera, g \in Id : goal_handles[c] = g => goals[g].at # "none"

NewClients ==
  \A g \in Id :
    g \in registered /\ goals[g].at = "none" =>
      mqtt = [at |-> "sending", req |-> g] \/ mqtt.at = "dead"

CalibrationInv ==
  /\ KnownClients
  /\ KnownHandles
  /\ NewClients
  /\ UnansweredUnderWay
  /\ AboutToSend
  /\ CleaningUp
  /\ CalibrationSlots
  /\ NothingAfterFinal

BridgeInv == TypeOK /\ ThreadInv /\ FrameInv /\ ServiceInv /\ CalibrationInv

(* A step of paho's thread, and one of the executor, as the other parts    *)
(* see it.                                                                 *)
-----------------------------------------------------------------------------

MqttStep(id) ==
  /\ \/ Take(id)
     \/ /\ mqtt.at # "idle" /\ mqtt.req = id
        /\ UNCHANGED <<asked, inbox, connected, up, faults, executor>>
  /\ \/ UNCHANGED mqtt
     \/ MqttIdle
     \/ \E point \in MqttPoint \ {"idle"} : MqttGoes(point, id)
  /\ SaysAbout(id)
  /\ UNCHANGED unanswered \/ Drop(id)

LEMMA Answering ==
  ASSUME NEW id, NEW success \in BOOLEAN \cup {None}, Answer(id, success)
  PROVE  SaysAbout(id)
PROOF
<1>1. TRUE \in BOOLEAN /\ 0 \in 0 .. 100
  OBVIOUS
<1> QED
  BY <1>1 DEF Answer, SaysAbout

LEMMA MqttSteps ==
  ASSUME TypeOK, NEW id \in Id, MqttThread(id)
  PROVE  MqttStep(id)
PROOF
<1> USE DEF MqttPoint
<1>1. CASE ParseFails(id)
  BY <1>1 DEF ParseFails, MqttStep, SaysAbout
<1>2. CASE Refuse(id)
  BY <1>2, Answering DEF Refuse, MqttStep
<1>3. CASE EnumerateDevices(id) \/ GetTransformation(id)
  BY <1>3, Answering DEF EnumerateDevices, GetTransformation, Handle, MqttStep
<1>4. CASE HandleService(id)
  BY <1>4, ServiceHandlers DEF ServiceHandling, MqttStep, SaysAbout
<1>5. CASE ServiceReply(id)
  <2>1. ReplySuccess(id) \in BOOLEAN \cup {None}
    BY DEF ReplySuccess
  <2>2. mqtt.at # "idle" /\ mqtt.req = id
        /\ UNCHANGED <<asked, inbox, connected, up, faults, executor>>
    BY <1>5 DEF ServiceReply, Proceeds
  <2>3. CASE Answer(id, ReplySuccess(id)) /\ MqttIdle /\ UNCHANGED unanswered
    BY <2>1, <2>2, <2>3, Answering DEF MqttStep
  <2>4. CASE MqttGoes("dead", id) /\ Drop(id) /\ UNCHANGED replies
    BY <2>2, <2>4 DEF MqttStep, SaysAbout
  <2> QED
    BY <1>5, <2>3, <2>4 DEF ServiceReply
<1>6. CASE RefuseFrame(id)
  BY <1>6, Answering DEF RefuseFrame, Handle, MqttStep
<1>7. CASE GetFrame(id)
  BY <1>7 DEF GetFrame, Handle, MqttStep, SaysAbout
<1>8. CASE StoreHandle(id)
  BY <1>8 DEF StoreHandle, Proceeds, MqttStep, SaysAbout
<1>9. CASE StartCalibration(id)
  BY <1>9 DEF StartCalibration, Handle, MqttStep, SaysAbout
<1>10. CASE SendGoal(id)
  BY <1>10 DEF SendGoal, Proceeds, MqttStep, SaysAbout
<1>11. CASE AbortNothing(id)
  <2>1. TRUE \in BOOLEAN /\ 100 \in 0 .. 100
    OBVIOUS
  <2> QED
    BY <1>11, <2>1 DEF AbortNothing, Handle, MqttStep, SaysAbout
<1>12. CASE AbortGoal(id)
  BY <1>12 DEF AbortGoal, Handle, MqttStep, SaysAbout
<1> QED
  BY <1>1, <1>2, <1>3, <1>4, <1>5, <1>6, <1>7, <1>8, <1>9, <1>10, <1>11, <1>12
  DEF MqttThread, HandleFrame, HandleCalibration

ExecutorStep(id) ==
  /\ UNCHANGED <<asked, inbox, connected, up, faults, mqtt>>
  /\ executor.at = "idle" \/ executor.req = id
  /\ \/ UNCHANGED executor
     \/ ExecutorIdle
     \/ \E point \in ExecutorPoint \ {"idle"} : ExecutorGoes(point, id)
  /\ UNCHANGED replies \/ (SaysAbout(id) /\ id \notin Pending)
  /\ UNCHANGED unanswered \/ Drop(id)

\* What the ROS network brings, and the later steps of the callbacks.
ExecutorThread(id) ==
  \/ CameraAnswers(id) \/ ImageComes(id) \/ GoalIsAnswered(id) \/ FeedbackComes(id)
  \/ ResultComes(id) \/ Executor(id)

LEMMA ExecutorSteps ==
  ASSUME BridgeInv, NEW id \in Id, ExecutorThread(id)
  PROVE  ExecutorStep(id)
PROOF
<1> USE DEF ExecutorPoint
<1>1. CASE CameraAnswers(id)
  BY <1>1 DEF CameraAnswers, ServiceResponse, Starts, ExecutorStep
<1>2. CASE ImageBeforeHandle(id) \/ ImageCallback(id)
  BY <1>2 DEF ImageBeforeHandle, ImageCallback, Starts, ExecutorStep
<1>3. CASE ResetHandle(id)
  BY <1>3 DEF ResetHandle, Continues, ExecutorStep
<1>4. CASE PublishFrame(id)
  <2>1. id \notin Pending
    BY <1>4 DEF PublishFrame, Continues, BridgeInv, FrameInv, FrameRequest, Serving
  <2>2. SaysAbout(id)
    BY <1>4, Answering DEF PublishFrame
  <2> QED
    BY <1>4, <2>1, <2>2 DEF PublishFrame, Continues, ExecutorStep
<1>5. CASE GoalIsAnswered(id)
  BY <1>5 DEF GoalIsAnswered, Respond, GoalResponse, Receives, Starts, ExecutorStep
<1>6. CASE FeedbackComes(id)
  <2>1. PICK p \in Progress : Feedback(id, p)
    BY <1>6 DEF FeedbackComes
  <2>2. FALSE \in BOOLEAN /\ p \in 0 .. 100
    BY ProgressAssumption
  <2>3. id \notin Pending
    BY <2>1 DEF Feedback, Receives, BridgeInv, CalibrationInv, KnownClients, Calibrating, Serving
  <2>4. SaysAbout(id)
    BY <2>1, <2>2 DEF Feedback, SaysAbout
  <2> QED
    BY <2>1, <2>3, <2>4 DEF Feedback, Receives, Starts, ExecutorStep
<1>7. CASE ResultComes(id)
  <2>1. PICK success \in BOOLEAN : PublishResult(id, success)
    BY <1>7 DEF ResultComes, Result
  <2>2. TRUE \in BOOLEAN /\ 100 \in 0 .. 100
    OBVIOUS
  <2>3. id \notin Pending
    BY <2>1 DEF PublishResult, Receives, BridgeInv, CalibrationInv, KnownClients, Calibrating, Serving
  <2>4. SaysAbout(id)
    BY <2>1, <2>2 DEF PublishResult, SaysAbout
  <2> QED
    BY <2>1, <2>3, <2>4 DEF PublishResult, Receives, Starts, ExecutorStep
<1>8. CASE DestroyClient(id) \/ ClearSlots(id)
  BY <1>8 DEF DestroyClient, ClearSlots, Continues, ExecutorStep
<1> QED
  BY <1>1, <1>2, <1>3, <1>4, <1>5, <1>6, <1>7, <1>8
  DEF ExecutorThread, ImageComes, ImageArrives, Executor, ExecuteFrame, ExecuteCalibration

LEMMA MqttStepPreservesThreads ==
  ASSUME TypeOK, ThreadInv, NEW id \in Id, MqttStep(id)
  PROVE  ThreadsTypeOK' /\ ThreadInv'
PROOF
<1>1. /\ UNCHANGED <<asked, connected, up, faults, executor>>
      /\ id <= Len(asked) /\ id \notin Pending'
      /\ Pending' \subseteq Pending
      /\ \A other \in Pending' : id < other
      /\ inbox' \in Seq(Id)
      /\ \A i \in DOMAIN inbox' : inbox'[i] <= Len(asked)
      /\ \A i, j \in DOMAIN inbox' : i < j => inbox'[i] < inbox'[j]
  <2>1. CASE Take(id)
    BY <2>1, Taking, TakeTypes
  <2>2. CASE /\ mqtt.at # "idle" /\ mqtt.req = id
             /\ UNCHANGED <<asked, inbox, connected, up, faults, executor>>
    <3>1. Pending' = Pending
      BY <2>2 DEF Pending
    <3>2. id \notin Pending
      BY <2>2, IdsAreNaturals DEF ThreadInv
    <3> QED
      BY <2>2, <3>1, <3>2 DEF ThreadInv, TypeOK, ThreadsTypeOK
  <2> QED
    BY <2>1, <2>2 DEF MqttStep
<1>2. mqtt' \in [at : MqttPoint, req : Id \cup {None}]
  BY GoesTypes DEF MqttStep, MqttIdle, MqttPoint, TypeOK, ThreadsTypeOK
<1>3. mqtt'.at # "idle" => mqtt'.req = id
  BY DEF MqttStep, MqttIdle, MqttGoes, Take
<1>4. /\ replies' \in Seq(Message)
      /\ \A i \in DOMAIN replies' :
           (i \in DOMAIN replies /\ replies'[i] = replies[i]) \/ replies'[i].req = id
  BY Said DEF MqttStep
<1>5. unanswered' \subseteq Id
  BY DEF MqttStep, Drop, TypeOK, ThreadsTypeOK
<1>6. ThreadsTypeOK'
  BY <1>1, <1>2, <1>4, <1>5 DEF TypeOK, ThreadsTypeOK
<1>7. \A i \in DOMAIN replies' : replies'[i].req <= Len(asked) /\ replies'[i].req \notin Pending'
  BY <1>1, <1>4 DEF ThreadInv
<1> QED
  BY <1>1, <1>3, <1>6, <1>7 DEF ThreadInv

LEMMA ExecutorStepPreservesThreads ==
  ASSUME TypeOK, ThreadInv, NEW id \in Id, id <= Len(asked), ExecutorStep(id)
  PROVE  ThreadsTypeOK' /\ ThreadInv'
PROOF
<1>1. UNCHANGED <<asked, inbox, connected, up, faults, mqtt>> /\ Pending' = Pending
  BY DEF ExecutorStep, Pending
<1>2. executor' \in [at : ExecutorPoint, req : Id \cup {None}]
  BY GoesTypes DEF ExecutorStep, ExecutorIdle, ExecutorPoint, TypeOK, ThreadsTypeOK
<1>3. executor'.at # "idle" => executor'.req = id
  BY DEF ExecutorStep, ExecutorIdle, ExecutorGoes
<1>4. /\ replies' \in Seq(Message)
      /\ \A i \in DOMAIN replies' :
           \/ i \in DOMAIN replies /\ replies'[i] = replies[i]
           \/ replies'[i].req = id /\ id \notin Pending
  <2>1. CASE UNCHANGED replies
    BY <2>1 DEF TypeOK, ThreadsTypeOK
  <2>2. CASE SaysAbout(id) /\ id \notin Pending
    BY <2>2, Said
  <2> QED
    BY <2>1, <2>2 DEF ExecutorStep
<1>5. unanswered' \subseteq Id
  BY DEF ExecutorStep, Drop, TypeOK, ThreadsTypeOK
<1>6. ThreadsTypeOK'
  BY <1>1, <1>2, <1>4, <1>5 DEF TypeOK, ThreadsTypeOK
<1>7. \A i \in DOMAIN replies' : replies'[i].req <= Len(asked) /\ replies'[i].req \notin Pending'
  BY <1>1, <1>4 DEF ThreadInv
<1> QED
  BY <1>1, <1>3, <1>6, <1>7 DEF ThreadInv

(* The state of the handlers keeps its type, whichever thread takes a step.*)
HandlersTypeOK == ServicesTypeOK /\ FramesTypeOK /\ CalibrationTypeOK

LEMMA MqttKeepsHandlerTypes ==
  ASSUME TypeOK, ThreadInv, NEW id \in Id, MqttThread(id)
  PROVE  HandlersTypeOK'
PROOF
<1> USE DEF HandlersTypeOK, ServicesTypeOK, FramesTypeOK, CalibrationTypeOK, TypeOK
<1>1. CASE UNCHANGED handlerVars
  BY <1>1 DEF handlerVars, serviceVars, frameVars, calibrationVars
<1>2. CASE HandleService(id) /\ UNCHANGED <<frameVars, calibrationVars>>
  BY <1>2, ServiceHandlers DEF ServiceHandling, CallPoint, Outcome, frameVars, calibrationVars
<1>3. CASE ServiceReply(id) /\ UNCHANGED <<frameVars, calibrationVars>>
  BY <1>3 DEF ServiceReply, NoCall, CallPoint, Outcome, frameVars, calibrationVars
<1>4. CASE (GetFrame(id) \/ StoreHandle(id)) /\ UNCHANGED <<serviceVars, calibrationVars>>
  BY <1>4 DEF GetFrame, StoreHandle, serviceVars, calibrationVars
<1>5. CASE StartCalibration(id) /\ UNCHANGED <<serviceVars, frameVars>>
  <2>1. CameraOf(id) \in Camera
    BY <1>5, HandledNamesCamera, Taking DEF StartCalibration, Handle, CameraOf
  <2> QED
    BY <1>5, <2>1 DEF StartCalibration, serviceVars, frameVars
<1>6. CASE SendGoal(id) /\ UNCHANGED <<serviceVars, frameVars>>
  <2>1. Stage(id, "sent") => goals' \in [Id -> Goal]
    BY Staging DEF GoalStage, Goal
  <2> QED
    BY <1>6, <2>1 DEF SendGoal, Goal, serviceVars, frameVars
<1> QED
  BY <1>1, <1>2, <1>3, <1>4, <1>5, <1>6
  DEF MqttThread, ParseFails, Refuse, EnumerateDevices, GetTransformation, HandleFrame,
      RefuseFrame, HandleCalibration, AbortNothing, AbortGoal, handlerVars

LEMMA ExecutorKeepsHandlerTypes ==
  ASSUME TypeOK, NEW id \in Id, ExecutorThread(id)
  PROVE  HandlersTypeOK'
PROOF
<1> USE DEF HandlersTypeOK, ServicesTypeOK, FramesTypeOK, CalibrationTypeOK, TypeOK
<1>1. CASE CameraAnswers(id)
  <2>1. PICK outcome \in Outcomes(asked[id]) :
          /\ call' = [at |-> "answered", outcome |-> outcome]
          /\ served' = Append(served, [req |-> id, ok |-> outcome = "success"])
    BY <1>1 DEF CameraAnswers, ServiceResponse
  <2>2. outcome \in Outcome
    BY DEF Outcomes, Outcome
  <2>3. [req |-> id, ok |-> outcome = "success"] \in [req : Id, ok : BOOLEAN]
    OBVIOUS
  <2>4. served' \in Seq([req : Id, ok : BOOLEAN])
    BY <2>1, <2>3, Appended
  <2> QED
    BY <1>1, <2>1, <2>2, <2>4 DEF CameraAnswers, CallPoint, frameVars, calibrationVars
<1>2. CASE (ImageBeforeHandle(id) \/ ImageCallback(id) \/ ResetHandle(id) \/ PublishFrame(id))
           /\ UNCHANGED <<serviceVars, calibrationVars>>
  BY <1>2 DEF ImageBeforeHandle, ImageCallback, ResetHandle, PublishFrame, serviceVars,
              frameVars, calibrationVars
<1>3. CASE GoalIsAnswered(id)
  <2>1. goals' \in [Id -> Goal]
    BY <1>3, Staging DEF GoalIsAnswered, Respond, GoalResponse, GoalStage, Goal
  <2> QED
    BY <1>3, <2>1, ZenonT(30) DEF GoalIsAnswered, Respond, GoalResponse, Goal, serviceVars, frameVars
<1>4. CASE FeedbackComes(id)
  <2>1. goals' \in [Id -> Goal]
    BY <1>4, Progressing DEF FeedbackComes, Feedback, Goal
  <2> QED
    BY <1>4, <2>1 DEF FeedbackComes, Feedback, Goal, serviceVars, frameVars
<1>5. CASE ResultComes(id)
  <2>1. goals' \in [Id -> Goal]
    BY <1>5, Staging DEF ResultComes, Result, PublishResult, GoalStage, Goal
  <2> QED
    BY <1>5, <2>1 DEF ResultComes, Result, PublishResult, Goal, serviceVars, frameVars
<1>6. CASE (DestroyClient(id) \/ ClearSlots(id)) /\ UNCHANGED <<serviceVars, frameVars>>
  BY <1>6 DEF DestroyClient, ClearSlots, serviceVars, frameVars
<1> QED
  BY <1>1, <1>2, <1>3, <1>4, <1>5, <1>6
  DEF ExecutorThread, ImageComes, ImageArrives, Executor, ExecuteFrame, ExecuteCalibration

(* What no step takes back.                                                *)
-----------------------------------------------------------------------------

\* Requests stay as they were asked, and those taken up stay taken up.
Kept ==
  /\ \A id \in Id : id <= Len(asked) => id <= Len(asked') /\ asked'[id] = asked[id]
  /\ \A id \in Pending' : id <= Len(asked) => id \in Pending

LEMMA KeptByThreads ==
  ASSUME TypeOK, ThreadInv, NEW id \in Id, MqttStep(id) \/ ExecutorStep(id)
  PROVE  Kept /\ UNCHANGED asked
PROOF
<1>1. CASE Take(id)
  BY <1>1, Taking DEF Take, Kept
<1>2. CASE UNCHANGED <<asked, inbox>>
  BY <1>2 DEF Kept, Pending
<1> QED
  BY <1>1, <1>2 DEF MqttStep, ExecutorStep

LEMMA StillServing ==
  ASSUME Kept, NEW id, NEW topic, Serving(id, topic)
  PROVE  Serving(id, topic)' /\ asked'[id] = asked[id]
PROOF
  BY DEF Kept, Serving, CameraOf

(* Final replies come one at a time, and only to the request of the step.  *)
LEMMA FinalsKept ==
  ASSUME UNCHANGED replies, NEW r
  PROVE  Final(r)' = Final(r)
PROOF
  BY DEF Final

LEMMA FinalsOfOthers ==
  ASSUME TypeOK, NEW id \in Id, SaysAbout(id), NEW r, r # id, Final(r) = {}
  PROVE  Final(r)' = {}
PROOF
  BY Said DEF Final

LEMMA FinalsAfterFeedback ==
  ASSUME TypeOK, NEW id \in Id, NEW p \in 0 .. 100, Reply(id, FALSE, FALSE, p),
         NEW r, Final(r) = {}
  PROVE  Final(r)' = {}
PROOF
<1>1. /\ DOMAIN replies = 1 .. Len(replies) /\ Len(replies) \in Nat
      /\ DOMAIN replies' = 1 .. (Len(replies) + 1)
      /\ \A i \in DOMAIN replies : replies'[i] = replies[i]
      /\ replies'[Len(replies) + 1] =
           MessageOf(id, FALSE, FALSE, p)
  BY Saying
<1>2. ~replies'[Len(replies) + 1].final
  BY <1>1 DEF MessageOf
<1>3. \A i \in DOMAIN replies' : i \in DOMAIN replies \/ i = Len(replies) + 1
  BY <1>1
<1> QED
  BY <1>1, <1>2, <1>3 DEF Final

(* Frames.                                                                 *)
-----------------------------------------------------------------------------

LEMMA FramesUntouched ==
  ASSUME FrameInv, Kept, UNCHANGED frameVars,
         UNCHANGED mqtt \/ (mqtt.at # "storing" /\ mqtt'.at # "storing"),
         \/ UNCHANGED executor
         \/ /\ executor.at \notin {"resetting", "publishing"}
            /\ executor'.at \notin {"resetting", "publishing"},
         \A r \in Id : FrameRequest(r) => Final(r)' = {}
  PROVE  FrameInv'
PROOF
<1>1. ASSUME NEW r, FrameRequest(r)
      PROVE  FrameRequest(r)' /\ ImageTopicOf(r)' = ImageTopicOf(r)
  BY <1>1, StillServing DEF FrameRequest, Serving, ImageTopicOf
<1>2. \A t : Busy(t)' <=> Busy(t)
  BY DEF Busy, frameVars
<1>3. \A id \in subscriptions' : FrameRequest(id)'
  BY <1>1 DEF FrameInv, frameVars
<1>4. mqtt'.at = "storing" =>
        mqtt'.req \in subscriptions' /\ ~Busy(ImageTopicOf(mqtt.req))'
  BY <1>1, <1>2 DEF FrameInv, frameVars
<1>5. executor'.at \in {"resetting", "publishing"} =>
        FrameRequest(executor.req)' /\ executor'.req \notin subscriptions'
  BY <1>1 DEF FrameInv, frameVars
<1>6. executor'.at = "resetting" =>
        topic_handle'[ImageTopicOf(executor.req)'] = executor'.req
  BY <1>1 DEF FrameInv, frameVars
<1>7. FrameSlots'
  <2>1. ASSUME NEW t \in ImageTopic, Busy(t), NEW id, id = topic_handle[t]
        PROVE  /\ id <= Len(asked') /\ ImageTopicOf(id)' = t
               /\ Final(id)' = {}
               /\ (id \in subscriptions') # (executor' = [at |-> "resetting", req |-> id])
    <3>1. ImageTopicOf(id) = t /\ (id \in subscriptions) # (executor = [at |-> "resetting", req |-> id])
      BY <2>1 DEF FrameInv, FrameSlots
    <3>2. FrameRequest(id)
      BY <3>1 DEF FrameInv
    <3> QED
      BY <1>1, <3>1, <3>2 DEF FrameRequest, Serving, frameVars
  <2>2. ASSUME NEW id \in subscriptions
        PROVE  (topic_handle'[ImageTopicOf(id)'] = id) # (mqtt' = [at |-> "storing", req |-> id])
    BY <1>1, <2>2 DEF FrameInv, FrameSlots, frameVars
  <2> QED
    BY <1>2, <2>1, <2>2 DEF FrameSlots, frameVars
<1> QED
  BY <1>3, <1>4, <1>5, <1>6, <1>7 DEF FrameInv

\* A step that takes a request up or answers one that is no frame's.
LEMMA MqttLeavesFrames ==
  ASSUME BridgeInv, NEW id \in Id, MqttStep(id), UNCHANGED frameVars,
         mqtt.at # "storing", mqtt'.at # "storing",
         \/ Take(id) \/ UNCHANGED replies
         \/ asked[id].topic # "get_frame_request"
  PROVE  FrameInv'
PROOF
<1> USE DEF BridgeInv
<1>1. Kept
  BY KeptByThreads
<1>2. UNCHANGED executor
  BY DEF MqttStep, Take
<1>3. ASSUME NEW r \in Id, FrameRequest(r)
      PROVE  Final(r)' = {}
  <2>1. CASE UNCHANGED replies
    BY <1>3, <2>1, FinalsKept DEF FrameRequest
  <2>2. CASE r # id
    BY <1>3, <2>2, FinalsOfOthers DEF MqttStep, FrameRequest
  <2>3. Take(id) \/ asked[id].topic # "get_frame_request" => r # id
    BY <1>3, Taking DEF FrameRequest, Serving
  <2> QED
    BY <2>1, <2>2, <2>3
<1> QED
  BY <1>1, <1>2, <1>3, FramesUntouched

LEMMA GetFrameKeepsFrames ==
  ASSUME BridgeInv, NEW id \in Id, GetFrame(id)
  PROVE  FrameInv'
PROOF
<1> USE DEF BridgeInv
<1>1. /\ Take(id) /\ asked[id].topic = "get_frame_request"
      /\ asked[id].arg \in SupportedStream /\ ~Busy(ImageTopicOf(id))
      /\ subscriptions' = subscriptions \cup {id}
      /\ mqtt.at = "idle" /\ mqtt' = [at |-> "storing", req |-> id]
      /\ UNCHANGED <<asked, executor, replies, topic_handle>>
  BY DEF GetFrame, Handle, Take, MqttGoes
<1>2. id <= Len(asked) /\ id \in Pending /\ Pending' = Pending \ {id}
  BY <1>1, Taking
<1>3. CameraOf(id) \in Camera
  BY <1>2, HandledNamesCamera DEF GetFrame, CameraOf
<1>4. Kept
  BY <1>1, <1>2 DEF Kept
<1>5. ASSUME NEW r, FrameRequest(r)
      PROVE  FrameRequest(r)' /\ r # id
  BY <1>1, <1>2, <1>4, <1>5, StillServing, FinalsKept DEF FrameRequest, Serving
<1>6. FrameRequest(id)'
  <2>1. Final(id) = {}
    BY <1>2 DEF Final, ThreadInv
  <2>2. Serving(id, "get_frame_request")'
    BY <1>1, <1>2, <1>3 DEF Serving, CameraOf
  <2> QED
    BY <1>1, <2>1, <2>2, FinalsKept DEF FrameRequest
<1>7. /\ \A t : Busy(t)' <=> Busy(t)
      /\ \A r : ImageTopicOf(r)' = ImageTopicOf(r)
  BY <1>1 DEF Busy, ImageTopicOf
<1>8. executor.at \in {"resetting", "publishing"} => executor.req # id
  BY <1>5 DEF FrameInv
<1>9. \A t \in ImageTopic : topic_handle[t] # id
  <2>1. ASSUME NEW t \in ImageTopic, topic_handle[t] = id
        PROVE  FALSE
    <3>1. Busy(t)
      BY <2>1, AbsentAssumption DEF Busy
    <3>2. id \in subscriptions \/ executor = [at |-> "resetting", req |-> id]
      BY <2>1, <3>1 DEF FrameInv, FrameSlots
    <3> QED
      BY <1>2, <3>2 DEF FrameInv, FrameRequest, Serving
  <2> QED
    BY <2>1
<1>10. ImageTopicOf(id) \in ImageTopic
  BY <1>1, <1>3 DEF ImageTopicOf, ImageTopic, CameraOf
<1>11. FrameSlots'
  <2>1. ASSUME NEW t \in ImageTopic, Busy(t), NEW r, r = topic_handle[t]
        PROVE  /\ r <= Len(asked) /\ ImageTopicOf(r) = t /\ Final(r) = {}
               /\ (r \in subscriptions') # (executor = [at |-> "resetting", req |-> r])
    <3>1. /\ r <= Len(asked) /\ ImageTopicOf(r) = t /\ Final(r) = {}
          /\ (r \in subscriptions) # (executor = [at |-> "resetting", req |-> r])
      BY <2>1 DEF FrameInv, FrameSlots
    <3>2. r # id
      BY <1>9, <2>1
    <3>3. r \in subscriptions' <=> r \in subscriptions
      BY <1>1, <3>2
    <3> QED
      BY <3>1, <3>3
  <2>2. ASSUME NEW r \in subscriptions
        PROVE  (topic_handle[ImageTopicOf(r)] = r) # (mqtt' = [at |-> "storing", req |-> r])
    <3>1. r # id /\ mqtt # [at |-> "storing", req |-> r]
      BY <1>1, <1>5, <2>2 DEF FrameInv
    <3> QED
      BY <1>1, <2>2, <3>1 DEF FrameInv, FrameSlots
  <2>3. topic_handle[ImageTopicOf(id)] # id /\ mqtt' = [at |-> "storing", req |-> id]
    BY <1>1, <1>9, <1>10
  <2> QED
    BY <1>1, <1>7, <2>1, <2>2, <2>3, FinalsKept DEF FrameSlots
<1> QED
  BY <1>1, <1>5, <1>6, <1>7, <1>8, <1>11 DEF FrameInv

LEMMA StoreHandleKeepsFrames ==
  ASSUME BridgeInv, NEW id \in Id, StoreHandle(id)
  PROVE  FrameInv'
PROOF
<1> USE DEF BridgeInv
<1> DEFINE topic == ImageTopicOf(id)
<1>1. /\ mqtt = [at |-> "storing", req |-> id] /\ mqtt'.at = "idle"
      /\ topic_handle' = [topic_handle EXCEPT ![topic] = id]
      /\ UNCHANGED <<asked, inbox, executor, replies, subscriptions>>
  BY DEF StoreHandle, Proceeds, MqttIdle, MqttGoes
<1>2. id \in subscriptions /\ FrameRequest(id) /\ ~Busy(topic)
  BY <1>1 DEF FrameInv
<1>3. topic \in ImageTopic
  BY <1>2 DEF FrameRequest, Serving, ImageTopicOf, ImageTopic, CameraOf
<1>4. /\ topic_handle'[topic] = id
      /\ \A t \in ImageTopic : t # topic => topic_handle'[t] = topic_handle[t]
  BY <1>1, <1>3 DEF TypeOK, FramesTypeOK
<1>5. Kept
  BY <1>1 DEF Kept, Pending
<1>6. ASSUME NEW r, FrameRequest(r)
      PROVE  /\ FrameRequest(r)' /\ ImageTopicOf(r)' = ImageTopicOf(r)
             /\ ImageTopicOf(r) \in ImageTopic
  BY <1>1, <1>5, <1>6, StillServing, FinalsKept
  DEF FrameRequest, Serving, ImageTopicOf, ImageTopic, CameraOf
<1>7. executor.at = "resetting" => ImageTopicOf(executor.req) # topic
  <2>1. CASE executor.at = "resetting"
    <3>1. FrameRequest(executor.req)
          /\ topic_handle[ImageTopicOf(executor.req)] = executor.req
      BY <2>1 DEF FrameInv
    <3>2. executor.req \in Id
      BY <3>1 DEF FrameRequest, Serving
    <3> QED
      BY <1>2, <3>1, <3>2, AbsentAssumption DEF Busy
  <2> QED
    BY <2>1
<1>8. FrameSlots'
  <2>1. ASSUME NEW t \in ImageTopic, Busy(t)', NEW r, r = topic_handle'[t]
        PROVE  /\ r <= Len(asked) /\ ImageTopicOf(r) = t /\ Final(r) = {}
               /\ (r \in subscriptions) # (executor = [at |-> "resetting", req |-> r])
    <3>1. CASE t = topic
      <4>1. r = id /\ executor # [at |-> "resetting", req |-> id]
        BY <1>4, <1>7, <2>1, <3>1
      <4> QED
        BY <1>2, <3>1, <4>1 DEF FrameRequest, Serving
    <3>2. CASE t # topic
      <4>1. Busy(t) /\ r = topic_handle[t]
        BY <1>4, <2>1, <3>2 DEF Busy
      <4> QED
        BY <2>1, <4>1 DEF FrameInv, FrameSlots
    <3> QED
      BY <3>1, <3>2
  <2>2. ASSUME NEW r \in subscriptions
        PROVE  topic_handle'[ImageTopicOf(r)] = r /\ mqtt' # [at |-> "storing", req |-> r]
    <3>1. mqtt' # [at |-> "storing", req |-> r]
      BY <1>1
    <3>2. CASE r = id
      BY <1>4, <3>1, <3>2
    <3>3. CASE r # id
      <4>1. topic_handle[ImageTopicOf(r)] = r
        BY <1>1, <2>2, <3>3 DEF FrameInv, FrameSlots
      <4>2. ImageTopicOf(r) # topic
        BY <1>2, <2>2, <4>1, AbsentAssumption DEF Busy, FrameInv, FrameRequest, Serving
      <4> QED
        BY <1>4, <1>6, <2>2, <3>1, <4>1, <4>2 DEF FrameInv
    <3> QED
      BY <3>2, <3>3
  <2>3. \A r : ImageTopicOf(r)' = ImageTopicOf(r)
    BY <1>1 DEF ImageTopicOf
  <2> QED
    BY <1>1, <2>1, <2>2, <2>3, FinalsKept DEF FrameSlots
<1>9. executor'.at = "resetting" => topic_handle'[ImageTopicOf(executor.req)'] = executor'.req
  BY <1>1, <1>4, <1>6, <1>7 DEF FrameInv
<1>10. /\ \A r \in subscriptions' : FrameRequest(r)'
       /\ executor'.at \in {"resetting", "publishing"} =>
            FrameRequest(executor.req)' /\ executor'.req \notin subscriptions'
  BY <1>1, <1>6 DEF FrameInv
<1> QED
  BY <1>1, <1>8, <1>9, <1>10 DEF FrameInv

LEMMA MqttKeepsFrames ==
  ASSUME BridgeInv, NEW id \in Id, MqttThread(id)
  PROVE  FrameInv'
PROOF
<1>1. MqttStep(id)
  BY MqttSteps DEF BridgeInv
<1>2. CASE GetFrame(id) \/ StoreHandle(id)
  BY <1>2, GetFrameKeepsFrames, StoreHandleKeepsFrames
<1>3. CASE Take(id) /\ UNCHANGED frameVars /\ mqtt'.at # "storing"
  BY <1>1, <1>3, MqttLeavesFrames DEF Take
<1>4. CASE ServiceReply(id) /\ UNCHANGED frameVars
  <2>1. mqtt = [at |-> "waiting", req |-> id] /\ mqtt'.at # "storing"
    BY <1>4 DEF ServiceReply, Proceeds, MqttIdle, MqttGoes
  <2>2. asked[id].topic # "get_frame_request"
    BY <2>1 DEF BridgeInv, ServiceInv, NoService
  <2> QED
    BY <1>1, <1>4, <2>1, <2>2, MqttLeavesFrames
<1>5. CASE SendGoal(id) /\ UNCHANGED frameVars
  <2>1. mqtt = [at |-> "sending", req |-> id] /\ mqtt'.at # "storing" /\ UNCHANGED replies
    BY <1>5 DEF SendGoal, Proceeds, MqttIdle, MqttGoes
  <2> QED
    BY <1>1, <1>5, <2>1, MqttLeavesFrames
<1>6. ASSUME HandleService(id), UNCHANGED frameVars
      PROVE  FrameInv'
  <2>1. Take(id) /\ mqtt'.at # "storing"
    BY <1>6, ServiceHandlers DEF ServiceHandling, Take, MqttGoes
  <2> QED
    BY <1>3, <1>6, <2>1
<1>7. ASSUME \/ ParseFails(id) \/ Refuse(id) \/ EnumerateDevices(id)
             \/ GetTransformation(id) \/ RefuseFrame(id)
      PROVE  FrameInv'
  <2>1. Take(id) /\ (UNCHANGED mqtt \/ MqttGoes("dead", id))
    BY <1>7 DEF ParseFails, Refuse, EnumerateDevices, GetTransformation, RefuseFrame, Handle
  <2>2. mqtt'.at # "storing"
    BY <2>1 DEF Take, MqttGoes
  <2>3. UNCHANGED frameVars
    BY <1>7 DEF ParseFails, Refuse, EnumerateDevices, GetTransformation, RefuseFrame,
                handlerVars, frameVars
  <2> QED
    BY <1>3, <2>1, <2>2, <2>3
<1>8. ASSUME StartCalibration(id) \/ AbortNothing(id) \/ AbortGoal(id), UNCHANGED frameVars
      PROVE  FrameInv'
  <2>1. Take(id) /\ (UNCHANGED mqtt \/ MqttGoes("dead", id) \/ MqttGoes("sending", id))
    BY <1>8 DEF StartCalibration, AbortNothing, AbortGoal, Handle
  <2>2. mqtt'.at # "storing"
    BY <2>1 DEF Take, MqttGoes
  <2> QED
    BY <1>3, <1>8, <2>1, <2>2
<1> QED
  BY <1>2, <1>4, <1>5, <1>6, <1>7, <1>8
  DEF MqttThread, HandleFrame, HandleCalibration

LEMMA ExecutorLeavesFrames ==
  ASSUME BridgeInv, NEW id \in Id, ExecutorStep(id), UNCHANGED frameVars,
         executor.at \notin {"resetting", "publishing"},
         executor'.at \notin {"resetting", "publishing"},
         UNCHANGED replies \/ asked[id].topic # "get_frame_request"
  PROVE  FrameInv'
PROOF
<1> USE DEF BridgeInv
<1>1. Kept /\ UNCHANGED mqtt
  BY KeptByThreads DEF ExecutorStep
<1>2. ASSUME NEW r \in Id, FrameRequest(r)
      PROVE  Final(r)' = {}
  <2>1. CASE UNCHANGED replies
    BY <1>2, <2>1, FinalsKept DEF FrameRequest
  <2>2. CASE SaysAbout(id) /\ asked[id].topic # "get_frame_request"
    <3>1. r # id
      BY <1>2, <2>2 DEF FrameRequest, Serving
    <3> QED
      BY <1>2, <2>2, <3>1, FinalsOfOthers DEF FrameRequest
  <2> QED
    BY <2>1, <2>2 DEF ExecutorStep
<1> QED
  BY <1>1, <1>2, FramesUntouched

LEMMA ImageCallbackKeepsFrames ==
  ASSUME BridgeInv, NEW id \in Id, ImageCallback(id)
  PROVE  FrameInv'
PROOF
<1> USE DEF BridgeInv
<1> DEFINE topic == ImageTopicOf(id)
<1>1. /\ executor.at = "idle" /\ executor' = [at |-> "resetting", req |-> id]
      /\ id \in subscriptions /\ Busy(topic)
      /\ subscriptions' = subscriptions \ {topic_handle[topic]}
      /\ UNCHANGED <<asked, inbox, mqtt, replies, topic_handle>>
  BY DEF ImageCallback, Starts, ExecutorGoes
<1>2. FrameRequest(id)
  BY <1>1 DEF FrameInv
<1>3. mqtt # [at |-> "storing", req |-> id]
  BY <1>1 DEF FrameInv
<1>4. topic_handle[topic] = id
  BY <1>1, <1>3 DEF FrameInv, FrameSlots
<1>5. ASSUME NEW r
      PROVE  /\ FrameRequest(r)' <=> FrameRequest(r)
             /\ ImageTopicOf(r)' = ImageTopicOf(r) /\ (Busy(r)' <=> Busy(r))
  BY <1>1, FinalsKept DEF FrameRequest, Serving, Pending, CameraOf, ImageTopicOf, Busy
<1>6. FrameSlots'
  <2>1. ASSUME NEW t \in ImageTopic, Busy(t), NEW r, r = topic_handle[t]
        PROVE  /\ r <= Len(asked) /\ ImageTopicOf(r) = t /\ Final(r) = {}
               /\ (r \in subscriptions') # (executor' = [at |-> "resetting", req |-> r])
    <3>1. /\ r <= Len(asked) /\ ImageTopicOf(r) = t /\ Final(r) = {}
          /\ (r \in subscriptions) # (executor = [at |-> "resetting", req |-> r])
      BY <2>1 DEF FrameInv, FrameSlots
    <3>2. r \in subscriptions
      BY <1>1, <3>1
    <3> QED
      BY <1>1, <1>4, <3>1, <3>2
  <2>2. ASSUME NEW r \in subscriptions'
        PROVE  (topic_handle[ImageTopicOf(r)] = r) # (mqtt = [at |-> "storing", req |-> r])
    BY <1>1, <2>2 DEF FrameInv, FrameSlots
  <2> QED
    BY <1>1, <1>5, <2>1, <2>2, FinalsKept DEF FrameSlots
<1>7. ASSUME mqtt.at = "storing"
      PROVE  mqtt.req \in subscriptions' /\ ~Busy(ImageTopicOf(mqtt.req))
  <2>1. mqtt.req \in subscriptions /\ ~Busy(ImageTopicOf(mqtt.req))
    BY <1>7 DEF FrameInv
  <2> QED
    BY <1>1, <1>4, <2>1
<1>8. FrameRequest(executor.req)'
  BY <1>1, <1>2, <1>5
<1>9. \A r \in subscriptions' : FrameRequest(r)'
  BY <1>1, <1>5 DEF FrameInv
<1>10. topic_handle'[ImageTopicOf(executor.req)'] = executor'.req
  BY <1>1, <1>4, <1>5
<1>11. mqtt'.at = "storing" => mqtt'.req \in subscriptions' /\ ~Busy(ImageTopicOf(mqtt.req))'
  BY <1>1, <1>5, <1>7
<1>12. executor'.req \notin subscriptions'
  BY <1>1, <1>4
<1> QED
  BY <1>6, <1>8, <1>9, <1>10, <1>11, <1>12 DEF FrameInv

LEMMA ResetHandleKeepsFrames ==
  ASSUME BridgeInv, NEW id \in Id, ResetHandle(id)
  PROVE  FrameInv'
PROOF
<1> USE DEF BridgeInv
<1> DEFINE topic == ImageTopicOf(id)
<1>1. /\ executor = [at |-> "resetting", req |-> id]
      /\ executor' = [at |-> "publishing", req |-> id]
      /\ topic_handle' = [topic_handle EXCEPT ![topic] = None]
      /\ UNCHANGED <<asked, inbox, mqtt, replies, subscriptions>>
  BY DEF ResetHandle, Continues, ExecutorGoes
<1>2. FrameRequest(id) /\ id \notin subscriptions /\ topic_handle[topic] = id
  BY <1>1 DEF FrameInv
<1>3. topic \in ImageTopic
  BY <1>2 DEF FrameRequest, Serving, ImageTopicOf, ImageTopic, CameraOf
<1>4. /\ topic_handle'[topic] = None
      /\ \A t \in ImageTopic : t # topic => topic_handle'[t] = topic_handle[t]
  BY <1>1, <1>3 DEF TypeOK, FramesTypeOK
<1>5. ASSUME NEW r
      PROVE  /\ FrameRequest(r)' <=> FrameRequest(r)
             /\ ImageTopicOf(r)' = ImageTopicOf(r)
  BY <1>1, FinalsKept DEF FrameRequest, Serving, Pending, CameraOf, ImageTopicOf
<1>6. \A t \in ImageTopic : Busy(t)' <=> Busy(t) /\ t # topic
  BY <1>4 DEF Busy
<1>7. \A r \in subscriptions : FrameRequest(r) /\ ImageTopicOf(r) \in ImageTopic /\ r \in Id
  BY DEF FrameInv, FrameRequest, Serving, ImageTopicOf, ImageTopic, CameraOf
<1>8. FrameSlots'
  <2>1. ASSUME NEW t \in ImageTopic, Busy(t)', NEW r, r = topic_handle'[t]
        PROVE  /\ r <= Len(asked) /\ ImageTopicOf(r) = t /\ Final(r) = {}
               /\ r \in subscriptions /\ executor' # [at |-> "resetting", req |-> r]
    <3>1. Busy(t) /\ t # topic /\ r = topic_handle[t]
      BY <1>4, <1>6, <2>1
    <3>2. /\ r <= Len(asked) /\ ImageTopicOf(r) = t /\ Final(r) = {}
          /\ (r \in subscriptions) # (executor = [at |-> "resetting", req |-> r])
      BY <3>1 DEF FrameInv, FrameSlots
    <3>3. r # id
      BY <3>1, <3>2
    <3> QED
      BY <1>1, <3>2, <3>3
  <2>2. ASSUME NEW r \in subscriptions
        PROVE  (topic_handle'[ImageTopicOf(r)] = r) # (mqtt = [at |-> "storing", req |-> r])
    <3>1. (topic_handle[ImageTopicOf(r)] = r) # (mqtt = [at |-> "storing", req |-> r])
      BY <2>2 DEF FrameInv, FrameSlots
    <3>2. topic_handle'[ImageTopicOf(r)] = r <=> topic_handle[ImageTopicOf(r)] = r
      BY <1>2, <1>4, <1>7, <2>2, AbsentAssumption
    <3> QED
      BY <3>1, <3>2
  <2> QED
    BY <1>1, <1>5, <2>1, <2>2, FinalsKept DEF FrameSlots
<1>9. mqtt'.at = "storing" => mqtt'.req \in subscriptions' /\ ~Busy(ImageTopicOf(mqtt.req))'
  <2>1. mqtt.at = "storing" => mqtt.req \in subscriptions /\ ~Busy(ImageTopicOf(mqtt.req))
    BY DEF FrameInv
  <2> QED
    BY <1>1, <1>5, <1>6, <1>7, <2>1
<1>10. \A r \in subscriptions' : FrameRequest(r)'
  BY <1>1, <1>5, <1>7
<1>11. executor'.at = "publishing" /\ FrameRequest(executor.req)'
       /\ executor'.req \notin subscriptions'
  BY <1>1, <1>2, <1>5
<1> QED
  BY <1>8, <1>9, <1>10, <1>11 DEF FrameInv

LEMMA PublishFrameKeepsFrames ==
  ASSUME BridgeInv, NEW id \in Id, PublishFrame(id)
  PROVE  FrameInv'
PROOF
<1> USE DEF BridgeInv
<1>1. /\ executor = [at |-> "publishing", req |-> id] /\ executor'.at = "idle"
      /\ SaysAbout(id)
      /\ UNCHANGED <<asked, inbox, mqtt, subscriptions, topic_handle>>
  BY Answering DEF PublishFrame, Continues, ExecutorIdle, ExecutorGoes, frameVars
<1>2. id \notin subscriptions
  BY <1>1 DEF FrameInv
<1>3. ASSUME NEW r
      PROVE  /\ ImageTopicOf(r)' = ImageTopicOf(r) /\ (Busy(r)' <=> Busy(r))
             /\ Serving(r, "get_frame_request")' <=> Serving(r, "get_frame_request")
  BY <1>1 DEF Serving, Pending, CameraOf, ImageTopicOf, Busy
<1>4. \A r \in subscriptions : FrameRequest(r)'
  BY <1>1, <1>2, <1>3, FinalsOfOthers DEF FrameInv, FrameRequest
<1>5. FrameSlots'
  <2>1. ASSUME NEW t \in ImageTopic, Busy(t), NEW r, r = topic_handle[t]
        PROVE  /\ r <= Len(asked) /\ ImageTopicOf(r) = t /\ Final(r)' = {}
               /\ r \in subscriptions /\ executor' # [at |-> "resetting", req |-> r]
    <3>1. /\ r <= Len(asked) /\ ImageTopicOf(r) = t
          /\ (r \in subscriptions) # (executor = [at |-> "resetting", req |-> r])
      BY <2>1 DEF FrameInv, FrameSlots
    <3>2. r \in subscriptions
      BY <1>1, <3>1
    <3> QED
      BY <1>1, <1>4, <3>1, <3>2 DEF FrameRequest
  <2>2. ASSUME NEW r \in subscriptions
        PROVE  (topic_handle[ImageTopicOf(r)] = r) # (mqtt = [at |-> "storing", req |-> r])
    BY <2>2 DEF FrameInv, FrameSlots
  <2> QED
    BY <1>1, <1>3, <2>1, <2>2 DEF FrameSlots
<1>6. mqtt'.at = "storing" => mqtt'.req \in subscriptions' /\ ~Busy(ImageTopicOf(mqtt.req))'
  BY <1>1, <1>3 DEF FrameInv
<1> QED
  BY <1>1, <1>4, <1>5, <1>6 DEF FrameInv

LEMMA ExecutorKeepsFrames ==
  ASSUME BridgeInv, NEW id \in Id, ExecutorThread(id)
  PROVE  FrameInv'
PROOF
<1>1. ExecutorStep(id)
  BY ExecutorSteps
<1>2. CASE ImageCallback(id) \/ ResetHandle(id) \/ PublishFrame(id)
  BY <1>2, ImageCallbackKeepsFrames, ResetHandleKeepsFrames, PublishFrameKeepsFrames
<1>3. CASE CameraAnswers(id)
  <2>1. UNCHANGED <<frameVars, executor, replies>> /\ executor.at = "idle"
    BY <1>3 DEF CameraAnswers, ServiceResponse, Starts
  <2> QED
    BY <1>1, <2>1, ExecutorLeavesFrames
<1>4. CASE ImageBeforeHandle(id)
  <2>1. UNCHANGED frameVars /\ UNCHANGED replies
        /\ executor.at = "idle" /\ executor'.at = "exited"
    BY <1>4 DEF ImageBeforeHandle, Starts, ExecutorGoes
  <2> QED
    BY <1>1, <2>1, ExecutorLeavesFrames
<1>5. CASE GoalIsAnswered(id)
  <2>1. UNCHANGED frameVars /\ UNCHANGED <<executor, replies>> /\ executor.at = "idle"
    BY <1>5 DEF GoalIsAnswered, Respond, GoalResponse, Receives, Starts
  <2> QED
    BY <1>1, <2>1, ExecutorLeavesFrames
<1>6. CASE FeedbackComes(id) \/ ResultComes(id)
  <2>1. UNCHANGED frameVars /\ Receives(id)
    BY <1>6 DEF FeedbackComes, Feedback, ResultComes, Result, PublishResult
  <2>2. executor'.at \in {"idle", "destroying"}
    <3>1. CASE FeedbackComes(id)
      BY <2>1, <3>1 DEF FeedbackComes, Feedback, Receives, Starts
    <3>2. CASE ResultComes(id)
      BY <3>2 DEF ResultComes, Result, PublishResult, ExecutorGoes
    <3> QED
      BY <1>6, <3>1, <3>2
  <2>3. asked[id].topic # "get_frame_request"
    BY <2>1 DEF Receives, BridgeInv, CalibrationInv, KnownClients, Calibrating, Serving
  <2> QED
    BY <1>1, <2>1, <2>2, <2>3, ExecutorLeavesFrames DEF Receives, Starts
<1>7. CASE (DestroyClient(id) \/ ClearSlots(id)) /\ UNCHANGED frameVars
  <2>1. UNCHANGED replies /\ executor.at \in {"destroying", "clearing"}
        /\ executor'.at \in {"clearing", "exited", "idle"}
    BY <1>7 DEF DestroyClient, ClearSlots, Continues, ExecutorGoes, ExecutorIdle
  <2> QED
    BY <1>1, <1>7, <2>1, ExecutorLeavesFrames
<1> QED
  BY <1>2, <1>3, <1>4, <1>5, <1>6, <1>7
  DEF ExecutorThread, ImageComes, ImageArrives, Executor, ExecuteFrame, ExecuteCalibration

(* Service calls.                                                          *)
-----------------------------------------------------------------------------

LEMMA SaidThat ==
  ASSUME TypeOK, NEW id \in Id, NEW final \in BOOLEAN,
         NEW success \in BOOLEAN \cup {None}, NEW progress \in 0 .. 100,
         Reply(id, final, success, progress)
  PROVE  \A i \in DOMAIN replies' :
           \/ i \in DOMAIN replies /\ replies'[i] = replies[i]
           \/ replies'[i] =
                MessageOf(id, final, success, progress)
PROOF
<1>1. /\ DOMAIN replies = 1 .. Len(replies) /\ Len(replies) \in Nat
      /\ DOMAIN replies' = 1 .. (Len(replies) + 1)
      /\ \A i \in DOMAIN replies : replies'[i] = replies[i]
      /\ replies'[Len(replies) + 1] =
           MessageOf(id, final, success, progress)
  BY Saying
<1>2. \A i \in DOMAIN replies' : i \in DOMAIN replies \/ i = Len(replies) + 1
  BY <1>1
<1> QED
  BY <1>1, <1>2

LEMMA AnsweredThat ==
  ASSUME TypeOK, NEW id \in Id, NEW success \in BOOLEAN \cup {None}, Answer(id, success)
  PROVE  \A i \in DOMAIN replies' :
           \/ i \in DOMAIN replies /\ replies'[i] = replies[i]
           \/ replies'[i] = MessageOf(id, TRUE, success, 0)
PROOF
<1>1. TRUE \in BOOLEAN /\ 0 \in 0 .. 100
  OBVIOUS
<1>2. Reply(id, TRUE, success, 0)
  BY DEF Answer
<1> QED
  BY <1>1, <1>2, SaidThat, ZenonT(30)

\* A reply that is not that of a service call, or says that it failed, or
\* comes after the call was served.
Modest(r, success) == asked[r].topic \in NoService \/ success = FALSE

NoClaim(r, success) ==
  Modest(r, success) \/ \E k \in DOMAIN served : served[k].req = r

LEMMA NoClaimMade ==
  ASSUME TypeOK, NEW id \in Id, NEW final \in BOOLEAN,
         NEW success \in BOOLEAN \cup {None}, NEW progress \in 0 .. 100,
         Reply(id, final, success, progress), NoClaim(id, success)
  PROVE  \A i \in DOMAIN replies' :
           \/ i \in DOMAIN replies /\ replies'[i] = replies[i]
           \/ replies'[i].req = id /\ NoClaim(id, replies'[i].success)
PROOF
<1>1. MessageOf(id, final, success, progress).req = id
      /\ MessageOf(id, final, success, progress).success = success
  BY DEF MessageOf
<1> QED
  BY <1>1, SaidThat

LEMMA ServicesUntouched ==
  ASSUME TypeOK, ThreadInv, ServiceInv, ThreadsTypeOK', Kept, UNCHANGED served,
         \/ UNCHANGED <<call, mqtt>>
         \/ UNCHANGED call /\ mqtt.at # "waiting" /\ mqtt'.at # "waiting"
         \/ call'.at = "none" /\ mqtt'.at # "waiting"
         \/ call.at # "none" /\ call'.at = "lost" /\ UNCHANGED mqtt,
         NEW id, UNCHANGED replies \/ (id \in Id /\ id <= Len(asked)),
         \A i \in DOMAIN replies' :
           \/ i \in DOMAIN replies /\ replies'[i] = replies[i]
           \/ replies'[i].req = id /\ NoClaim(id, replies'[i].success),
         mqtt'.at = "waiting" => Final(mqtt.req)' = {}
  PROVE  ServiceInv'
PROOF
<1>1. \A k \in DOMAIN served : served[k].req \in Id /\ served[k].req \in Nat
  <2>1. served \in Seq([req : Id, ok : BOOLEAN])
    BY DEF TypeOK, ServicesTypeOK
  <2>2. \A k \in DOMAIN served : served[k] \in [req : Id, ok : BOOLEAN]
    BY <2>1, ElementOf
  <2> QED
    BY <2>2, IdsAreNaturals
<1>2. \A r \in Id : r <= Len(asked) => r <= Len(asked') /\ asked'[r] = asked[r]
  BY DEF Kept
<1>3. \A i \in DOMAIN replies : replies[i].req \in Id /\ replies[i].req <= Len(asked)
  <2>1. replies \in Seq(Message)
    BY DEF TypeOK, ThreadsTypeOK
  <2>2. \A i \in DOMAIN replies : replies[i] \in Message
    BY <2>1, ElementOf
  <2> QED
    BY <2>2 DEF Message, ThreadInv
<1>4. ServedInOrder'
  <2>1. ASSUME NEW i \in DOMAIN replies', asked'[replies'[i].req].topic \notin NoService,
               replies'[i].success # FALSE
        PROVE  \E k \in DOMAIN served : served[k].req = replies'[i].req
    <3>1. CASE i \in DOMAIN replies /\ replies'[i] = replies[i]
      BY <1>2, <1>3, <2>1, <3>1 DEF ServiceInv, ServedInOrder
    <3>2. CASE replies'[i].req = id /\ NoClaim(id, replies'[i].success)
      <4>1. CASE id \in Id /\ id <= Len(asked)
        BY <1>2, <2>1, <3>2, <4>1 DEF NoClaim, Modest
      <4>2. CASE UNCHANGED replies
        BY <1>2, <1>3, <2>1, <4>2 DEF ServiceInv, ServedInOrder
      <4> QED
        BY <4>1, <4>2
    <3> QED
      BY <3>1, <3>2
  <2> QED
    BY <2>1 DEF ServiceInv, ServedInOrder
<1>5. ASSUME NEW k \in DOMAIN served
      PROVE  served[k].req <= Len(asked') /\ \A r \in Pending' : served[k].req < r
  <2>1. served[k].req <= Len(asked) /\ \A r \in Pending : served[k].req < r
    BY DEF ServiceInv
  <2>2. served[k].req <= Len(asked')
    BY <1>1, <1>2, <2>1
  <2>3. ASSUME NEW r \in Pending', r \notin Pending
        PROVE  served[k].req < r
    <3>1. r \in Nat
      <4>1. inbox' \in Seq(Id)
        BY DEF ThreadsTypeOK
      <4>2. \A i \in DOMAIN inbox' : inbox'[i] \in Id
        BY <4>1, ElementOf
      <4> QED
        BY <2>3, <4>2, IdsAreNaturals DEF Pending
    <3>2. ~(r <= Len(asked)) /\ Len(asked) \in Nat
      BY <2>3 DEF Kept, TypeOK, ThreadsTypeOK
    <3> QED
      BY <1>1, <2>1, <3>1, <3>2
  <2> QED
    BY <2>1, <2>2, <2>3
<1>6. mqtt'.at = "waiting" =>
        asked'[mqtt'.req].topic \notin NoService /\ Final(mqtt.req)' = {} /\ UNCHANGED mqtt
  BY <1>2 DEF ServiceInv, ThreadInv
<1>7. call'.at \in {"sent", "answered"} => UNCHANGED <<call, mqtt>>
  BY DEF ServiceInv
<1>8. call'.at # "none" => mqtt'.at = "waiting"
  BY DEF ServiceInv
<1> QED
  BY <1>4, <1>5, <1>6, <1>7, <1>8 DEF ServiceInv

LEMMA HandleServiceKeepsServices ==
  ASSUME BridgeInv, ThreadsTypeOK', NEW id \in Id, ServiceHandling(id)
  PROVE  ServiceInv'
PROOF
<1> USE DEF BridgeInv
<1>1. /\ Take(id) /\ mqtt.at = "idle" /\ call.at = "none"
      /\ asked[id].topic \notin NoService
      /\ UNCHANGED <<asked, replies, served>>
  BY DEF ServiceHandling, Take, ServiceInv
<1>2. id \in Pending /\ id <= Len(asked) /\ Pending' = Pending \ {id}
  BY <1>1, Taking
<1>3. Kept
  BY <1>1, <1>2 DEF Kept
<1>4. CASE UNCHANGED call /\ (UNCHANGED mqtt \/ MqttGoes("dead", id))
  <2>1. mqtt'.at # "waiting"
    BY <1>1, <1>4 DEF MqttGoes
  <2> QED
    BY <1>1, <1>2, <1>3, <1>4, <2>1, ServicesUntouched
<1>5. CASE MqttGoes("waiting", id) /\ call' = [at |-> "sent", outcome |-> "failure"]
  <2>1. mqtt'.at = "waiting" /\ mqtt'.req = id /\ call'.at = "sent"
    BY <1>5 DEF MqttGoes
  <2>2. Final(id)' = {}
    BY <1>1, <1>2 DEF Final, ThreadInv
  <2>3. \A k \in DOMAIN served : served[k].req < id
    BY <1>2 DEF ServiceInv
  <2>4. ServedInOrder'
    BY <1>1 DEF ServiceInv, ServedInOrder
  <2>5. \A k \in DOMAIN served' :
          served'[k].req <= Len(asked') /\ \A r \in Pending' : served'[k].req < r
    BY <1>1, <1>2 DEF ServiceInv
  <2> QED
    BY <1>1, <2>1, <2>2, <2>3, <2>4, <2>5 DEF ServiceInv
<1> QED
  BY <1>4, <1>5 DEF ServiceHandling

LEMMA ServiceReplyKeepsServices ==
  ASSUME BridgeInv, ThreadsTypeOK', NEW id \in Id, ServiceReply(id)
  PROVE  ServiceInv'
PROOF
<1> USE DEF BridgeInv
<1>1. /\ mqtt = [at |-> "waiting", req |-> id] /\ call.at = "answered"
      /\ call'.at = "none" /\ mqtt'.at # "waiting"
      /\ UNCHANGED <<asked, inbox, served>>
      /\ UNCHANGED replies \/ Answer(id, ReplySuccess(id))
  BY DEF ServiceReply, Proceeds, WaitForFuture, NoCall, MqttGoes, MqttIdle
<1>2. id <= Len(asked) /\ Kept
  BY <1>1 DEF ThreadInv, Kept, Pending
<1>3. \A success : NoClaim(id, success)
  BY <1>1 DEF ServiceInv, NoClaim
<1>4. \A i \in DOMAIN replies' :
        \/ i \in DOMAIN replies /\ replies'[i] = replies[i]
        \/ replies'[i].req = id /\ NoClaim(id, replies'[i].success)
  <2>1. ReplySuccess(id) \in BOOLEAN \cup {None} /\ 0 \in 0 .. 100 /\ TRUE \in BOOLEAN
    BY DEF ReplySuccess
  <2> QED
    BY <1>1, <1>3, <2>1, NoClaimMade DEF Answer
<1> QED
  BY <1>1, <1>2, <1>4, ServicesUntouched

LEMMA CameraAnswersKeepsServices ==
  ASSUME BridgeInv, NEW id \in Id, CameraAnswers(id)
  PROVE  ServiceInv'
PROOF
<1> USE DEF BridgeInv
<1>1. PICK outcome \in Outcomes(asked[id]) :
        /\ call' = [at |-> "answered", outcome |-> outcome]
        /\ served' = Append(served, [req |-> id, ok |-> outcome = "success"])
  BY DEF CameraAnswers, ServiceResponse
<1>2. /\ mqtt.at = "waiting" /\ mqtt.req = id /\ call.at = "sent"
      /\ UNCHANGED <<asked, inbox, mqtt, replies>>
  BY DEF CameraAnswers, ServiceResponse, Starts
<1>3. /\ id <= Len(asked) /\ \A r \in Pending : id < r
      /\ \A k \in DOMAIN served : served[k].req < id
      /\ asked[id].topic \notin NoService /\ Final(id) = {}
      /\ Pending' = Pending
  BY <1>2 DEF ThreadInv, ServiceInv, Pending
<1>4. /\ DOMAIN served = 1 .. Len(served) /\ Len(served) \in Nat
      /\ DOMAIN served' = 1 .. (Len(served) + 1)
      /\ \A k \in DOMAIN served : served'[k] = served[k]
      /\ served'[Len(served) + 1].req = id
  <2>1. [req |-> id, ok |-> outcome = "success"] \in [req : Id, ok : BOOLEAN]
    OBVIOUS
  <2>2. /\ DOMAIN served = 1 .. Len(served) /\ Len(served) \in Nat
        /\ DOMAIN served' = 1 .. (Len(served) + 1)
        /\ \A k \in 1 .. Len(served) : served'[k] = served[k]
        /\ served'[Len(served) + 1] = [req |-> id, ok |-> outcome = "success"]
    BY <1>1, <2>1, Appended DEF TypeOK, ServicesTypeOK
  <2> QED
    BY <2>2
<1>5. /\ \A k \in DOMAIN served' : k \in DOMAIN served \/ k = Len(served) + 1
      /\ DOMAIN served \subseteq DOMAIN served' /\ Len(served) + 1 \in DOMAIN served'
      /\ \A k \in DOMAIN served : k <= Len(served) /\ k \in Nat
  BY <1>4
<1>6. \A i, j \in DOMAIN served' : i < j => served'[i].req < served'[j].req
  <2>1. ASSUME NEW i \in DOMAIN served', NEW j \in DOMAIN served', i < j
        PROVE  served'[i].req < served'[j].req
    <3>1. i \in DOMAIN served
      BY <1>4, <1>5, <2>1
    <3> QED
      BY <1>3, <1>4, <1>5, <2>1, <3>1 DEF ServiceInv, ServedInOrder
  <2> QED
    BY <2>1
<1>7. \A i \in DOMAIN replies' :
        asked'[replies'[i].req].topic \notin NoService /\ replies'[i].success # FALSE
        => \E k \in DOMAIN served' : served'[k].req = replies'[i].req
  BY <1>2, <1>4, <1>5, ZenonT(30) DEF ServiceInv, ServedInOrder
<1>8. \A k \in DOMAIN served' :
        served'[k].req <= Len(asked') /\ \A r \in Pending' : served'[k].req < r
  BY <1>2, <1>3, <1>4, <1>5 DEF ServiceInv
<1>9. call'.at = "answered" /\ \E k \in DOMAIN served' : served'[k].req = mqtt'.req
  BY <1>1, <1>2, <1>4, <1>5
<1>10. mqtt'.at = "waiting" /\ asked'[mqtt'.req].topic \notin NoService
       /\ Final(mqtt.req)' = {}
  BY <1>2, <1>3, FinalsKept
<1> QED
  BY <1>6, <1>7, <1>8, <1>9, <1>10 DEF ServiceInv, ServedInOrder

\* What paho's thread does that is no part of a service call: a request it
\* takes up is not one to set a parameter that it accepts, or is dropped.
OtherHandling(id) ==
  /\ UNCHANGED serviceVars
  /\ mqtt.at # "waiting" /\ mqtt'.at # "waiting"
  /\ \/ UNCHANGED replies
     \/ \E success \in BOOLEAN, progress \in 0 .. 100 :
          Reply(id, TRUE, success, progress) /\ Modest(id, success)
  /\ \/ UNCHANGED inbox
     \/ asked[id].topic # "set_param_request"
     \/ Drop(id) \/ ~Accepted(asked[id])

LEMMA OtherHandlers ==
  ASSUME NEW id \in Id, MqttThread(id)
  PROVE  HandleService(id) \/ ServiceReply(id) \/ OtherHandling(id)
PROOF
<1>1. ASSUME Take(id), UNCHANGED mqtt \/ MqttGoes("dead", id) \/ MqttGoes("storing", id)
                       \/ MqttGoes("sending", id)
      PROVE  mqtt.at # "waiting" /\ mqtt'.at # "waiting"
  BY <1>1 DEF Take, MqttGoes
<1>2. CASE ParseFails(id)
  BY <1>1, <1>2 DEF ParseFails, OtherHandling, handlerVars, serviceVars
<1>3. CASE Refuse(id)
  <2>1. 0 \in 0 .. 100 /\ FALSE \in BOOLEAN
    OBVIOUS
  <2>2. \E success \in BOOLEAN, progress \in 0 .. 100 :
          Reply(id, TRUE, success, progress) /\ Modest(id, success)
    BY <1>3, <2>1 DEF Refuse, Answer, Modest
  <2> QED
    BY <1>1, <1>3, <2>2 DEF Refuse, OtherHandling, handlerVars, serviceVars
<1>4. CASE \/ EnumerateDevices(id) \/ GetTransformation(id)
           \/ ((RefuseFrame(id) \/ AbortNothing(id)) /\ UNCHANGED serviceVars)
  <2>1. /\ Take(id) /\ UNCHANGED serviceVars /\ UNCHANGED mqtt
        /\ asked[id].topic \in NoService /\ asked[id].topic # "set_param_request"
    BY <1>4 DEF EnumerateDevices, GetTransformation, RefuseFrame, AbortNothing, Handle,
                handlerVars, serviceVars, NoService
  <2>2. 0 \in 0 .. 100 /\ 100 \in 0 .. 100
    OBVIOUS
  <2>3. \E success \in BOOLEAN, progress \in 0 .. 100 :
          Reply(id, TRUE, success, progress) /\ Modest(id, success)
    BY <1>4, <2>1, <2>2 DEF EnumerateDevices, GetTransformation, RefuseFrame, AbortNothing,
                            Answer, Modest
  <2> QED
    BY <1>1, <2>1, <2>3 DEF OtherHandling
<1>5. CASE (GetFrame(id) \/ StartCalibration(id) \/ AbortGoal(id)) /\ UNCHANGED serviceVars
  <2>1. /\ Take(id) /\ UNCHANGED replies
        /\ asked[id].topic # "set_param_request"
        /\ UNCHANGED mqtt \/ MqttGoes("dead", id) \/ MqttGoes("storing", id)
           \/ MqttGoes("sending", id)
    BY <1>5 DEF GetFrame, StartCalibration, AbortGoal, Handle
  <2> QED
    BY <1>1, <1>5, <2>1 DEF OtherHandling
<1>6. CASE (StoreHandle(id) \/ SendGoal(id)) /\ UNCHANGED serviceVars
  <2>1. /\ mqtt.at \in {"storing", "sending"} /\ UNCHANGED <<inbox, replies>>
        /\ MqttIdle \/ MqttGoes("dead", id)
    BY <1>6 DEF StoreHandle, SendGoal, Proceeds
  <2> QED
    BY <1>6, <2>1 DEF OtherHandling, MqttIdle, MqttGoes
<1> QED
  BY <1>2, <1>3, <1>4, <1>5, <1>6 DEF MqttThread, HandleFrame, HandleCalibration

LEMMA MqttKeepsServices ==
  ASSUME BridgeInv, ThreadsTypeOK', NEW id \in Id, MqttThread(id)
  PROVE  ServiceInv'
PROOF
<1> USE DEF BridgeInv
<1>1. MqttStep(id)
  BY MqttSteps
<1>2. Kept
  BY <1>1, KeptByThreads
<1>3. id <= Len(asked)
  BY <1>1, Taking DEF MqttStep, ThreadInv
<1>4. CASE HandleService(id) \/ ServiceReply(id)
  BY <1>4, ServiceHandlers, HandleServiceKeepsServices, ServiceReplyKeepsServices
<1>5. CASE OtherHandling(id)
  <2>1. \A success : Modest(id, success) => NoClaim(id, success)
    BY DEF NoClaim
  <2>2. \A i \in DOMAIN replies' :
          \/ i \in DOMAIN replies /\ replies'[i] = replies[i]
          \/ replies'[i].req = id /\ NoClaim(id, replies'[i].success)
    BY <1>5, <2>1, NoClaimMade DEF OtherHandling
  <2> QED
    BY <1>2, <1>3, <1>5, <2>2, ServicesUntouched DEF OtherHandling, serviceVars
<1> QED
  BY <1>4, <1>5, OtherHandlers

\* The executor's callbacks but the camera's answers make no service call,
\* and they speak of frames and of calibration runs.
OtherCallback(id) ==
  /\ UNCHANGED serviceVars
  /\ \/ UNCHANGED replies
     \/ Serving(id, "get_frame_request") /\ Answer(id, TRUE)
     \/ Calibrating(id)

LEMMA OtherCallbacks ==
  ASSUME BridgeInv, NEW id \in Id, ExecutorThread(id)
  PROVE  CameraAnswers(id) \/ OtherCallback(id)
PROOF
<1> USE DEF BridgeInv, OtherCallback
<1>1. CASE (ImageBeforeHandle(id) \/ ImageCallback(id) \/ ResetHandle(id))
           /\ UNCHANGED serviceVars
  BY <1>1 DEF ImageBeforeHandle, ImageCallback, ResetHandle
<1>2. CASE PublishFrame(id) /\ UNCHANGED serviceVars
  BY <1>2 DEF PublishFrame, Continues, FrameInv, FrameRequest
<1>3. CASE GoalIsAnswered(id)
  BY <1>3 DEF GoalIsAnswered, Respond, GoalResponse
<1>4. CASE FeedbackComes(id) \/ ResultComes(id)
  <2>1. Receives(id) /\ UNCHANGED serviceVars
    BY <1>4 DEF FeedbackComes, Feedback, ResultComes, Result, PublishResult
  <2> QED
    BY <2>1 DEF Receives, CalibrationInv, KnownClients
<1>5. CASE (DestroyClient(id) \/ ClearSlots(id)) /\ UNCHANGED serviceVars
  BY <1>5 DEF DestroyClient, ClearSlots
<1> QED
  BY <1>1, <1>2, <1>3, <1>4, <1>5
  DEF ExecutorThread, ImageComes, ImageArrives, Executor, ExecuteFrame, ExecuteCalibration

LEMMA ExecutorKeepsServices ==
  ASSUME BridgeInv, ThreadsTypeOK', NEW id \in Id, id <= Len(asked), ExecutorThread(id)
  PROVE  ServiceInv'
PROOF
<1> USE DEF BridgeInv
<1>1. ExecutorStep(id)
  BY ExecutorSteps
<1>2. Kept /\ UNCHANGED mqtt
  BY <1>1, KeptByThreads DEF ExecutorStep
<1>3. CASE CameraAnswers(id)
  BY <1>3, CameraAnswersKeepsServices
<1>4. CASE OtherCallback(id)
  <2>1. UNCHANGED replies \/ (SaysAbout(id) /\ asked[id].topic \in NoService)
    BY <1>1, <1>4 DEF OtherCallback, Calibrating, Serving, NoService, ExecutorStep
  <2>2. \A i \in DOMAIN replies' :
          \/ i \in DOMAIN replies /\ replies'[i] = replies[i]
          \/ replies'[i].req = id /\ NoClaim(id, replies'[i].success)
    BY <2>1, Said DEF NoClaim, Modest
  <2>3. ASSUME mqtt.at = "waiting", NEW r, r = mqtt.req
        PROVE  Final(r)' = {}
    <3>1. Final(r) = {} /\ asked[r].topic \notin NoService
      BY <2>3 DEF ServiceInv
    <3> QED
      BY <2>1, <3>1, FinalsKept, FinalsOfOthers
  <2>4. mqtt'.at = "waiting" => Final(mqtt.req)' = {}
    BY <1>2, <2>3
  <2> QED
    BY <1>2, <1>4, <2>2, <2>4, ServicesUntouched DEF OtherCallback, serviceVars
<1> QED
  BY <1>3, <1>4, OtherCallbacks

(* Calibration.                                                            *)
-----------------------------------------------------------------------------

LEMMA NothingAfterFinalKept ==
  ASSUME TypeOK, ThreadInv, NothingAfterFinal, Kept, overlapped \subseteq overlapped',
         NEW id,
         \/ UNCHANGED replies
         \/ /\ id \in Id /\ id <= Len(asked) /\ SaysAbout(id)
            /\ Final(id) = {} \/ CameraOf(id) \in overlapped
  PROVE  NothingAfterFinal'
PROOF
<1>1. \A i \in DOMAIN replies : replies[i].req \in Id /\ replies[i].req <= Len(asked)
  <2>1. replies \in Seq(Message)
    BY DEF TypeOK, ThreadsTypeOK
  <2>2. \A i \in DOMAIN replies : replies[i] \in Message
    BY <2>1, ElementOf
  <2> QED
    BY <2>2 DEF Message, ThreadInv
<1>2. \A r \in Id : r <= Len(asked) => asked'[r].cam = CameraOf(r)
  BY DEF Kept, CameraOf
<1>3. ASSUME NEW i \in DOMAIN replies, NEW j \in DOMAIN replies, i < j,
             replies[i].req = replies[j].req
      PROVE  ~replies[i].final \/ asked'[replies[i].req].cam \in overlapped'
  BY <1>1, <1>2, <1>3 DEF NothingAfterFinal
<1>4. CASE UNCHANGED replies
  BY <1>3, <1>4 DEF NothingAfterFinal, CameraOf
<1>5. ASSUME id \in Id, id <= Len(asked),
             NEW final \in BOOLEAN, NEW success \in BOOLEAN \cup {None},
             NEW progress \in 0 .. 100, Reply(id, final, success, progress),
             Final(id) = {} \/ CameraOf(id) \in overlapped
      PROVE  NothingAfterFinal'
  <2>1. /\ DOMAIN replies = 1 .. Len(replies) /\ Len(replies) \in Nat
        /\ DOMAIN replies' = 1 .. (Len(replies) + 1)
        /\ \A i \in DOMAIN replies : replies'[i] = replies[i]
        /\ replies'[Len(replies) + 1] =
             MessageOf(id, final, success, progress)
    <3>1. TypeOK /\ Reply(id, final, success, progress)
      BY <1>5
    <3> QED
      BY ONLY <1>5, <3>1, Saying
  <2>2. replies'[Len(replies) + 1].req = id
    BY <2>1 DEF MessageOf
  <2>3. ASSUME NEW i \in DOMAIN replies', NEW j \in DOMAIN replies', i < j,
               replies'[i].req = replies'[j].req
        PROVE  ~replies'[i].final \/ asked'[replies'[i].req].cam \in overlapped'
    <3>1. i \in DOMAIN replies /\ (j \in DOMAIN replies \/ j = Len(replies) + 1)
      BY <2>1, <2>3
    <3>2. CASE j \in DOMAIN replies
      BY <1>3, <2>1, <2>3, <3>1, <3>2
    <3>3. CASE j = Len(replies) + 1
      <4>1. replies[i].req = id /\ replies'[i] = replies[i]
        BY <2>1, <2>2, <2>3, <3>1, <3>3
      <4>2. Final(id) = {} => ~replies[i].final
        BY <3>1, <4>1 DEF Final
      <4> QED
        BY <1>2, <1>5, <4>1, <4>2
    <3> QED
      BY <3>1, <3>2, <3>3
  <2> QED
    BY <2>3 DEF NothingAfterFinal, CameraOf
<1> QED
  BY <1>4, <1>5 DEF SaysAbout

LEMMA CalibrationUntouched ==
  ASSUME CalibrationInv, Kept, NothingAfterFinal',
         UNCHANGED <<action_clients, goal_handles, registered, overlapped>>,
         \A g \in Id : \/ goals'[g].at = goals[g].at
                       \/ GoalUnderWay(g) /\ goals'[g].at = "lost",
         \/ UNCHANGED mqtt
         \/ mqtt.at # "sending" /\ mqtt.at # "dead" /\ mqtt'.at # "sending"
         \/ mqtt'.at = "dead",
         \/ UNCHANGED executor
         \/ /\ executor.at \notin {"destroying", "clearing"}
            /\ executor'.at \notin {"destroying", "clearing"},
         \A r \in Id : Calibrating(r) /\ Final(r) = {} => Final(r)' = {}
  PROVE  CalibrationInv'
PROOF
<1>1. ASSUME NEW r, Calibrating(r)
      PROVE  Calibrating(r)' /\ CameraOf(r)' = CameraOf(r) /\ r \in Id /\ r <= Len(asked)
  BY <1>1, StillServing DEF Calibrating, Serving, CameraOf
<1>2. \A g \in Id : GoalUnderWay(g)' => GoalUnderWay(g) /\ goals'[g].at = goals[g].at
  BY DEF GoalUnderWay
<1>3. \A g \in Id : goals'[g].at # "none" => goals[g].at # "none"
  BY DEF GoalUnderWay
<1>4. KnownClients'
  BY <1>1, <1>3 DEF CalibrationInv, KnownClients
<1>5. UnansweredUnderWay'
  BY <1>2 DEF CalibrationInv, UnansweredUnderWay, KnownClients, GoalUnderWay
<1>6. ASSUME NEW c, RunUnderWay(c)'
      PROVE  RunUnderWay(c)
  <2>1. CASE \E g \in Id : GoalUnderWay(g)' /\ CameraOf(g)' = c
    BY <1>1, <1>2, <2>1 DEF RunUnderWay, CalibrationInv, KnownClients, GoalUnderWay
  <2>2. CASE executor'.at \in {"destroying", "clearing"} /\ CameraOf(executor.req)' = c
    BY <1>1, <2>2 DEF RunUnderWay, CalibrationInv, CleaningUp
  <2> QED
    BY <1>6, <2>1, <2>2 DEF RunUnderWay, GoalUnderWay
<1>7. AboutToSend'
  <2>1. CASE mqtt'.at # "sending"
    BY <2>1 DEF AboutToSend
  <2>2. CASE UNCHANGED mqtt /\ mqtt.at = "sending"
    <3>1. /\ Calibrating(mqtt.req) /\ goals[mqtt.req].at = "none" /\ Final(mqtt.req) = {}
          /\ CameraOf(mqtt.req) \notin overlapped =>
               /\ action_clients[CameraOf(mqtt.req)] = mqtt.req
               /\ mqtt.req \in registered
               /\ ~RunUnderWay(CameraOf(mqtt.req))
      BY <2>2 DEF CalibrationInv, AboutToSend
    <3>2. /\ Calibrating(mqtt.req)' /\ CameraOf(mqtt.req)' = CameraOf(mqtt.req)
          /\ goals'[mqtt.req].at = "none" /\ Final(mqtt.req)' = {}
      BY <1>1, <2>2, <3>1 DEF GoalUnderWay
    <3>3. CameraOf(mqtt.req) \notin overlapped => ~RunUnderWay(CameraOf(mqtt.req))'
      BY <1>6, <2>2, <3>1, <3>2
    <3> QED
      BY <2>2, <3>1, <3>2, <3>3 DEF AboutToSend
  <2> QED
    BY <2>1, <2>2
<1>8. CleaningUp'
  BY <1>1, <1>2 DEF CalibrationInv, CleaningUp, KnownClients, GoalUnderWay
<1>9. CalibrationSlots'
  <2>1. ASSUME NEW c \in Camera \ overlapped, NEW g \in Id, CameraOf(g)' = c
        PROVE  SlotsOf(c, g)'
    <3>1. CASE goals[g].at = "none" /\ g \notin registered
      <4>1. goals'[g].at = "none" /\ goal_handles[c] # g
        BY <2>1, <3>1 DEF CalibrationInv, KnownHandles, GoalUnderWay
      <4> QED
        BY <3>1, <4>1 DEF SlotsOf, Unfinished
    <3>2. CASE goals[g].at # "none" \/ g \in registered
      <4>1. Calibrating(g)
        BY <3>2 DEF CalibrationInv, KnownClients
      <4>2. SlotsOf(c, g)
        BY <1>1, <2>1, <4>1 DEF CalibrationInv, CalibrationSlots
      <4>3. CleansUp(g)' <=> CleansUp(g)
        BY DEF CleansUp
      <4>4. CASE goals'[g].at = goals[g].at
        BY <4>2, <4>3, <4>4 DEF SlotsOf
      <4>5. CASE GoalUnderWay(g) /\ goals'[g].at = "lost"
        BY <4>2, <4>5 DEF SlotsOf, GoalUnderWay, Unfinished
      <4> QED
        BY <4>4, <4>5
    <3> QED
      BY <3>1, <3>2
  <2> QED
    BY <2>1 DEF CalibrationSlots
<1>10. KnownHandles'
  BY DEF CalibrationInv, KnownHandles, GoalUnderWay
<1>11. NewClients'
  BY <1>3 DEF CalibrationInv, NewClients
<1> QED
  BY <1>4, <1>5, <1>7, <1>8, <1>9, <1>10, <1>11 DEF CalibrationInv

\* What is known of a calibration request, and what a step that keeps the
\* requests and the queue leaves of it.
LEMMA CalibrationFacts ==
  ASSUME CalibrationInv
  PROVE  /\ \A r \in registered : r \in Id => Calibrating(r)
         /\ \A g \in Id : goals[g].at # "none" => Calibrating(g)
         /\ \A r : Calibrating(r) => /\ r \in Id /\ r <= Len(asked) /\ r \notin Pending
                                     /\ CameraOf(r) \in Camera
PROOF
  BY DEF CalibrationInv, KnownClients, Calibrating, Serving

LEMMA CalibratingKept ==
  ASSUME UNCHANGED asked, Pending' \subseteq Pending, NEW r
  PROVE  /\ Calibrating(r) => Calibrating(r)'
         /\ CameraOf(r)' = CameraOf(r)
PROOF
  BY DEF Calibrating, Serving, CameraOf

LEMMA StartCalibrationKeepsCalibration ==
  ASSUME BridgeInv, NEW id \in Id, StartCalibration(id)
  PROVE  CalibrationInv'
PROOF
<1> USE DEF BridgeInv
<1> DEFINE c == CameraOf(id)
<1>1. /\ Take(id) /\ asked[id].topic = "triggered_calibration_request"
      /\ action_clients' = [action_clients EXCEPT ![c] = id]
      /\ registered' = registered \cup {id}
      /\ overlapped' = IF RunUnderWay(c) THEN overlapped \cup {c} ELSE overlapped
      /\ mqtt' = [at |-> "sending", req |-> id]
      /\ UNCHANGED <<asked, executor, replies, goal_handles, goals>>
  BY DEF StartCalibration, Handle, Take, MqttGoes
<1>2. id \in Pending /\ id <= Len(asked) /\ Pending' = Pending \ {id}
  BY <1>1, Taking
<1>3. c \in Camera
  BY <1>2, HandledNamesCamera DEF StartCalibration, CameraOf
<1>4. /\ \A r : /\ Calibrating(r) => Calibrating(r)' /\ r # id
                /\ CameraOf(r)' = CameraOf(r) /\ Final(r)' = Final(r)
      /\ Calibrating(id)'
  BY <1>1, <1>2, <1>3, CalibratingKept, FinalsKept DEF Calibrating, Serving, CameraOf
<1>5. goals[id].at = "none" /\ Final(id) = {}
  BY <1>2, <1>4, CalibrationFacts DEF Final, ThreadInv
<1>6. /\ action_clients'[c] = id
      /\ \A d \in Camera : d # c => action_clients'[d] = action_clients[d]
  BY <1>1, <1>3 DEF TypeOK, CalibrationTypeOK
<1>7. /\ \A d : RunUnderWay(d)' <=> RunUnderWay(d)
      /\ \A g : GoalUnderWay(g)' <=> GoalUnderWay(g)
  BY <1>1 DEF RunUnderWay, GoalUnderWay, CameraOf
<1>8. overlapped \subseteq overlapped' /\ (c \notin overlapped' => ~RunUnderWay(c))
  BY <1>1
<1>9. KnownClients'
  BY <1>1, <1>4, <1>6 DEF CalibrationInv, KnownClients
<1>10. UnansweredUnderWay'
  BY <1>4, <1>7 DEF CalibrationInv, UnansweredUnderWay
<1>11. AboutToSend'
  BY <1>1, <1>4, <1>5, <1>6, <1>7, <1>8 DEF AboutToSend
<1>12. CleaningUp'
  <2>1. ASSUME executor.at \in {"destroying", "clearing"}, CameraOf(executor.req) \notin overlapped'
        PROVE  CameraOf(executor.req) # c
    BY <1>8, <2>1 DEF RunUnderWay
  <2> QED
    BY <1>1, <1>4, <1>6, <1>7, <1>8, <2>1, CalibrationFacts DEF CalibrationInv, CleaningUp
<1>13. CalibrationSlots'
  <2>1. ASSUME NEW d \in Camera \ overlapped', NEW g \in Id, g <= Len(asked), CameraOf(g) = d
        PROVE  SlotsOf(d, g)'
    <3>1. SlotsOf(d, g)
      BY <1>8, <2>1 DEF CalibrationInv, CalibrationSlots
    <3>2. CleansUp(g)' <=> CleansUp(g)
      BY <1>1 DEF CleansUp
    <3>3. CASE g = id
      BY <1>1, <1>5, <1>6, <2>1, <3>1, <3>3 DEF SlotsOf, Unfinished
    <3>4. CASE g # id /\ d # c
      BY <1>1, <1>6, <2>1, <3>1, <3>2, <3>4 DEF SlotsOf
    <3>5. CASE g # id /\ d = c
      <4>1. ~GoalUnderWay(g) /\ ~CleansUp(g)
        BY <1>8, <2>1, <3>5 DEF RunUnderWay, GoalUnderWay, CleansUp
      <4>2. g \in registered => goals[g].at # "none"
        BY <1>1, <3>5 DEF CalibrationInv, NewClients, Take
      <4>3. goals[g].at \in GoalStage
        BY DEF TypeOK, CalibrationTypeOK
      <4>4. goals'[g].at = goals[g].at /\ action_clients'[d] # g
            /\ (g \in registered' <=> g \in registered) /\ goal_handles'[d] = goal_handles[d]
        BY <1>1, <1>6, <3>5
      <4>5. g \in registered => goals[g].at \in Unfinished
        BY <3>1, <4>1, <4>2, <4>3 DEF SlotsOf, GoalUnderWay, GoalStage, Unfinished
      <4> QED
        BY <3>1, <3>2, <4>1, <4>4, <4>5 DEF SlotsOf, GoalUnderWay
    <3> QED
      BY <3>3, <3>4, <3>5
  <2> QED
    BY <1>1, <1>4, <2>1 DEF CalibrationSlots, CameraOf
<1>14. NothingAfterFinal'
  BY <1>1, <1>8 DEF CalibrationInv, NothingAfterFinal, CameraOf
<1>15. KnownHandles'
  BY <1>1 DEF CalibrationInv, KnownHandles
<1>16. NewClients'
  BY <1>1 DEF CalibrationInv, NewClients, Take
<1> QED
  BY <1>9, <1>10, <1>11, <1>12, <1>13, <1>14, <1>15, <1>16 DEF CalibrationInv

LEMMA SendGoalKeepsCalibration ==
  ASSUME BridgeInv, NEW id \in Id, Proceeds("sending", id), Stage(id, "sent"), MqttIdle,
         UNCHANGED <<replies, action_clients, goal_handles, registered, overlapped>>
  PROVE  CalibrationInv'
PROOF
<1> USE DEF BridgeInv
<1> DEFINE c == CameraOf(id)
<1>1. /\ mqtt = [at |-> "sending", req |-> id] /\ mqtt'.at = "idle"
      /\ UNCHANGED <<asked, inbox, executor>>
  BY DEF Proceeds, MqttIdle, MqttGoes
<1>2. /\ goals'[id].at = "sent"
      /\ \A g \in Id : g # id => goals'[g] = goals[g]
  BY Staging DEF GoalStage, Goal, TypeOK, CalibrationTypeOK
<1>3. /\ Calibrating(id) /\ goals[id].at = "none" /\ Final(id) = {}
      /\ c \notin overlapped =>
           action_clients[c] = id /\ id \in registered /\ ~RunUnderWay(c)
  BY <1>1 DEF CalibrationInv, AboutToSend
<1>4. \A r : /\ Calibrating(r) => Calibrating(r)'
             /\ CameraOf(r)' = CameraOf(r) /\ Final(r)' = Final(r)
  BY <1>1, CalibratingKept, FinalsKept DEF Pending
<1>5. \A g \in Id : GoalUnderWay(g)' <=> GoalUnderWay(g) \/ g = id
  BY <1>2 DEF GoalUnderWay
<1>6. KnownClients'
  BY <1>2, <1>3, <1>4 DEF CalibrationInv, KnownClients
<1>7. UnansweredUnderWay'
  BY <1>3, <1>4, <1>5 DEF CalibrationInv, UnansweredUnderWay
<1>8. AboutToSend'
  BY <1>1 DEF AboutToSend
<1>9. CleaningUp'
  <2>1. ASSUME executor.at \in {"destroying", "clearing"}, CameraOf(executor.req) \notin overlapped
        PROVE  c # CameraOf(executor.req)
    BY <1>3, <2>1 DEF RunUnderWay
  <2>2. executor.at \in {"destroying", "clearing"} =>
          executor.req # id /\ executor.req \in Id
    BY <1>3, CalibrationFacts DEF CalibrationInv, CleaningUp
  <2> QED
    BY <1>1, <1>2, <1>4, <1>5, <2>1, <2>2 DEF CalibrationInv, CleaningUp
<1>10. CalibrationSlots'
  <2>1. ASSUME NEW d \in Camera \ overlapped, NEW g \in Id, g <= Len(asked), CameraOf(g) = d
        PROVE  SlotsOf(d, g)'
    <3>1. SlotsOf(d, g)
      BY <2>1 DEF CalibrationInv, CalibrationSlots
    <3>2. CleansUp(g)' <=> CleansUp(g)
      BY <1>1 DEF CleansUp
    <3>3. CASE g = id
      BY <1>2, <1>3, <2>1, <3>1, <3>3 DEF SlotsOf, Unfinished
    <3>4. CASE g # id
      BY <1>2, <3>1, <3>2, <3>4 DEF SlotsOf
    <3> QED
      BY <3>3, <3>4
  <2> QED
    BY <1>1, <1>4, <2>1 DEF CalibrationSlots
<1>11. NothingAfterFinal'
  BY <1>1 DEF CalibrationInv, NothingAfterFinal, CameraOf
<1>12. KnownHandles'
  BY <1>2 DEF CalibrationInv, KnownHandles
<1>13. NewClients'
  BY <1>1, <1>2 DEF CalibrationInv, NewClients
<1> QED
  BY <1>6, <1>7, <1>8, <1>9, <1>10, <1>11, <1>12, <1>13 DEF CalibrationInv

LEMMA GoalResponseKeepsCalibration ==
  ASSUME BridgeInv, NEW id \in Id, NEW accepted \in BOOLEAN, GoalResponse(id, accepted)
  PROVE  CalibrationInv'
PROOF
<1> USE DEF BridgeInv
<1> DEFINE c == CameraOf(id)
<1>1. /\ executor.at = "idle" /\ id \in registered /\ goals[id].at = "sent"
      /\ goal_handles' = [goal_handles EXCEPT ![c] = id]
      /\ UNCHANGED <<asked, inbox, mqtt, executor, replies, action_clients, registered, overlapped>>
  BY DEF GoalResponse, Receives, Starts
<1>2. /\ goals'[id].at \in {"tracked", "rejected"}
      /\ \A g \in Id : g # id => goals'[g] = goals[g]
  BY Staging DEF GoalResponse, GoalStage, Goal, TypeOK, CalibrationTypeOK
<1>3. Calibrating(id) /\ c \in Camera /\ id <= Len(asked)
  BY <1>1, CalibrationFacts
<1>4. \A r : /\ Calibrating(r) => Calibrating(r)'
             /\ CameraOf(r)' = CameraOf(r) /\ Final(r)' = Final(r)
  BY <1>1, CalibratingKept, FinalsKept DEF Pending
<1>5. /\ GoalUnderWay(id)
      /\ \A g \in Id : GoalUnderWay(g)' => GoalUnderWay(g)
  BY <1>1, <1>2 DEF GoalUnderWay
<1>6. /\ goal_handles'[c] = id
      /\ \A d \in Camera : d # c => goal_handles'[d] = goal_handles[d]
  BY <1>1, <1>3 DEF TypeOK, CalibrationTypeOK
<1>7. KnownClients'
  BY <1>1, <1>2, <1>3, <1>4 DEF CalibrationInv, KnownClients
<1>8. UnansweredUnderWay'
  BY <1>4, <1>5 DEF CalibrationInv, UnansweredUnderWay
<1>9. ASSUME NEW d, RunUnderWay(d)'
      PROVE  RunUnderWay(d)
  BY <1>1, <1>4, <1>5, <1>9 DEF RunUnderWay, GoalUnderWay
<1>10. AboutToSend'
  <2>1. ASSUME mqtt.at = "sending"
        PROVE  goals'[mqtt.req].at = "none"
    <3>1. goals[mqtt.req].at = "none" /\ mqtt.req \in Id
      BY <2>1, CalibrationFacts DEF CalibrationInv, AboutToSend
    <3> QED
      BY <1>1, <1>2, <3>1
  <2> QED
    BY <1>1, <1>4, <1>9, <2>1 DEF CalibrationInv, AboutToSend
<1>11. CleaningUp'
  BY <1>1 DEF CleaningUp
<1>12. CalibrationSlots'
  <2>1. ASSUME NEW d \in Camera \ overlapped, NEW g \in Id, g <= Len(asked), CameraOf(g) = d
        PROVE  SlotsOf(d, g)'
    <3>1. SlotsOf(d, g) /\ (d = c => SlotsOf(d, id))
      BY <1>3, <2>1 DEF CalibrationInv, CalibrationSlots
    <3>2. ~CleansUp(g) /\ ~CleansUp(g)'
      BY <1>1 DEF CleansUp
    <3>3. CASE g = id
      BY <1>1, <1>2, <1>6, <2>1, <3>1, <3>3 DEF SlotsOf, Unfinished
    <3>4. CASE g # id /\ d = c
      <4>1. ~GoalUnderWay(g)
        BY <1>5, <3>1, <3>4 DEF SlotsOf, GoalUnderWay
      <4> QED
        BY <1>1, <1>2, <1>6, <2>1, <3>1, <3>2, <3>4, <4>1 DEF SlotsOf, GoalUnderWay
    <3>5. CASE g # id /\ d # c
      BY <1>1, <1>2, <1>6, <2>1, <3>1, <3>2, <3>5 DEF SlotsOf
    <3> QED
      BY <3>3, <3>4, <3>5
  <2> QED
    BY <1>1, <1>4, <2>1 DEF CalibrationSlots
<1>13. NothingAfterFinal'
  BY <1>1 DEF CalibrationInv, NothingAfterFinal, CameraOf
<1>14. KnownHandles'
  BY <1>1, <1>2, <1>6 DEF CalibrationInv, KnownHandles
<1>15. NewClients'
  BY <1>1, <1>2 DEF CalibrationInv, NewClients
<1> QED
  BY <1>7, <1>8, <1>10, <1>11, <1>12, <1>13, <1>14, <1>15 DEF CalibrationInv

LEMMA PublishResultKeepsCalibration ==
  ASSUME BridgeInv, NEW id \in Id, NEW success \in BOOLEAN, PublishResult(id, success)
  PROVE  CalibrationInv'
PROOF
<1> USE DEF BridgeInv
<1> DEFINE c == CameraOf(id)
<1>1. /\ executor.at = "idle" /\ id \in registered /\ goals[id].at = "tracked"
      /\ executor' = [at |-> "destroying", req |-> id]
      /\ Reply(id, TRUE, success, 100)
      /\ UNCHANGED <<asked, inbox, mqtt, action_clients, goal_handles, registered, overlapped>>
  BY DEF PublishResult, Receives, Starts, ExecutorGoes
<1>2. /\ goals'[id].at = "done"
      /\ \A g \in Id : g # id => goals'[g] = goals[g]
  BY Staging DEF PublishResult, GoalStage, Goal, TypeOK, CalibrationTypeOK
<1>3. Calibrating(id) /\ c \in Camera /\ id <= Len(asked)
  BY <1>1, CalibrationFacts
<1>4. SaysAbout(id)
  <2>1. TRUE \in BOOLEAN /\ 100 \in 0 .. 100
    OBVIOUS
  <2> QED
    BY <1>1, <2>1 DEF SaysAbout
<1>5. \A r : /\ Calibrating(r) => Calibrating(r)'
             /\ CameraOf(r)' = CameraOf(r)
             /\ r # id /\ Final(r) = {} => Final(r)' = {}
  BY <1>1, <1>4, CalibratingKept, FinalsOfOthers DEF Pending
<1>6. /\ GoalUnderWay(id) /\ Final(id) = {}
      /\ \A g \in Id : GoalUnderWay(g)' <=> GoalUnderWay(g) /\ g # id
  BY <1>1, <1>2 DEF GoalUnderWay, CalibrationInv, UnansweredUnderWay
<1>7. c \notin overlapped =>
        /\ action_clients[c] = id
        /\ \A g \in Id : GoalUnderWay(g) /\ CameraOf(g) = c => g = id
  <2>1. ASSUME c \notin overlapped, NEW g \in Id, GoalUnderWay(g), CameraOf(g) = c
        PROVE  action_clients[c] = g
    <3>1. g <= Len(asked)
      BY <2>1, CalibrationFacts DEF GoalUnderWay
    <3> QED
      BY <1>3, <2>1, <3>1 DEF CalibrationInv, CalibrationSlots, SlotsOf, GoalUnderWay
  <2> QED
    BY <1>6, <2>1
<1>8. KnownClients'
  BY <1>1, <1>2, <1>3, <1>5 DEF CalibrationInv, KnownClients
<1>9. UnansweredUnderWay'
  BY <1>5, <1>6 DEF CalibrationInv, UnansweredUnderWay
<1>10. AboutToSend'
  <2>1. ASSUME mqtt.at = "sending", NEW r, r = mqtt.req
        PROVE  /\ goals'[r].at = "none" /\ r # id
               /\ CameraOf(r) \notin overlapped => CameraOf(r) # c /\ ~RunUnderWay(CameraOf(r))'
    <3>1. /\ goals[r].at = "none" /\ r \in Id
          /\ CameraOf(r) \notin overlapped => ~RunUnderWay(CameraOf(r))
      BY <2>1, CalibrationFacts DEF CalibrationInv, AboutToSend
    <3>2. r # id /\ goals'[r].at = "none"
      BY <1>1, <1>2, <3>1
    <3>3. CameraOf(r) = c => RunUnderWay(CameraOf(r))
      BY <1>3, <1>6 DEF RunUnderWay, GoalUnderWay
    <3>4. CameraOf(r) # c /\ RunUnderWay(CameraOf(r))' => RunUnderWay(CameraOf(r))
      BY <1>1, <1>2, <1>5, <1>6 DEF RunUnderWay, GoalUnderWay
    <3> QED
      BY <3>1, <3>2, <3>3, <3>4
  <2> QED
    BY <1>1, <1>5, <2>1 DEF CalibrationInv, AboutToSend
<1>11. CleaningUp'
  BY <1>1, <1>2, <1>3, <1>5, <1>6, <1>7 DEF CleaningUp
<1>12. CalibrationSlots'
  <2>1. ASSUME NEW d \in Camera \ overlapped, NEW g \in Id, g <= Len(asked), CameraOf(g) = d
        PROVE  SlotsOf(d, g)'
    <3>1. SlotsOf(d, g)
      BY <2>1 DEF CalibrationInv, CalibrationSlots
    <3>2. ~CleansUp(g) /\ (CleansUp(g)' <=> g = id)
      BY <1>1 DEF CleansUp
    <3>3. CASE g = id
      BY <1>1, <1>2, <1>7, <2>1, <3>2, <3>3 DEF SlotsOf, Unfinished
    <3>4. CASE g # id
      BY <1>1, <1>2, <3>1, <3>2, <3>4 DEF SlotsOf
    <3> QED
      BY <3>3, <3>4
  <2> QED
    BY <1>1, <1>5, <2>1 DEF CalibrationSlots
<1>13. NothingAfterFinal'
  <2>1. Kept
    BY <1>1 DEF Kept, Pending
  <2> QED
    BY <1>1, <1>3, <1>4, <1>6, <2>1, NothingAfterFinalKept DEF CalibrationInv
<1>14. KnownHandles'
  BY <1>1, <1>2 DEF CalibrationInv, KnownHandles
<1>15. NewClients'
  BY <1>1, <1>2 DEF CalibrationInv, NewClients
<1> QED
  BY <1>8, <1>9, <1>10, <1>11, <1>12, <1>13, <1>14, <1>15 DEF CalibrationInv

LEMMA DestroyClientKeepsCalibration ==
  ASSUME BridgeInv, NEW id \in Id, DestroyClient(id)
  PROVE  CalibrationInv'
PROOF
<1> USE DEF BridgeInv
<1> DEFINE c == CameraOf(id)
<1>1. /\ executor = [at |-> "destroying", req |-> id]
      /\ registered' = registered \ {action_clients[c]}
      /\ executor' = [at |-> IF action_clients[c] = None THEN "exited" ELSE "clearing",
                      req |-> id]
      /\ UNCHANGED <<asked, inbox, mqtt, replies, action_clients, goal_handles, goals, overlapped>>
  BY DEF DestroyClient, Continues, ExecutorGoes
<1>2. /\ Calibrating(id) /\ goals[id].at = "done"
      /\ c \in Camera
      /\ c \notin overlapped =>
           /\ action_clients[c] = id
           /\ \A g \in Id : GoalUnderWay(g) => CameraOf(g) # c
  BY <1>1, CalibrationFacts DEF CalibrationInv, CleaningUp
<1>3. \A r : /\ Calibrating(r) => Calibrating(r)'
             /\ CameraOf(r)' = CameraOf(r) /\ Final(r)' = Final(r)
             /\ GoalUnderWay(r)' <=> GoalUnderWay(r)
  BY <1>1, CalibratingKept, FinalsKept DEF Pending, GoalUnderWay
<1>4. c \notin overlapped => executor'.at = "clearing" /\ registered' = registered \ {id}
  BY <1>1, <1>2, AbsentAssumption
<1>5. executor'.req = id /\ executor'.at \in {"exited", "clearing"}
  BY <1>1
<1>6. \A r \in registered : CameraOf(r) # c => r \in registered'
  <2>1. ASSUME NEW r \in registered, r = action_clients[c]
        PROVE  CameraOf(r) = c
    <3>1. r # None
      BY AbsentAssumption DEF TypeOK, CalibrationTypeOK
    <3> QED
      BY <1>2, <2>1, <3>1 DEF CalibrationInv, KnownClients
  <2> QED
    BY <1>1, <2>1
<1>7. KnownClients'
  BY <1>1, <1>3 DEF CalibrationInv, KnownClients
<1>8. UnansweredUnderWay'
  BY <1>3 DEF CalibrationInv, UnansweredUnderWay
<1>9. AboutToSend'
  <2>1. ASSUME mqtt.at = "sending", NEW r, r = mqtt.req, CameraOf(r) \notin overlapped
        PROVE  action_clients[CameraOf(r)] = r /\ r \in registered' /\ ~RunUnderWay(CameraOf(r))'
    <3>1. /\ action_clients[CameraOf(r)] = r /\ r \in registered /\ ~RunUnderWay(CameraOf(r))
          /\ CameraOf(r) \in Camera
      BY <2>1, CalibrationFacts DEF CalibrationInv, AboutToSend
    <3>2. CameraOf(r) # c
      BY <1>1, <3>1 DEF RunUnderWay
    <3>3. ~RunUnderWay(CameraOf(r))'
      BY <1>1, <1>3, <1>5, <3>1, <3>2 DEF RunUnderWay, GoalUnderWay
    <3> QED
      BY <1>6, <3>1, <3>2, <3>3
  <2> QED
    BY <1>1, <1>3, <2>1 DEF CalibrationInv, AboutToSend
<1>10. CleaningUp'
  BY <1>1, <1>2, <1>3, <1>4, <1>5 DEF CleaningUp
<1>11. CalibrationSlots'
  <2>1. ASSUME NEW d \in Camera \ overlapped, NEW g \in Id, g <= Len(asked), CameraOf(g) = d
        PROVE  SlotsOf(d, g)'
    <3>1. SlotsOf(d, g)
      BY <2>1 DEF CalibrationInv, CalibrationSlots
    <3>2. CASE g = id
      <4>1. c \notin overlapped /\ CleansUp(g)' /\ id \notin registered'
        BY <1>4, <1>5, <2>1, <3>2 DEF CleansUp
      <4> QED
        BY <1>1, <1>2, <3>2, <4>1 DEF SlotsOf, Unfinished
    <3>3. CASE g # id
      <4>1. g \in registered' <=> g \in registered
        BY <1>1, <1>4, <1>6, <2>1, <3>3
      <4>2. ~CleansUp(g)
        BY <1>1, <3>3 DEF CleansUp
      <4> QED
        BY <1>1, <3>1, <4>1, <4>2 DEF SlotsOf
    <3> QED
      BY <3>2, <3>3
  <2> QED
    BY <1>1, <1>3, <2>1 DEF CalibrationSlots
<1>12. NothingAfterFinal'
  BY <1>1 DEF CalibrationInv, NothingAfterFinal, CameraOf
<1>13. KnownHandles'
  BY <1>1 DEF CalibrationInv, KnownHandles
<1>14. NewClients'
  BY <1>1 DEF CalibrationInv, NewClients
<1> QED
  BY <1>7, <1>8, <1>9, <1>10, <1>11, <1>12, <1>13, <1>14 DEF CalibrationInv

LEMMA ClearSlotsKeepsCalibration ==
  ASSUME BridgeInv, NEW id \in Id, ClearSlots(id)
  PROVE  CalibrationInv'
PROOF
<1> USE DEF BridgeInv
<1> DEFINE c == CameraOf(id)
<1>1. /\ executor = [at |-> "clearing", req |-> id] /\ executor'.at = "idle"
      /\ action_clients' = [action_clients EXCEPT ![c] = None]
      /\ goal_handles' = [goal_handles EXCEPT ![c] = None]
      /\ UNCHANGED <<asked, inbox, mqtt, replies, registered, goals, overlapped>>
  BY DEF ClearSlots, Continues, ExecutorIdle, ExecutorGoes
<1>2. /\ Calibrating(id) /\ goals[id].at = "done"
      /\ c \in Camera
      /\ c \notin overlapped =>
           /\ action_clients[c] = id
           /\ \A g \in Id : GoalUnderWay(g) => CameraOf(g) # c
           /\ id \notin registered
  BY <1>1, CalibrationFacts DEF CalibrationInv, CleaningUp
<1>3. \A r : /\ Calibrating(r) => Calibrating(r)'
             /\ CameraOf(r)' = CameraOf(r) /\ Final(r)' = Final(r)
             /\ GoalUnderWay(r)' <=> GoalUnderWay(r)
  BY <1>1, CalibratingKept, FinalsKept DEF Pending, GoalUnderWay
<1>4. /\ action_clients'[c] = None /\ goal_handles'[c] = None
      /\ \A d \in Camera : d # c => /\ action_clients'[d] = action_clients[d]
                                    /\ goal_handles'[d] = goal_handles[d]
  BY <1>1, <1>2 DEF TypeOK, CalibrationTypeOK
<1>5. KnownClients'
  BY <1>1, <1>3, <1>4 DEF CalibrationInv, KnownClients
<1>6. UnansweredUnderWay'
  BY <1>3 DEF CalibrationInv, UnansweredUnderWay
<1>7. AboutToSend'
  <2>1. ASSUME mqtt.at = "sending", NEW r, r = mqtt.req, CameraOf(r) \notin overlapped
        PROVE  action_clients'[CameraOf(r)] = r /\ r \in registered /\ ~RunUnderWay(CameraOf(r))'
    <3>1. /\ action_clients[CameraOf(r)] = r /\ r \in registered /\ ~RunUnderWay(CameraOf(r))
          /\ CameraOf(r) \in Camera
      BY <2>1, CalibrationFacts DEF CalibrationInv, AboutToSend
    <3>2. CameraOf(r) # c
      BY <1>1, <3>1 DEF RunUnderWay
    <3>3. ~RunUnderWay(CameraOf(r))'
      BY <1>1, <1>3, <3>1 DEF RunUnderWay, GoalUnderWay
    <3> QED
      BY <1>4, <3>1, <3>2, <3>3
  <2> QED
    BY <1>1, <1>3, <2>1 DEF CalibrationInv, AboutToSend
<1>8. CleaningUp'
  BY <1>1 DEF CleaningUp
<1>9. CalibrationSlots'
  <2>1. ASSUME NEW d \in Camera \ overlapped, NEW g \in Id, g <= Len(asked), CameraOf(g) = d
        PROVE  SlotsOf(d, g)'
    <3>1. SlotsOf(d, g) /\ g # None
      BY <2>1, AbsentAssumption DEF CalibrationInv, CalibrationSlots
    <3>2. CASE d # c
      <4>1. ~CleansUp(g)
        BY <1>1, <2>1, <3>2 DEF CleansUp
      <4> QED
        BY <1>1, <1>4, <2>1, <3>1, <3>2, <4>1 DEF SlotsOf
    <3>3. CASE d = c /\ g = id
      BY <1>1, <1>2, <1>4, <2>1, <3>1, <3>3 DEF SlotsOf, Unfinished
    <3>4. CASE d = c /\ g # id
      <4>1. ~CleansUp(g) /\ ~GoalUnderWay(g) /\ action_clients[c] # g
        BY <1>1, <1>2, <2>1, <3>4 DEF CleansUp
      <4> QED
        BY <1>1, <1>4, <2>1, <3>1, <3>4, <4>1 DEF SlotsOf, GoalUnderWay
    <3> QED
      BY <3>2, <3>3, <3>4
  <2> QED
    BY <1>1, <1>3, <2>1 DEF CalibrationSlots
<1>10. NothingAfterFinal'
  BY <1>1 DEF CalibrationInv, NothingAfterFinal, CameraOf
<1>11. KnownHandles'
  BY <1>1, <1>4, AbsentAssumption DEF CalibrationInv, KnownHandles
<1>12. NewClients'
  BY <1>1 DEF CalibrationInv, NewClients
<1> QED
  BY <1>5, <1>6, <1>7, <1>8, <1>9, <1>10, <1>11, <1>12 DEF CalibrationInv

LEMMA MqttLeavesCalibration ==
  ASSUME BridgeInv, NEW id \in Id, MqttStep(id), UNCHANGED calibrationVars,
         \/ UNCHANGED mqtt
         \/ mqtt.at # "sending" /\ mqtt.at # "dead" /\ mqtt'.at # "sending"
         \/ mqtt'.at = "dead",
         \/ Take(id) \/ UNCHANGED replies
         \/ (asked[id].topic # "triggered_calibration_request" /\ Final(id) = {})
  PROVE  CalibrationInv'
PROOF
<1> USE DEF BridgeInv
<1>1. Kept /\ id <= Len(asked) /\ UNCHANGED executor
  BY KeptByThreads, Taking DEF MqttStep, ThreadInv, Take
<1>2. Take(id) => Final(id) = {} /\ id \in Pending
  BY Taking DEF Final, ThreadInv
<1>3. NothingAfterFinal'
  BY <1>1, <1>2, NothingAfterFinalKept DEF MqttStep, CalibrationInv, calibrationVars
<1>4. ASSUME NEW r \in Id, Calibrating(r), Final(r) = {}
      PROVE  Final(r)' = {}
  <2>1. CASE UNCHANGED replies
    BY <1>4, <2>1, FinalsKept
  <2>2. CASE r # id
    BY <1>4, <2>2, FinalsOfOthers DEF MqttStep
  <2>3. Take(id) \/ asked[id].topic # "triggered_calibration_request" => r # id
    BY <1>2, <1>4 DEF Calibrating, Serving
  <2> QED
    BY <2>1, <2>2, <2>3
<1> QED
  BY <1>1, <1>3, <1>4, CalibrationUntouched DEF calibrationVars

LEMMA MqttKeepsCalibration ==
  ASSUME BridgeInv, NEW id \in Id, MqttThread(id)
  PROVE  CalibrationInv'
PROOF
<1>1. MqttStep(id)
  BY MqttSteps DEF BridgeInv
<1>2. CASE StartCalibration(id)
  BY <1>2, StartCalibrationKeepsCalibration
<1>3. CASE SendGoal(id)
  <2>1. CASE Stage(id, "sent") /\ MqttIdle
    BY <1>3, <2>1, SendGoalKeepsCalibration DEF SendGoal
  <2>2. CASE MqttGoes("dead", id) /\ UNCHANGED goals
    BY <1>1, <1>3, <2>2, MqttLeavesCalibration DEF SendGoal, MqttGoes, calibrationVars
  <2> QED
    BY <1>3, <2>1, <2>2 DEF SendGoal
<1>4. CASE AbortNothing(id) \/ AbortGoal(id)
  <2>1. Take(id) /\ UNCHANGED calibrationVars /\ (UNCHANGED mqtt \/ MqttGoes("dead", id))
    BY <1>4 DEF AbortNothing, AbortGoal, Handle
  <2> QED
    BY <1>1, <2>1, MqttLeavesCalibration DEF MqttGoes
<1>5. CASE HandleService(id) /\ UNCHANGED calibrationVars
  <2>1. /\ Take(id) /\ mqtt.at = "idle"
        /\ mqtt'.at # "sending"
    BY <1>5, ServiceHandlers DEF ServiceHandling, Take, MqttGoes
  <2> QED
    BY <1>1, <1>5, <2>1, MqttLeavesCalibration
<1>6. CASE ServiceReply(id) /\ UNCHANGED calibrationVars
  <2>1. mqtt = [at |-> "waiting", req |-> id] /\ mqtt'.at # "sending"
    BY <1>6 DEF ServiceReply, Proceeds, MqttGoes, MqttIdle
  <2>2. asked[id].topic # "triggered_calibration_request" /\ Final(id) = {}
    BY <2>1 DEF BridgeInv, ServiceInv, NoService
  <2> QED
    BY <1>1, <1>6, <2>1, <2>2, MqttLeavesCalibration
<1>7. CASE ParseFails(id) \/ Refuse(id) \/ EnumerateDevices(id) \/ GetTransformation(id)
  <2>1. Take(id) /\ (UNCHANGED mqtt \/ MqttGoes("dead", id))
    BY <1>7 DEF ParseFails, Refuse, EnumerateDevices, GetTransformation, Handle
  <2>2. UNCHANGED calibrationVars
    BY <1>7 DEF ParseFails, Refuse, EnumerateDevices, GetTransformation, handlerVars,
                calibrationVars
  <2> QED
    BY <1>1, <2>1, <2>2, MqttLeavesCalibration DEF MqttGoes
<1>8. CASE HandleFrame(id) /\ UNCHANGED calibrationVars
  <2>1. CASE RefuseFrame(id) \/ GetFrame(id)
    <3>1. Take(id) /\ (UNCHANGED mqtt \/ MqttGoes("storing", id))
      BY <2>1 DEF RefuseFrame, GetFrame, Handle
    <3> QED
      BY <1>1, <1>8, <3>1, MqttLeavesCalibration DEF MqttGoes, Take
  <2>2. CASE StoreHandle(id)
    <3>1. UNCHANGED replies /\ MqttIdle /\ mqtt.at = "storing"
      BY <2>2 DEF StoreHandle, Proceeds
    <3> QED
      BY <1>1, <1>8, <3>1, MqttLeavesCalibration DEF MqttIdle, MqttGoes
  <2> QED
    BY <1>8, <2>1, <2>2 DEF HandleFrame
<1> QED
  BY <1>2, <1>3, <1>4, <1>5, <1>6, <1>7, <1>8 DEF MqttThread, HandleCalibration

LEMMA FeedbackKeepsCalibration ==
  ASSUME BridgeInv, NEW id \in Id, NEW p \in Progress, Feedback(id, p)
  PROVE  CalibrationInv'
PROOF
<1> USE DEF BridgeInv
<1>1. /\ executor.at = "idle" /\ id \in registered
      /\ goals[id].at \in {"sent", "tracked", "done"}
      /\ goals' = [goals EXCEPT ![id].progress = p]
      /\ Reply(id, FALSE, FALSE, p)
      /\ UNCHANGED <<asked, inbox, mqtt, executor, action_clients, goal_handles, registered, overlapped>>
  BY DEF Feedback, Receives, Starts
<1>2. Calibrating(id) /\ id <= Len(asked) /\ CameraOf(id) \in Camera
  BY <1>1, CalibrationFacts
<1>3. \A g \in Id : goals'[g].at = goals[g].at
  BY <1>1, Progressing DEF Goal, TypeOK, CalibrationTypeOK
<1>4. p \in 0 .. 100 /\ SaysAbout(id)
  <2>1. FALSE \in BOOLEAN /\ p \in 0 .. 100
    BY ProgressAssumption
  <2> QED
    BY <1>1, <2>1 DEF SaysAbout
<1>5. Kept
  BY <1>1 DEF Kept, Pending
<1>6. Final(id) = {} \/ CameraOf(id) \in overlapped
  <2>1. CASE GoalUnderWay(id)
    BY <2>1 DEF CalibrationInv, UnansweredUnderWay
  <2>2. CASE goals[id].at = "done"
    BY <1>1, <1>2, <2>2 DEF CalibrationInv, CalibrationSlots, SlotsOf, CleansUp
  <2> QED
    BY <1>1, <2>1, <2>2 DEF GoalUnderWay
<1>7. NothingAfterFinal'
  BY <1>1, <1>2, <1>4, <1>5, <1>6, NothingAfterFinalKept DEF CalibrationInv
<1>8. \A r \in Id : Final(r) = {} => Final(r)' = {}
  BY <1>1, <1>4, FinalsAfterFeedback
<1> QED
  BY <1>1, <1>3, <1>5, <1>7, <1>8, CalibrationUntouched

LEMMA ExecutorKeepsCalibration ==
  ASSUME BridgeInv, NEW id \in Id, id <= Len(asked), ExecutorThread(id)
  PROVE  CalibrationInv'
PROOF
<1> USE DEF BridgeInv
<1>1. Kept
  BY ExecutorSteps, KeptByThreads
<1>2. ASSUME UNCHANGED <<calibrationVars, replies>>,
             executor.at \notin {"destroying", "clearing"},
             executor'.at \notin {"destroying", "clearing"}, UNCHANGED mqtt
      PROVE  CalibrationInv'
  <2>1. NothingAfterFinal'
    BY <1>1, <1>2, NothingAfterFinalKept DEF CalibrationInv, calibrationVars
  <2> QED
    BY <1>1, <1>2, <2>1, FinalsKept, CalibrationUntouched DEF calibrationVars
<1>3. CASE CameraAnswers(id)
  BY <1>2, <1>3 DEF CameraAnswers, ServiceResponse, Starts
<1>4. CASE (ImageBeforeHandle(id) \/ ImageCallback(id)) /\ UNCHANGED calibrationVars
  BY <1>2, <1>4 DEF ImageBeforeHandle, ImageCallback, Starts, ExecutorGoes
<1>5. CASE ResetHandle(id) /\ UNCHANGED calibrationVars
  BY <1>2, <1>5 DEF ResetHandle, Continues, ExecutorGoes
<1>6. CASE PublishFrame(id) /\ UNCHANGED calibrationVars
  <2>1. /\ executor = [at |-> "publishing", req |-> id] /\ executor'.at = "idle"
        /\ SaysAbout(id) /\ UNCHANGED mqtt
    BY <1>6, Answering DEF PublishFrame, Continues, ExecutorIdle, ExecutorGoes
  <2>2. Final(id) = {} /\ asked[id].topic = "get_frame_request"
    BY <2>1 DEF FrameInv, FrameRequest, Serving
  <2>3. NothingAfterFinal'
    BY <1>1, <1>6, <2>1, <2>2, NothingAfterFinalKept DEF CalibrationInv, calibrationVars
  <2>4. ASSUME NEW r \in Id, Calibrating(r), Final(r) = {}
        PROVE  Final(r)' = {}
    <3>1. r # id
      BY <2>2, <2>4 DEF Calibrating, Serving
    <3> QED
      BY <2>1, <2>4, <3>1, FinalsOfOthers
  <2> QED
    BY <1>1, <1>6, <2>1, <2>3, <2>4, CalibrationUntouched DEF calibrationVars
<1>7. CASE GoalIsAnswered(id)
  BY <1>7, GoalResponseKeepsCalibration DEF GoalIsAnswered, Respond
<1>8. CASE FeedbackComes(id)
  BY <1>8, FeedbackKeepsCalibration DEF FeedbackComes
<1>9. CASE ResultComes(id)
  BY <1>9, PublishResultKeepsCalibration DEF ResultComes, Result
<1>10. CASE DestroyClient(id) \/ ClearSlots(id)
  BY <1>10, DestroyClientKeepsCalibration, ClearSlotsKeepsCalibration
<1> QED
  BY <1>3, <1>4, <1>5, <1>6, <1>7, <1>8, <1>9, <1>10
  DEF ExecutorThread, ImageComes, ImageArrives, Executor, ExecuteFrame, ExecuteCalibration

(* Clients, the broker and the cameras.                                    *)
-----------------------------------------------------------------------------

\* They leave the threads where they are; a camera that goes away may take
\* the call and goals with it.
EnvironmentStep ==
  /\ Kept
  /\ UNCHANGED <<mqtt, executor, replies, served, topic_handle, subscriptions>>
  /\ UNCHANGED <<action_clients, goal_handles, registered, overlapped>>
  /\ \/ UNCHANGED call
     \/ call.at = "sent" /\ call' = [call EXCEPT !.at = "lost"]
  /\ \/ UNCHANGED goals
     \/ \E c \in Camera : LoseGoals(c)
  /\ ThreadsTypeOK' /\ ThreadInv'

LEMMA EnvironmentKeepsInvariant ==
  ASSUME BridgeInv, EnvironmentStep
  PROVE  BridgeInv'
PROOF
<1> USE DEF BridgeInv, EnvironmentStep
<1>1. /\ goals' \in [Id -> Goal]
      /\ \A g \in Id : \/ goals'[g].at = goals[g].at
                       \/ GoalUnderWay(g) /\ goals'[g].at = "lost"
  <2>1. goals \in [Id -> Goal]
    BY DEF Goal, TypeOK, CalibrationTypeOK
  <2>2. ASSUME NEW c \in Camera, LoseGoals(c), NEW g \in Id
        PROVE  /\ goals'[g] \in Goal
               /\ \/ goals'[g].at = goals[g].at
                  \/ GoalUnderWay(g) /\ goals'[g].at = "lost"
    <3>1. goals[g] \in Goal
      BY <2>1
    <3>2. /\ [goals[g] EXCEPT !.at = "lost"] \in Goal
          /\ [goals[g] EXCEPT !.at = "lost"].at = "lost"
      BY <3>1 DEF Goal, GoalStage
    <3>3. \/ goals'[g] = goals[g]
          \/ GoalUnderWay(g) /\ goals'[g] = [goals[g] EXCEPT !.at = "lost"]
      BY <2>2 DEF LoseGoals, GoalUnderWay
    <3> QED
      BY <3>1, <3>2, <3>3
  <2>3. ASSUME NEW c \in Camera, LoseGoals(c)
        PROVE  goals' \in [Id -> Goal]
    <3>1. DOMAIN goals' = Id /\ goals' = [g \in Id |-> goals'[g]]
      BY <2>3 DEF LoseGoals
    <3> QED
      BY <2>2, <2>3, <3>1
  <2> QED
    BY <2>1, <2>2, <2>3
<1>2. call' \in [at : CallPoint, outcome : Outcome]
      /\ \/ UNCHANGED call
         \/ call.at # "none" /\ call'.at = "lost"
  <2>1. call \in [at : CallPoint, outcome : Outcome]
    BY DEF TypeOK, ServicesTypeOK
  <2>2. /\ [call EXCEPT !.at = "lost"] \in [at : CallPoint, outcome : Outcome]
        /\ [call EXCEPT !.at = "lost"].at = "lost"
    BY <2>1 DEF CallPoint
  <2> QED
    BY <2>1, <2>2
<1>3. TypeOK'
  BY <1>1, <1>2 DEF TypeOK, ServicesTypeOK, FramesTypeOK, CalibrationTypeOK, Goal
<1>4. FrameInv'
  BY FramesUntouched, FinalsKept DEF frameVars, FrameRequest
<1>5. ServiceInv'
  <2>1. mqtt'.at = "waiting" => Final(mqtt.req)' = {}
    BY FinalsKept DEF ServiceInv
  <2> QED
    BY <1>2, <2>1, ServicesUntouched
<1>6. CalibrationInv'
  <2>1. NothingAfterFinal'
    BY NothingAfterFinalKept DEF CalibrationInv
  <2> QED
    BY <1>1, <2>1, FinalsKept, CalibrationUntouched
<1> QED
  BY <1>3, <1>4, <1>5, <1>6

LEMMA AskIsOfTheEnvironment ==
  ASSUME TypeOK, ThreadInv, Ask
  PROVE  EnvironmentStep
PROOF
<1> DEFINE id == Len(asked) + 1
<1>1. PICK r \in Requests[id] : asked' = Append(asked, r)
  BY DEF Ask
<1>2. /\ Len(asked) \in Nat /\ Len(asked) < MaxRequests /\ MaxRequests \in Nat
      /\ asked \in Seq(Request) /\ inbox \in Seq(Id)
  BY BoundsAssumption DEF Ask, TypeOK, ThreadsTypeOK
<1>3. id \in Id /\ id \in Nat
  BY <1>2 DEF Id
<1>4. r \in Request
  BY <1>1, <1>3, RequestsAssumption
<1>5. /\ asked' \in Seq(Request) /\ Len(asked') = id /\ Len(asked') <= MaxRequests
      /\ \A i \in 1 .. Len(asked) : asked'[i] = asked[i]
  BY <1>1, <1>2, <1>4, Appended
<1>6. /\ UNCHANGED <<connected, up, faults, mqtt, executor, replies, handlerVars>>
      /\ \/ inbox' = Append(inbox, id) /\ UNCHANGED unanswered
         \/ Drop(id) /\ UNCHANGED inbox
  BY DEF Ask
<1>7. /\ inbox' \in Seq(Id)
      /\ \A i \in DOMAIN inbox' :
           \/ i \in DOMAIN inbox /\ inbox'[i] = inbox[i]
           \/ inbox'[i] = id /\ \A j \in DOMAIN inbox : j < i
      /\ \A i, j \in DOMAIN inbox' : i < j => i \in DOMAIN inbox
  <2>1. CASE UNCHANGED inbox
    BY <1>2, <2>1
  <2>2. CASE inbox' = Append(inbox, id)
    <3>1. /\ Len(inbox) \in Nat /\ inbox' \in Seq(Id)
          /\ DOMAIN inbox = 1 .. Len(inbox) /\ DOMAIN inbox' = 1 .. (Len(inbox) + 1)
          /\ \A i \in 1 .. Len(inbox) : inbox'[i] = inbox[i]
          /\ inbox'[Len(inbox) + 1] = id
      BY <1>2, <1>3, <2>2, Appended
    <3>2. \A i \in DOMAIN inbox' : i \in DOMAIN inbox \/ i = Len(inbox) + 1
      BY <3>1
    <3>3. \A i, j \in DOMAIN inbox' : i < j => i \in DOMAIN inbox
      BY <3>1
    <3>4. \A j \in DOMAIN inbox : j < Len(inbox) + 1
      BY <3>1
    <3> QED
      BY <3>1, <3>2, <3>3, <3>4
  <2> QED
    BY <1>6, <2>1, <2>2
<1>8. /\ \A i \in DOMAIN inbox : inbox[i] \in Id /\ inbox[i] \in Nat /\ inbox[i] <= Len(asked)
      /\ \A i \in DOMAIN inbox : i \in Nat
      /\ \A i \in DOMAIN replies : replies[i].req \in Nat
  <2>1. \A i \in DOMAIN inbox : inbox[i] \in Id /\ i \in Nat
    BY <1>2, ElementOf
  <2>2. replies \in Seq(Message)
    BY DEF TypeOK, ThreadsTypeOK
  <2>3. \A i \in DOMAIN replies : replies[i] \in Message
    BY <2>2, ElementOf
  <2> QED
    BY <2>1, <2>3, IdsAreNaturals DEF Message, ThreadInv
<1>9. \A other \in Pending' : other \in Pending \/ other = id
  BY <1>7 DEF Pending
<1>10. Kept
  <2>1. \A i \in Id : i <= Len(asked) => i \in 1 .. Len(asked) /\ i <= id
    BY <1>2, <1>3, IdsAreNaturals
  <2>2. ~(id <= Len(asked))
    BY <1>2
  <2> QED
    BY <1>5, <1>9, <2>1, <2>2 DEF Kept
<1>11. ThreadsTypeOK'
  BY <1>3, <1>5, <1>6, <1>7 DEF TypeOK, ThreadsTypeOK, Drop
<1>12. ThreadInv'
  <2>1. \A i \in DOMAIN inbox' : inbox'[i] <= Len(asked')
    BY <1>2, <1>5, <1>7, <1>8
  <2>2. ASSUME NEW i \in DOMAIN inbox', NEW j \in DOMAIN inbox', i < j
        PROVE  inbox'[i] < inbox'[j]
    <3>1. i \in DOMAIN inbox /\ inbox'[i] = inbox[i] /\ inbox[i] < id
      <4>1. i \in DOMAIN inbox
        BY <1>7, <2>2
      <4>2. inbox'[i] = inbox[i]
        BY <1>7, <1>8, <4>1
      <4> QED
        BY <1>2, <1>8, <4>1, <4>2
    <3> QED
      BY <1>7, <2>2, <3>1 DEF ThreadInv
  <2>3. mqtt'.at # "idle" =>
          /\ mqtt'.req \in Id /\ mqtt'.req <= Len(asked')
          /\ \A other \in Pending' : mqtt'.req < other
    <3>1. mqtt.at # "idle" =>
            /\ mqtt.req \in Id /\ mqtt.req <= Len(asked) /\ mqtt.req \in Nat
            /\ \A other \in Pending : mqtt.req < other
      BY IdsAreNaturals DEF ThreadInv
    <3>2. mqtt.at # "idle" => mqtt.req < id /\ mqtt.req <= id
      BY <1>2, <3>1
    <3> QED
      BY <1>5, <1>6, <1>9, <3>1, <3>2
  <2>4. executor'.at # "idle" => executor'.req \in Id /\ executor'.req <= Len(asked')
    <3>1. executor.at # "idle" =>
            executor.req \in Id /\ executor.req \in Nat /\ executor.req <= Len(asked)
      BY IdsAreNaturals DEF ThreadInv
    <3> QED
      BY <1>2, <1>5, <1>6, <3>1
  <2>5. \A i \in DOMAIN replies' :
          replies'[i].req <= Len(asked') /\ replies'[i].req \notin Pending'
    <3>1. \A i \in DOMAIN replies : replies[i].req <= Len(asked) /\ replies[i].req \notin Pending
      BY DEF ThreadInv
    <3>2. \A i \in DOMAIN replies : replies[i].req # id /\ replies[i].req <= id
      BY <1>2, <1>8, <3>1
    <3> QED
      BY <1>5, <1>6, <1>9, <3>1, <3>2
  <2> QED
    BY <2>1, <2>2, <2>3, <2>4, <2>5 DEF ThreadInv
<1> QED
  BY <1>6, <1>10, <1>11, <1>12
  DEF EnvironmentStep, handlerVars, serviceVars, frameVars, calibrationVars

LEMMA OthersAreOfTheEnvironment ==
  ASSUME TypeOK, ThreadInv,
         Disconnect \/ Connect \/ \E c \in Camera : CameraDown(c) \/ CameraUp(c)
  PROVE  EnvironmentStep
PROOF
<1> USE DEF handlerVars, serviceVars, frameVars, calibrationVars, TypeOK, ThreadsTypeOK
<1>1. faults + 1 \in 0 .. MaxFaults \/ ~Fault
  BY BoundsAssumption DEF Fault
<1>2. CASE Disconnect
  <2>1. /\ inbox' = << >> /\ connected' = FALSE /\ faults' = faults + 1 /\ Fault
        /\ unanswered' = unanswered \cup Pending
        /\ UNCHANGED <<asked, up, mqtt, executor, replies, handlerVars>>
    BY <1>2 DEF Disconnect, Fault, Pending
  <2>2. Pending' = {} /\ DOMAIN inbox' = {} /\ inbox' \in Seq(Id)
    BY <2>1 DEF Pending
  <2>3. Pending \subseteq Id
    BY ElementOf DEF Pending
  <2>4. ThreadsTypeOK'
    BY <1>1, <2>1, <2>2, <2>3
  <2>5. Kept
    BY <2>1, <2>2 DEF Kept
  <2>6. ThreadInv'
    BY <2>1, <2>2 DEF ThreadInv
  <2> QED
    BY <2>1, <2>4, <2>5, <2>6 DEF EnvironmentStep
<1>3. ASSUME UNCHANGED <<asked, inbox, mqtt, executor, replies>>
      PROVE  Kept /\ ThreadInv'
  BY <1>3 DEF Kept, Pending, ThreadInv
<1>4. CASE Connect
  BY <1>3, <1>4 DEF Connect, EnvironmentStep
<1>5. ASSUME NEW c \in Camera, CameraUp(c)
      PROVE  EnvironmentStep
  BY <1>3, <1>5 DEF CameraUp, EnvironmentStep
<1>6. ASSUME NEW c \in Camera, CameraDown(c)
      PROVE  EnvironmentStep
  <2>1. \/ UNCHANGED call
        \/ call.at = "sent" /\ call' = [call EXCEPT !.at = "lost"]
    <3>1. UNCHANGED call \/ LoseCall
      BY <1>6 DEF CameraDown
    <3> QED
      BY <3>1 DEF LoseCall
  <2>2. ThreadsTypeOK'
    BY <1>1, <1>6 DEF CameraDown, Fault
  <2>3. /\ UNCHANGED <<asked, inbox, mqtt, executor, replies, served, topic_handle, subscriptions>>
        /\ UNCHANGED <<action_clients, goal_handles, registered, overlapped>>
        /\ LoseGoals(c)
    BY <1>6 DEF CameraDown
  <2> QED
    BY <1>3, <2>1, <2>2, <2>3 DEF EnvironmentStep
<1> QED
  BY <1>2, <1>4, <1>5, <1>6

(* The invariant is inductive.                                             *)
-----------------------------------------------------------------------------

LEMMA InitEstablishes ==
  ASSUME Init
  PROVE  BridgeInv
PROOF
<1> USE DEF Init, ThreadsInit, ServicesInit, FramesInit, CalibrationInit
<1>1. ThreadsTypeOK
  BY BoundsAssumption DEF ThreadsTypeOK, MqttPoint, ExecutorPoint
<1>2. ServicesTypeOK /\ FramesTypeOK /\ CalibrationTypeOK
  BY DEF ServicesTypeOK, FramesTypeOK, CalibrationTypeOK, NoCall, CallPoint, Outcome, GoalStage
<1>3. ThreadInv
  BY DEF ThreadInv
<1>4. FrameInv
  BY DEF FrameInv, FrameSlots, Busy
<1>5. ServiceInv
  BY DEF ServiceInv, ServedInOrder, NoCall
<1>6. CalibrationInv
  BY AbsentAssumption
  DEF CalibrationInv, KnownClients, KnownHandles, NewClients, UnansweredUnderWay, GoalUnderWay,
      AboutToSend, CleaningUp, CalibrationSlots, SlotsOf, Unfinished, NothingAfterFinal
<1> QED
  BY <1>1, <1>2, <1>3, <1>4, <1>5, <1>6 DEF BridgeInv, TypeOK

LEMMA MqttThreadKeepsInvariant ==
  ASSUME BridgeInv, NEW id \in Id, MqttThread(id)
  PROVE  BridgeInv'
PROOF
<1>1. ThreadsTypeOK' /\ ThreadInv'
  BY MqttSteps, MqttStepPreservesThreads DEF BridgeInv
<1>2. HandlersTypeOK'
  BY MqttKeepsHandlerTypes DEF BridgeInv
<1> QED
  BY <1>1, <1>2, MqttKeepsFrames, MqttKeepsServices, MqttKeepsCalibration
  DEF BridgeInv, TypeOK, HandlersTypeOK

LEMMA ExecutorKeepsInvariant ==
  ASSUME BridgeInv, NEW id \in Id, id <= Len(asked), ExecutorThread(id)
  PROVE  BridgeInv'
PROOF
<1>1. ThreadsTypeOK' /\ ThreadInv'
  BY ExecutorSteps, ExecutorStepPreservesThreads DEF BridgeInv
<1>2. HandlersTypeOK'
  BY ExecutorKeepsHandlerTypes DEF BridgeInv
<1> QED
  BY <1>1, <1>2, ExecutorKeepsFrames, ExecutorKeepsServices, ExecutorKeepsCalibration
  DEF BridgeInv, TypeOK, HandlersTypeOK

LEMMA StutterKeepsInvariant ==
  ASSUME BridgeInv, UNCHANGED bridgeVars
  PROVE  BridgeInv'
PROOF
<1>1. EnvironmentStep
  BY DEF BridgeInv, TypeOK, ThreadsTypeOK, ThreadInv, EnvironmentStep, Kept, Pending, bridgeVars,
         threadVars, serviceVars, frameVars, calibrationVars
<1> QED
  BY <1>1, EnvironmentKeepsInvariant

\* Whose step it is.
Surroundings == Disconnect \/ Connect \/ \E c \in Camera : CameraDown(c) \/ CameraUp(c)

LEMMA StepKinds ==
  ASSUME BridgeInv, [Next]_bridgeVars
  PROVE  \/ Ask \/ Surroundings \/ UNCHANGED bridgeVars
         \/ \E id \in Id : MqttThread(id)
         \/ \E id \in Id : id <= Len(asked) /\ ExecutorThread(id)
PROOF
<1>1. \A id \in Id \cap DOMAIN asked : id <= Len(asked)
  BY DEF BridgeInv, TypeOK, ThreadsTypeOK
<1>2. ASSUME NEW id \in Id \cap AtHand, Executor(id)
      PROVE  id <= Len(asked)
  <2>1. \E point \in {"resetting", "publishing", "destroying", "clearing"} :
          Continues(point, id)
    BY <1>2 DEF Executor, ExecuteFrame, ExecuteCalibration, ResetHandle, PublishFrame,
                DestroyClient, ClearSlots
  <2>2. executor.at # "idle" /\ executor.req = id
    BY <2>1 DEF Continues
  <2> QED
    BY <2>2 DEF BridgeInv, ThreadInv
<1> QED
  BY <1>1, <1>2 DEF Next, Bridge, Work, Surroundings, ExecutorThread

LEMMA NextKeepsInvariant ==
  ASSUME BridgeInv, [Next]_bridgeVars
  PROVE  BridgeInv'
PROOF
<1>1. CASE Ask
  BY <1>1, AskIsOfTheEnvironment, EnvironmentKeepsInvariant DEF BridgeInv
<1>2. CASE Surroundings
  BY <1>2, OthersAreOfTheEnvironment, EnvironmentKeepsInvariant DEF BridgeInv, Surroundings
<1> QED
  BY <1>1, <1>2, StepKinds, MqttThreadKeepsInvariant, ExecutorKeepsInvariant,
     StutterKeepsInvariant

(* What becomes of a request to set a parameter.                           *)
-----------------------------------------------------------------------------

IsSet(id) == asked[id].topic = "set_param_request"
Took(id) == \E k \in DOMAIN served : served[k] = [req |-> id, ok |-> TRUE]
\* The bridge knows the type and can convert the value.
Writable(r) == KnownType(r) /\ Converts(r)

Set(id) == Took(id) /\ Writable(asked[id])

\* Only a value of a type the bridge knows is sent; what the call answers is
\* what the camera did, and what the reply says is what the call answered.
SetInv ==
  /\ mqtt.at = "waiting" /\ IsSet(mqtt.req) => Writable(asked[mqtt.req])
  /\ call.at = "answered" /\ call.outcome = "success" => Took(mqtt.req)
  /\ \A i \in DOMAIN replies :
       replies[i].success = TRUE /\ IsSet(replies[i].req) => Set(replies[i].req)

\* An accepted one that was taken up is waited for, was served or given up.
SetsSettled ==
  \A id \in Id :
    /\ id <= Len(asked) /\ IsSet(id) /\ Accepted(asked[id])
    => \/ id \in Pending \/ id \in unanswered
       \/ mqtt.at = "waiting" /\ mqtt.req = id
       \/ \E k \in DOMAIN served : served[k].req = id

\* The goal of a run is sent before a later request is taken up.
GoalsInOrder ==
  \A g \in Id : goals[g].at # "none" =>
    /\ g <= Len(asked)
    /\ \A id \in Pending : g < id
    /\ mqtt.at # "idle" => g <= mqtt.req

IsRun(id) == asked[id].topic = "triggered_calibration_request"

\* Only runs overlap, and only they send more than one message.
ProgressOfRuns ==
  /\ \A i \in DOMAIN replies : replies[i].final \/ IsRun(replies[i].req)
  /\ overlapped # {} => \E id \in Id : id <= Len(asked) /\ IsRun(id)

SettingInv == SetInv /\ SetsSettled /\ GoalsInOrder /\ ProgressOfRuns

LEMMA RepliesKnown ==
  ASSUME TypeOK, ThreadInv, NEW i \in DOMAIN replies
  PROVE  replies[i] \in Message /\ replies[i].req \in Id /\ replies[i].req <= Len(asked)
PROOF
<1>1. replies[i] \in Message
  BY ElementOf DEF TypeOK, ThreadsTypeOK
<1> QED
  BY <1>1 DEF Message, ThreadInv

\* What the camera has served stays served.
StillServed ==
  \A k \in DOMAIN served : k \in DOMAIN served' /\ served'[k] = served[k]

LEMMA SetUntouched ==
  ASSUME TypeOK, ThreadInv, ServiceInv, SetInv, Kept, StillServed,
         \/ UNCHANGED <<call, mqtt>>
         \/ call'.at # "answered" /\ (UNCHANGED mqtt \/ mqtt'.at # "waiting"),
         NEW id, UNCHANGED replies \/ (id \in Id /\ id <= Len(asked)),
         \A i \in DOMAIN replies' :
           \/ i \in DOMAIN replies /\ replies'[i] = replies[i]
           \/ /\ replies'[i].req = id
              /\ replies'[i].success = TRUE /\ IsSet(id) => Set(id)
  PROVE  SetInv'
PROOF
<1>1. \A r \in Id : r <= Len(asked) => asked'[r] = asked[r]
  BY DEF Kept
<1>2. \A r : Took(r) => Took(r)'
  BY DEF Took, StillServed
<1>3. ASSUME NEW r \in Id, r <= Len(asked), IsSet(r)', IsSet(r) => Set(r)
      PROVE  Set(r)'
  BY <1>1, <1>2, <1>3 DEF IsSet, Set
<1>4. ASSUME NEW i \in DOMAIN replies', replies'[i].success = TRUE, IsSet(replies[i].req)'
      PROVE  Set(replies[i].req)'
  <2>1. CASE i \in DOMAIN replies /\ replies'[i] = replies[i]
    <3>1. replies[i].req \in Id /\ replies[i].req <= Len(asked)
      BY <2>1, RepliesKnown
    <3>2. IsSet(replies[i].req) => Set(replies[i].req)
      BY <1>4, <2>1 DEF SetInv
    <3> QED
      BY <1>3, <1>4, <2>1, <3>1, <3>2
  <2>2. CASE UNCHANGED replies
    BY <1>4, <2>1, <2>2
  <2>3. CASE /\ id \in Id /\ id <= Len(asked) /\ replies'[i].req = id
             /\ replies'[i].success = TRUE /\ IsSet(id) => Set(id)
    BY <1>3, <1>4, <2>3
  <2> QED
    BY <2>1, <2>2, <2>3
<1>5. mqtt'.at = "waiting" =>
        UNCHANGED mqtt /\ mqtt.req \in Id /\ mqtt.req <= Len(asked)
  BY DEF ThreadInv
<1>6. mqtt'.at = "waiting" /\ IsSet(mqtt.req)' =>
        Writable(asked'[mqtt'.req])
  BY <1>1, <1>5 DEF SetInv, IsSet
<1>7. call'.at = "answered" /\ call'.outcome = "success" => Took(mqtt.req)'
  BY <1>2 DEF SetInv, Took
<1> QED
  BY <1>4, <1>6, <1>7 DEF SetInv

\* A call to set a parameter is made only with a value the bridge could make.
LEMMA SetIsSentWithValue ==
  ASSUME NEW id, HandleService(id), IsSet(id)
  PROVE  mqtt'.at # "waiting" \/ Writable(asked[id])
PROOF
<1>1. SetParam(id)
  BY DEF HandleService, GetDeviceInfo, SendHwReset, SendHwmCommand, GetSafetyPreset,
         SetSafetyPreset, GetSafetyInterfaceConfig, SetSafetyInterfaceConfig, GetCalibConfig,
         SetCalibConfig, GetApplicationConfig, SetApplicationConfig, GetParam, Handle, IsSet
<1>2. mqtt.at = "idle"
  BY <1>1 DEF SetParam, Handle, Take
<1>3. CASE asked[id].cam \notin up
  <2>1. UNCHANGED mqtt
    BY <1>1, <1>3 DEF SetParam, CallService, ServiceMissing, CallAsync, CallRaises
  <2> QED
    BY <1>2, <2>1
<1>4. CASE asked[id].cam \in up /\ ~Writable(asked[id])
  <2>1. UNCHANGED mqtt \/ MqttGoes("dead", id)
    BY <1>1, <1>4 DEF SetParam, Writable, CallService, ServiceMissing, CallRaises
  <2> QED
    BY <1>2, <2>1 DEF MqttGoes
<1> QED
  BY <1>3, <1>4

LEMMA HandleServiceKeepsSet ==
  ASSUME BridgeInv, SetInv, ThreadInv', NEW id \in Id, HandleService(id)
  PROVE  SetInv'
PROOF
<1> USE DEF BridgeInv
<1>1. /\ Take(id) /\ mqtt.at = "idle" /\ call.at = "none"
      /\ UNCHANGED <<asked, replies, served>>
      /\ \/ UNCHANGED <<mqtt, call>>
         \/ MqttGoes("dead", id) /\ UNCHANGED call
         \/ MqttGoes("waiting", id) /\ call' = [at |-> "sent", outcome |-> "failure"]
  BY ServiceHandlers DEF ServiceHandling, Take, ServiceInv
<1>2. call'.at # "answered"
  BY <1>1
<1>3. mqtt'.at = "waiting" => mqtt'.req = id
  BY <1>1 DEF MqttGoes
<1>4. mqtt'.at = "waiting" /\ IsSet(mqtt.req)' => Writable(asked'[mqtt'.req])
  BY <1>1, <1>3, SetIsSentWithValue DEF IsSet
<1> QED
  BY <1>1, <1>2, <1>4 DEF SetInv, IsSet, Set, Took

LEMMA ServiceReplyKeepsSet ==
  ASSUME BridgeInv, SetInv, NEW id \in Id, ServiceReply(id)
  PROVE  SetInv'
PROOF
<1> USE DEF BridgeInv
<1>1. /\ mqtt = [at |-> "waiting", req |-> id] /\ call.at = "answered"
      /\ call'.at = "none" /\ mqtt'.at # "waiting"
      /\ UNCHANGED <<asked, inbox, served>>
      /\ UNCHANGED replies \/ Answer(id, ReplySuccess(id))
  BY DEF ServiceReply, Proceeds, WaitForFuture, NoCall, MqttGoes, MqttIdle
<1>2. id <= Len(asked) /\ Kept /\ StillServed
  BY <1>1 DEF ThreadInv, Kept, Pending, StillServed
<1>3. ReplySuccess(id) = TRUE /\ IsSet(id) => Set(id)
  <2>1. IsSet(id) => ReplySuccess(id) = (call.outcome = "success")
    BY DEF IsSet, ReplySuccess
  <2> QED
    BY <1>1, <2>1 DEF SetInv, Set
<1>4. \A i \in DOMAIN replies' :
        \/ i \in DOMAIN replies /\ replies'[i] = replies[i]
        \/ /\ replies'[i].req = id
           /\ replies'[i].success = TRUE /\ IsSet(id) => Set(id)
  <2>1. ReplySuccess(id) \in BOOLEAN \cup {None} /\ 0 \in 0 .. 100 /\ TRUE \in BOOLEAN
    BY DEF ReplySuccess
  <2>2. CASE Answer(id, ReplySuccess(id))
    <3>1. \A i \in DOMAIN replies' :
            \/ i \in DOMAIN replies /\ replies'[i] = replies[i]
            \/ replies'[i] = MessageOf(id, TRUE, ReplySuccess(id), 0)
      BY <2>1, <2>2, AnsweredThat
    <3> QED
      BY <1>3, <3>1 DEF MessageOf
  <2> QED
    BY <1>1, <2>2
<1> QED
  BY <1>1, <1>2, <1>4, SetUntouched

LEMMA CameraServes ==
  ASSUME BridgeInv, NEW id \in Id, CameraAnswers(id)
  PROVE  /\ StillServed
         /\ UNCHANGED <<asked, inbox, mqtt, replies, unanswered, goals, overlapped>>
         /\ call'.at = "answered"
         /\ call'.outcome = "success" => Took(id)'
         /\ mqtt.at = "waiting" /\ mqtt.req = id
PROOF
<1>1. PICK outcome \in Outcomes(asked[id]) :
        /\ call' = [at |-> "answered", outcome |-> outcome]
        /\ served' = Append(served, [req |-> id, ok |-> outcome = "success"])
  BY DEF CameraAnswers, ServiceResponse
<1>2. [req |-> id, ok |-> outcome = "success"] \in [req : Id, ok : BOOLEAN]
  OBVIOUS
<1>3. /\ DOMAIN served = 1 .. Len(served) /\ Len(served) \in Nat
      /\ DOMAIN served' = 1 .. (Len(served) + 1)
      /\ \A k \in 1 .. Len(served) : served'[k] = served[k]
      /\ served'[Len(served) + 1] = [req |-> id, ok |-> outcome = "success"]
  BY <1>1, <1>2, Appended DEF BridgeInv, TypeOK, ServicesTypeOK
<1>4. StillServed
  BY <1>3 DEF StillServed
<1>5. outcome = "success" => Took(id)'
  <2>1. Len(served) + 1 \in DOMAIN served'
    BY <1>3
  <2> QED
    BY <1>3, <2>1 DEF Took
<1> QED
  BY <1>1, <1>4, <1>5 DEF CameraAnswers, ServiceResponse, Starts, calibrationVars

LEMMA MqttKeepsSet ==
  ASSUME BridgeInv, SetInv, ThreadInv', NEW id \in Id, MqttThread(id)
  PROVE  SetInv'
PROOF
<1> USE DEF BridgeInv
<1>1. Kept /\ id <= Len(asked)
  <2>1. MqttStep(id)
    BY MqttSteps
  <2> QED
    BY <2>1, KeptByThreads, Taking DEF MqttStep, ThreadInv
<1>2. CASE OtherHandling(id)
  <2>1. ASSUME NEW success \in BOOLEAN, NEW progress \in 0 .. 100,
               Reply(id, TRUE, success, progress), Modest(id, success)
        PROVE  \A i \in DOMAIN replies' :
                 \/ i \in DOMAIN replies /\ replies'[i] = replies[i]
                 \/ replies'[i].req = id /\ (replies'[i].success # TRUE \/ ~IsSet(id))
    <3>1. /\ MessageOf(id, TRUE, success, progress).req = id
          /\ MessageOf(id, TRUE, success, progress).success = success
      BY DEF MessageOf
    <3>2. \A i \in DOMAIN replies' :
            \/ i \in DOMAIN replies /\ replies'[i] = replies[i]
            \/ replies'[i] = MessageOf(id, TRUE, success, progress)
      BY <2>1, SaidThat
    <3>3. success # TRUE \/ ~IsSet(id)
      BY <2>1 DEF Modest, NoService, IsSet
    <3> QED
      BY <3>1, <3>2, <3>3
  <2>2. \A i \in DOMAIN replies' :
          \/ i \in DOMAIN replies /\ replies'[i] = replies[i]
          \/ replies'[i].req = id /\ (replies'[i].success # TRUE \/ ~IsSet(id))
    BY <1>2, <2>1 DEF OtherHandling
  <2>3. StillServed /\ UNCHANGED call /\ call.at # "answered" /\ mqtt'.at # "waiting"
    BY <1>2 DEF OtherHandling, serviceVars, StillServed, ServiceInv
  <2> QED
    BY <1>1, <2>2, <2>3, SetUntouched
<1> QED
  BY <1>2, OtherHandlers, HandleServiceKeepsSet, ServiceReplyKeepsSet

LEMMA ExecutorKeepsSet ==
  ASSUME BridgeInv, SetInv, NEW id \in Id, id <= Len(asked), ExecutorThread(id)
  PROVE  SetInv'
PROOF
<1> USE DEF BridgeInv
<1>1. ExecutorStep(id) /\ Kept
  BY ExecutorSteps, KeptByThreads
<1>2. CASE CameraAnswers(id)
  <2>1. /\ StillServed /\ UNCHANGED <<asked, mqtt, replies>>
        /\ mqtt.req = id
        /\ call'.outcome = "success" => Took(id)'
    BY <1>2, CameraServes
  <2>2. \A r : Set(r) => Set(r)'
    BY <2>1 DEF Set, Took, StillServed
  <2>3. mqtt'.at = "waiting" /\ IsSet(mqtt.req)' =>
          Writable(asked'[mqtt'.req])
    BY <2>1 DEF SetInv, IsSet
  <2>4. call'.at = "answered" /\ call'.outcome = "success" => Took(mqtt.req)'
    BY <2>1 DEF Took
  <2>5. \A i \in DOMAIN replies' :
          replies'[i].success = TRUE /\ IsSet(replies[i].req)' => Set(replies[i].req)'
    BY <2>1, <2>2 DEF SetInv, IsSet
  <2> QED
    BY <2>3, <2>4, <2>5 DEF SetInv
<1>3. CASE OtherCallback(id)
  <2>1. UNCHANGED replies \/ (SaysAbout(id) /\ ~IsSet(id))
    BY <1>1, <1>3 DEF OtherCallback, Calibrating, Serving, ExecutorStep, IsSet
  <2>2. \A i \in DOMAIN replies' :
          \/ i \in DOMAIN replies /\ replies'[i] = replies[i]
          \/ replies'[i].req = id /\ ~IsSet(id)
    BY <2>1, Said
  <2>3. StillServed /\ UNCHANGED <<call, mqtt>>
    BY <1>1, <1>3 DEF OtherCallback, serviceVars, StillServed, ExecutorStep
  <2> QED
    BY <1>1, <2>2, <2>3, SetUntouched
<1> QED
  BY <1>2, <1>3, OtherCallbacks

LEMMA EnvironmentKeepsSet ==
  ASSUME BridgeInv, SetInv, EnvironmentStep
  PROVE  SetInv'
PROOF
<1>1. call'.at # "answered" \/ UNCHANGED call
  <2>1. call \in [at : CallPoint, outcome : Outcome]
    BY DEF BridgeInv, TypeOK, ServicesTypeOK
  <2>2. [call EXCEPT !.at = "lost"].at = "lost"
    BY <2>1
  <2> QED
    BY <2>2 DEF EnvironmentStep
<1> QED
  BY <1>1, SetUntouched DEF EnvironmentStep, BridgeInv, StillServed

\* What makes a request be settled stays so.
LEMMA SettledStays ==
  ASSUME SetsSettled, Kept, StillServed, unanswered \subseteq unanswered', NEW taken,
         \A id \in Id : id <= Len(asked') => id <= Len(asked) \/ id \in unanswered' \/ id \in Pending',
         \A id \in Pending : id \in Pending' \cup unanswered' \/ id = taken,
         mqtt.at = "waiting" =>
           UNCHANGED mqtt \/ mqtt.req \in unanswered' \/ \E k \in DOMAIN served : served[k].req = mqtt.req,
         taken \in Id /\ taken <= Len(asked) =>
           \/ taken \in Pending' \cup unanswered'
           \/ mqtt'.at = "waiting" /\ mqtt'.req = taken
           \/ asked[taken].topic # "set_param_request" \/ ~Accepted(asked[taken])
  PROVE  SetsSettled'
PROOF
<1> SUFFICES ASSUME NEW id \in Id, id <= Len(asked'), IsSet(id)', Accepted(asked'[id])
             PROVE  \/ id \in Pending' \/ id \in unanswered'
                    \/ mqtt'.at = "waiting" /\ mqtt'.req = id
                    \/ \E k \in DOMAIN served' : served'[k].req = id
  BY DEF SetsSettled
<1>1. CASE id <= Len(asked)
  <2>1. asked'[id] = asked[id] /\ IsSet(id)
    BY <1>1 DEF Kept, IsSet
  <2>2. \/ id \in Pending \/ id \in unanswered
        \/ mqtt.at = "waiting" /\ mqtt.req = id
        \/ \E k \in DOMAIN served : served[k].req = id
    BY <1>1, <2>1 DEF SetsSettled
  <2>3. (\E k \in DOMAIN served : served[k].req = id) =>
          \E k \in DOMAIN served' : served'[k].req = id
    BY DEF StillServed
  <2> QED
    BY <1>1, <2>1, <2>2, <2>3 DEF IsSet
<1> QED
  BY <1>1

LEMMA MqttKeepsSettled ==
  ASSUME BridgeInv, SetsSettled, NEW id \in Id, MqttThread(id)
  PROVE  SetsSettled'
PROOF
<1> USE DEF BridgeInv
<1>1. MqttStep(id) /\ Kept /\ UNCHANGED asked /\ unanswered \subseteq unanswered'
  BY MqttSteps, KeptByThreads DEF MqttStep, Drop
<1>2. \A other \in Pending : other \in Pending' \/ other = id
  <2>1. CASE Take(id)
    BY <2>1, Taking
  <2>2. CASE UNCHANGED inbox
    BY <2>2 DEF Pending
  <2> QED
    BY <1>1, <2>1, <2>2 DEF MqttStep
<1>3. UNCHANGED inbox => Pending' = Pending
  BY DEF Pending
<1>4. CASE HandleService(id)
  <2>1. /\ mqtt.at = "idle" /\ StillServed
        /\ Drop(id) \/ MqttGoes("waiting", id)
    BY <1>4, ServiceHandlers DEF ServiceHandling, Take, StillServed
  <2>2. id \in unanswered' \/ (mqtt'.at = "waiting" /\ mqtt'.req = id)
    BY <2>1 DEF Drop, MqttGoes
  <2> QED
    BY <1>1, <1>2, <2>1, <2>2, SettledStays
<1>5. CASE ServiceReply(id)
  <2>1. /\ mqtt.at = "waiting" /\ mqtt.req = id /\ call.at = "answered"
        /\ UNCHANGED inbox /\ StillServed
    BY <1>5 DEF ServiceReply, Proceeds, WaitForFuture, StillServed
  <2>2. \E k \in DOMAIN served : served[k].req = mqtt.req
    BY <2>1 DEF ServiceInv
  <2>3. \A other \in Pending : other \in Pending' \cup unanswered' \/ other = None
    BY <1>3, <2>1
  <2> QED
    BY <1>1, <2>1, <2>2, <2>3, SettledStays, IdsAreNaturals
<1>6. CASE OtherHandling(id)
  <2>1. mqtt.at # "waiting" /\ StillServed
    BY <1>6 DEF OtherHandling, serviceVars, StillServed
  <2>2. CASE UNCHANGED inbox
    <3>1. \A other \in Pending : other \in Pending' \cup unanswered' \/ other = None
      BY <1>3, <2>2
    <3> QED
      BY <1>1, <2>1, <3>1, SettledStays, IdsAreNaturals
  <2>3. CASE \/ asked[id].topic # "set_param_request"
             \/ Drop(id) \/ ~Accepted(asked[id])
    <3>1. \/ id \in Pending' \cup unanswered'
          \/ asked[id].topic # "set_param_request" \/ ~Accepted(asked[id])
      BY <2>3 DEF Drop
    <3> QED
      BY <1>1, <1>2, <2>1, <3>1, SettledStays
  <2> QED
    BY <1>6, <2>2, <2>3 DEF OtherHandling
<1> QED
  BY <1>4, <1>5, <1>6, OtherHandlers

\* A request published is delivered or dropped, and one delivered is not lost
\* without being dropped.
LEMMA NoneIsLost ==
  ASSUME TypeOK, UNCHANGED <<asked, inbox>> \/ Ask \/ Disconnect
  PROVE  /\ \A id \in Id : id <= Len(asked') =>
              id <= Len(asked) \/ id \in unanswered' \/ id \in Pending'
         /\ \A id \in Pending : id \in Pending' \cup unanswered'
PROOF
<1>1. CASE UNCHANGED <<asked, inbox>>
  BY <1>1 DEF Pending
<1>2. CASE Ask
  <2>1. /\ asked \in Seq(Request) /\ inbox \in Seq(Id)
        /\ Len(asked) \in Nat
        /\ \E r : asked' = Append(asked, r)
        /\ inbox' = Append(inbox, Len(asked) + 1) \/ (UNCHANGED inbox /\ Drop(Len(asked) + 1))
    BY <1>2 DEF Ask, TypeOK, ThreadsTypeOK
  <2>2. Len(asked') = Len(asked) + 1
    BY <2>1
  <2>3. \A id \in Id : id <= Len(asked') => id <= Len(asked) \/ id = Len(asked) + 1
    BY <2>1, <2>2, IdsAreNaturals
  <2>4. Pending \subseteq Pending' /\ (Len(asked) + 1 \in Pending' \/ Len(asked) + 1 \in unanswered')
    <3>1. CASE UNCHANGED inbox /\ Drop(Len(asked) + 1)
      BY <3>1 DEF Pending, Drop
    <3>2. CASE inbox' = Append(inbox, Len(asked) + 1)
      <4>1. /\ Len(inbox) \in Nat /\ DOMAIN inbox = 1 .. Len(inbox)
            /\ DOMAIN inbox' = 1 .. (Len(inbox) + 1)
            /\ \A i \in 1 .. Len(inbox) : inbox'[i] = inbox[i]
            /\ inbox'[Len(inbox) + 1] = Len(asked) + 1
        BY <2>1, <3>2
      <4>2. Len(inbox) + 1 \in DOMAIN inbox' /\ DOMAIN inbox \subseteq DOMAIN inbox'
        BY <4>1
      <4> QED
        BY <4>1, <4>2 DEF Pending
    <3> QED
      BY <2>1, <3>1, <3>2
  <2> QED
    BY <2>3, <2>4
<1>3. CASE Disconnect
  BY <1>3 DEF Disconnect, Pending
<1> QED
  BY <1>1, <1>2, <1>3

LEMMA OthersKeepSettled ==
  ASSUME BridgeInv, SetsSettled, Kept, UNCHANGED mqtt, StillServed,
         unanswered \subseteq unanswered',
         UNCHANGED <<asked, inbox>> \/ Ask \/ Disconnect
  PROVE  SetsSettled'
PROOF
<1>1. None \notin Id
  BY IdsAreNaturals
<1> QED
  BY <1>1, NoneIsLost, SettledStays DEF BridgeInv

\* Goals are sent one at a time, by the request paho's thread is at.
LEMMA MqttKeepsGoalsInOrder ==
  ASSUME BridgeInv, GoalsInOrder, ThreadInv', NEW id \in Id, MqttThread(id)
  PROVE  GoalsInOrder'
PROOF
<1> USE DEF BridgeInv
<1>1. MqttStep(id) /\ UNCHANGED asked
  BY MqttSteps, KeptByThreads
<1>2. /\ id <= Len(asked) /\ Pending' \subseteq Pending
      /\ Take(id) => id \in Pending
      /\ \A other \in Pending' : id < other
      /\ mqtt'.at # "idle" => mqtt'.req = id
  <2>1. CASE Take(id)
    BY <1>1, <2>1, Taking DEF MqttStep, MqttIdle, MqttGoes, Take
  <2>2. CASE mqtt.at # "idle" /\ mqtt.req = id /\ UNCHANGED inbox /\ ~Take(id)
    <3>1. Pending' = Pending
      BY <2>2 DEF Pending
    <3> QED
      BY <1>1, <2>2, <3>1 DEF MqttStep, MqttIdle, MqttGoes, ThreadInv
  <2> QED
    BY <1>1, <2>1, <2>2 DEF MqttStep
<1>3. \A g \in Id : goals'[g].at # "none" =>
        goals[g].at # "none" \/ (g = id /\ mqtt.at # "idle")
  <2>1. SendGoal(id) => mqtt.at # "idle" /\ (UNCHANGED goals \/ Stage(id, "sent"))
    BY DEF SendGoal, Proceeds
  <2>2. UNCHANGED goals \/ SendGoal(id)
    BY DEF MqttThread, ParseFails, Refuse, EnumerateDevices, GetTransformation,
           HandleFrame, HandleCalibration, StartCalibration, AbortNothing, AbortGoal,
           handlerVars, calibrationVars
  <2>3. Stage(id, "sent") => \A g \in Id : g # id => goals'[g] = goals[g]
    BY Staging DEF GoalStage, Goal, TypeOK, CalibrationTypeOK
  <2> QED
    BY <2>1, <2>2, <2>3
<1>4. ASSUME NEW g \in Id, goals'[g].at # "none"
      PROVE  g <= Len(asked') /\ (\A other \in Pending' : g < other)
             /\ (mqtt'.at # "idle" => g <= mqtt'.req)
  <2>1. id \in Nat /\ g \in Nat
    BY IdsAreNaturals
  <2>2. CASE g = id
    BY <1>1, <1>2, <2>1, <2>2
  <2>3. CASE goals[g].at # "none"
    <3>1. g <= Len(asked) /\ (\A other \in Pending : g < other)
          /\ (mqtt.at # "idle" => g <= mqtt.req)
      BY <2>3 DEF GoalsInOrder
    <3>2. CASE Take(id)
      <4>1. g < id
        BY <1>2, <3>1, <3>2
      <4> QED
        BY <1>1, <1>2, <2>1, <3>1, <4>1
    <3>3. CASE mqtt.at # "idle" /\ mqtt.req = id
      BY <1>1, <1>2, <3>1, <3>3
    <3> QED
      BY <1>1, <3>2, <3>3 DEF MqttStep
  <2> QED
    BY <1>3, <1>4, <2>2, <2>3
<1> QED
  BY <1>4 DEF GoalsInOrder

LEMMA OthersKeepGoalsInOrder ==
  ASSUME TypeOK, ThreadsTypeOK', GoalsInOrder, Kept, UNCHANGED mqtt,
         \A g \in Id : goals'[g].at # "none" => goals[g].at # "none"
  PROVE  GoalsInOrder'
PROOF
<1> SUFFICES ASSUME NEW g \in Id, goals'[g].at # "none"
             PROVE  /\ g <= Len(asked')
                    /\ \A id \in Pending' : g < id
                    /\ mqtt'.at # "idle" => g <= mqtt'.req
  BY DEF GoalsInOrder
<1>1. /\ g <= Len(asked) /\ g <= Len(asked')
      /\ \A id \in Pending : g < id
      /\ mqtt.at # "idle" => g <= mqtt.req
  BY DEF GoalsInOrder, Kept
<1>2. ASSUME NEW id \in Pending'
      PROVE  g < id
  <2>1. inbox' \in Seq(Id)
    BY DEF ThreadsTypeOK
  <2>2. id \in Id
    BY <1>2, <2>1, ElementOf DEF Pending
  <2>3. id \in Nat /\ g \in Nat /\ Len(asked) \in Nat
    BY <2>2, IdsAreNaturals DEF TypeOK, ThreadsTypeOK
  <2>4. CASE id <= Len(asked)
    BY <1>1, <1>2, <2>4 DEF Kept
  <2>5. CASE ~(id <= Len(asked))
    BY <1>1, <2>3, <2>5
  <2> QED
    BY <2>4, <2>5
<1> QED
  BY <1>1, <1>2

\* The executor and the cameras move goals on, but start none.
LEMMA ExecutorStartsNoGoal ==
  ASSUME TypeOK, NEW id \in Id, ExecutorThread(id)
  PROVE  \A g \in Id : goals'[g].at # "none" => goals[g].at # "none"
PROOF
<1> USE DEF TypeOK, CalibrationTypeOK
<1>1. goals \in [Id -> Goal]
  BY DEF Goal
<1>2. CASE GoalIsAnswered(id)
  <2>1. goals[id].at = "sent" /\ \E stage \in {"tracked", "rejected"} : Stage(id, stage)
    BY <1>2 DEF GoalIsAnswered, Respond, GoalResponse
  <2> QED
    BY <1>1, <2>1, Staging DEF GoalStage
<1>3. CASE FeedbackComes(id)
  BY <1>1, <1>3, Progressing DEF FeedbackComes, Feedback
<1>4. CASE ResultComes(id)
  <2>1. goals[id].at = "tracked" /\ Stage(id, "done")
    BY <1>4 DEF ResultComes, Result, PublishResult
  <2> QED
    BY <1>1, <2>1, Staging DEF GoalStage
<1>5. CASE UNCHANGED goals
  BY <1>5
<1> QED
  BY <1>2, <1>3, <1>4, <1>5
  DEF ExecutorThread, CameraAnswers, ImageComes, Executor, ExecuteFrame, ExecuteCalibration,
      DestroyClient, ClearSlots, calibrationVars

LEMMA EnvironmentStartsNoGoal ==
  ASSUME TypeOK, EnvironmentStep
  PROVE  \A g \in Id : goals'[g].at # "none" => goals[g].at # "none"
PROOF
<1>1. ASSUME NEW c \in Camera, LoseGoals(c), NEW g \in Id
      PROVE  goals'[g] = goals[g] \/ goals[g].at \in {"sent", "tracked"}
  BY <1>1 DEF LoseGoals
<1> QED
  BY <1>1 DEF EnvironmentStep

LEMMA ProgressOfRunsKept ==
  ASSUME TypeOK, ThreadInv, ProgressOfRuns, Kept,
         NEW id, UNCHANGED replies \/ (id \in Id /\ id <= Len(asked)),
         \A i \in DOMAIN replies' :
           \/ i \in DOMAIN replies /\ replies'[i] = replies[i]
           \/ replies'[i].req = id /\ (replies'[i].final \/ IsRun(id)),
         UNCHANGED overlapped \/ (id \in Id /\ id <= Len(asked) /\ IsRun(id))
  PROVE  ProgressOfRuns'
PROOF
<1>1. \A r \in Id : r <= Len(asked) => r <= Len(asked') /\ asked'[r] = asked[r]
  BY DEF Kept
<1>2. ASSUME NEW i \in DOMAIN replies'
      PROVE  replies'[i].final \/ IsRun(replies[i].req)'
  <2>1. CASE i \in DOMAIN replies /\ replies'[i] = replies[i]
    <3>1. replies[i].req \in Id /\ replies[i].req <= Len(asked)
      BY <2>1, RepliesKnown
    <3> QED
      BY <1>1, <2>1, <3>1 DEF ProgressOfRuns, IsRun
  <2>2. CASE UNCHANGED replies
    BY <1>2, <2>1, <2>2
  <2>3. CASE /\ id \in Id /\ id <= Len(asked)
             /\ replies'[i].req = id /\ (replies'[i].final \/ IsRun(id))
    BY <1>1, <2>3 DEF IsRun
  <2> QED
    BY <1>2, <2>1, <2>2, <2>3
<1>3. overlapped' # {} => \E r \in Id : r <= Len(asked') /\ IsRun(r)'
  <2>1. \A r \in Id : r <= Len(asked) /\ IsRun(r) => r <= Len(asked') /\ IsRun(r)'
    BY <1>1 DEF IsRun
  <2> QED
    BY <2>1 DEF ProgressOfRuns
<1> QED
  BY <1>2, <1>3 DEF ProgressOfRuns

LEMMA MqttKeepsProgressOfRuns ==
  ASSUME BridgeInv, ProgressOfRuns, NEW id \in Id, MqttThread(id)
  PROVE  ProgressOfRuns'
PROOF
<1> USE DEF BridgeInv
<1>1. MqttStep(id) /\ Kept /\ id <= Len(asked)
  BY MqttSteps, KeptByThreads, Taking DEF MqttStep, ThreadInv
<1>2. UNCHANGED replies
      \/ \E success \in BOOLEAN \cup {None}, progress \in 0 .. 100 :
           Reply(id, TRUE, success, progress)
  <2>1. CASE HandleService(id)
    BY <2>1, ServiceHandlers DEF ServiceHandling
  <2>2. CASE ServiceReply(id)
    <3>1. ReplySuccess(id) \in BOOLEAN \cup {None} /\ 0 \in 0 .. 100
      BY DEF ReplySuccess
    <3> QED
      BY <2>2, <3>1 DEF ServiceReply, Answer
  <2>3. CASE OtherHandling(id)
    BY <2>3 DEF OtherHandling
  <2> QED
    BY <2>1, <2>2, <2>3, OtherHandlers
<1>3. ASSUME NEW success \in BOOLEAN \cup {None}, NEW progress \in 0 .. 100,
             Reply(id, TRUE, success, progress)
      PROVE  \A i \in DOMAIN replies' :
               \/ i \in DOMAIN replies /\ replies'[i] = replies[i]
               \/ replies'[i].req = id /\ replies'[i].final
  <2>1. \A i \in DOMAIN replies' :
          \/ i \in DOMAIN replies /\ replies'[i] = replies[i]
          \/ replies'[i] = MessageOf(id, TRUE, success, progress)
    BY <1>3, SaidThat
  <2> QED
    BY <2>1 DEF MessageOf
<1>4. \A i \in DOMAIN replies' :
        \/ i \in DOMAIN replies /\ replies'[i] = replies[i]
        \/ replies'[i].req = id /\ (replies'[i].final \/ IsRun(id))
  BY <1>2, <1>3
<1>5. UNCHANGED overlapped \/ IsRun(id)
  BY DEF MqttThread, ParseFails, Refuse, EnumerateDevices, GetTransformation,
         HandleFrame, HandleCalibration, StartCalibration, SendGoal, Handle,
         AbortNothing, AbortGoal, handlerVars, calibrationVars, IsRun
<1> QED
  BY <1>1, <1>4, <1>5, ProgressOfRunsKept

LEMMA ExecutorKeepsProgressOfRuns ==
  ASSUME BridgeInv, ProgressOfRuns, NEW id \in Id, id <= Len(asked), ExecutorThread(id)
  PROVE  ProgressOfRuns'
PROOF
<1> USE DEF BridgeInv
<1>1. ExecutorStep(id) /\ Kept
  BY ExecutorSteps, KeptByThreads
<1>2. UNCHANGED overlapped
  BY DEF ExecutorThread, CameraAnswers, ImageComes, Executor, ExecuteFrame, ExecuteCalibration,
         GoalIsAnswered, Respond, GoalResponse, FeedbackComes, Feedback, ResultComes, Result,
         PublishResult, DestroyClient, ClearSlots, calibrationVars
<1>3. \A i \in DOMAIN replies' :
        \/ i \in DOMAIN replies /\ replies'[i] = replies[i]
        \/ replies'[i].req = id /\ (replies'[i].final \/ IsRun(id))
  <2>1. CASE UNCHANGED replies
    BY <2>1
  <2>2. CASE Answer(id, TRUE)
    <3>1. \A i \in DOMAIN replies' :
            \/ i \in DOMAIN replies /\ replies'[i] = replies[i]
            \/ replies'[i] = MessageOf(id, TRUE, TRUE, 0)
      <4> HIDE DEF BridgeInv
      <4>1. TypeOK /\ TRUE \in BOOLEAN \cup {None}
        BY DEF BridgeInv
      <4>2. QED
        BY <2>2, <4>1, AnsweredThat, ZenonT(30)
    <3> QED
      BY <3>1 DEF MessageOf
  <2>3. CASE SaysAbout(id) /\ IsRun(id)
    BY <2>3, Said
  <2>4. CASE CameraAnswers(id)
    BY <2>1, <2>4, CameraServes
  <2>5. CASE OtherCallback(id)
    BY <1>1, <2>1, <2>2, <2>3, <2>5 DEF OtherCallback, Calibrating, Serving, IsRun, ExecutorStep
  <2> QED
    BY <2>4, <2>5, OtherCallbacks
<1> QED
  BY <1>1, <1>2, <1>3, ProgressOfRunsKept

LEMMA EnvironmentKeepsSetting ==
  ASSUME BridgeInv, SettingInv, EnvironmentStep, unanswered \subseteq unanswered',
         UNCHANGED <<asked, inbox>> \/ Ask \/ Disconnect
  PROVE  SettingInv'
PROOF
<1> USE DEF SettingInv
<1>1. SetInv'
  BY EnvironmentKeepsSet
<1>2. SetsSettled'
  BY OthersKeepSettled DEF EnvironmentStep, StillServed
<1>3. GoalsInOrder'
  BY OthersKeepGoalsInOrder, EnvironmentStartsNoGoal DEF EnvironmentStep, BridgeInv
<1>4. ProgressOfRuns'
  BY ProgressOfRunsKept DEF EnvironmentStep, BridgeInv
<1> QED
  BY <1>1, <1>2, <1>3, <1>4

LEMMA InitEstablishesSetting ==
  ASSUME Init
  PROVE  SettingInv
PROOF
  BY IdsAreNaturals
  DEF Init, ThreadsInit, ServicesInit, CalibrationInit, NoCall, SettingInv, SetInv, SetsSettled,
      GoalsInOrder, ProgressOfRuns

\* A step of neither thread.
LEMMA OutsideSteps ==
  ASSUME BridgeInv, Ask \/ Surroundings \/ UNCHANGED bridgeVars
  PROVE  /\ EnvironmentStep
         /\ unanswered \subseteq unanswered'
         /\ UNCHANGED <<asked, inbox>> \/ Ask \/ Disconnect
PROOF
<1>1. CASE Ask
  <2>1. EnvironmentStep
    BY <1>1, AskIsOfTheEnvironment DEF BridgeInv
  <2>2. unanswered \subseteq unanswered'
    BY <1>1 DEF Ask, Drop
  <2> QED
    BY <1>1, <2>1, <2>2
<1>2. CASE Surroundings
  <2>1. EnvironmentStep
    BY <1>2, OthersAreOfTheEnvironment DEF BridgeInv, Surroundings
  <2>2. /\ unanswered \subseteq unanswered'
        /\ UNCHANGED <<asked, inbox>> \/ Disconnect
    BY <1>2 DEF Surroundings, Disconnect, Connect, CameraDown, CameraUp
  <2> QED
    BY <2>1, <2>2
<1>3. CASE UNCHANGED bridgeVars
  <2>1. EnvironmentStep
    BY <1>3 DEF BridgeInv, TypeOK, ThreadsTypeOK, ThreadInv, EnvironmentStep, Kept, Pending,
           bridgeVars, threadVars, serviceVars, frameVars, calibrationVars
  <2> QED
    BY <1>3, <2>1 DEF bridgeVars, threadVars
<1> QED
  BY <1>1, <1>2, <1>3

LEMMA NextKeepsSetting ==
  ASSUME BridgeInv, SettingInv, [Next]_bridgeVars
  PROVE  SettingInv'
PROOF
<1> USE DEF SettingInv
<1>1. ThreadInv' /\ ThreadsTypeOK'
  BY NextKeepsInvariant DEF BridgeInv, TypeOK
<1>2. CASE Ask \/ Surroundings \/ UNCHANGED bridgeVars
  BY <1>2, OutsideSteps, EnvironmentKeepsSetting
<1>3. ASSUME NEW id \in Id, MqttThread(id)
      PROVE  SettingInv'
  BY <1>1, <1>3, MqttKeepsSet, MqttKeepsSettled, MqttKeepsGoalsInOrder,
     MqttKeepsProgressOfRuns
<1>4. ASSUME NEW id \in Id, id <= Len(asked), ExecutorThread(id)
      PROVE  SettingInv'
  <2>1. ExecutorStep(id) /\ Kept
    BY <1>4, ExecutorSteps, KeptByThreads DEF BridgeInv
  <2>2. StillServed
    BY <1>4, CameraServes, OtherCallbacks DEF OtherCallback, serviceVars, StillServed
  <2>3. SetsSettled'
    BY <2>1, <2>2, OthersKeepSettled DEF ExecutorStep, Drop
  <2>4. GoalsInOrder'
    BY <1>1, <1>4, <2>1, ExecutorStartsNoGoal, OthersKeepGoalsInOrder DEF ExecutorStep, BridgeInv
  <2> QED
    BY <1>4, <2>3, <2>4, ExecutorKeepsSet, ExecutorKeepsProgressOfRuns
<1> QED
  BY <1>2, <1>3, <1>4, StepKinds

\* What a client is told of a parameter is what the camera did.
LEMMA SettingTakesEffect ==
  ASSUME BridgeInv, SetInv
  PROVE  SetsTakeEffect
PROOF
<1> SUFFICES ASSUME NEW id \in Id, id <= Len(asked), asked[id].topic = "set_param_request",
                    SetSucceeded(id), asked[id].ptype # "boolean",
                    asked[id].ptype = "bool" => asked[id].value.text \in Truth
             PROVE  TakesEffect(id) \/ TakesWholePart(id)
  BY DEF SetsTakeEffect
<1> DEFINE r == asked[id]
<1>1. Set(id)
  <2>1. PICK i \in DOMAIN replies : replies[i].req = id /\ replies[i].success = TRUE
    BY DEF SetSucceeded, Final
  <2> QED
    BY <2>1 DEF SetInv, IsSet
<1>2. r.ptype \in {"float", "int", "integer", "string", "bool"} /\ Converts(r)
  BY <1>1 DEF Set, Writable, KnownType, ParameterTypeMap
<1>3. Taken(id)
  BY <1>1 DEF Taken, Set, Took
<1>4. CASE r.ptype \in IntegerType
  <2>1. /\ CreateParameterValue(r).value = Whole(NumberOf(r.value).whole)
        /\ Meant(r) = NumberOf(r.value)
    BY <1>4 DEF CreateParameterValue, Meant, ParameterTypeMap, KnownType, IntegerType
  <2>2. IntTakes(r.value)
    BY <1>2, <1>4 DEF Converts, IntegerType
  <2>3. NumberOf(r.value) \in [whole : Int, tenths : -9 .. 9]
    BY <2>2, NumeralAssumption DEF IntTakes, FloatTakes, NumberOf, Whole
  <2>4. CASE NumberOf(r.value).tenths = 0
    <3>1. NumberOf(r.value) = Whole(NumberOf(r.value).whole)
      BY <2>3, <2>4 DEF Whole
    <3> QED
      BY <1>3, <2>1, <3>1 DEF TakesEffect
  <2>5. CASE NumberOf(r.value).tenths # 0
    <3>1. r.value.json = "number"
      BY <2>2, <2>5, NumeralAssumption DEF IntTakes, FloatTakes, NumberOf, Whole
    <3>2. [NumberOf(r.value) EXCEPT !.tenths = 0] = Whole(NumberOf(r.value).whole)
      BY <2>3 DEF Whole
    <3> QED
      BY <1>3, <1>4, <2>1, <2>5, <3>1, <3>2 DEF TakesWholePart, IsCut
  <2> QED
    BY <2>4, <2>5
<1>5. CASE r.ptype \notin IntegerType
  <2>1. CASE r.ptype = "float" \/ r.ptype = "string"
    BY <1>3, <1>5, <2>1
    DEF TakesEffect, CreateParameterValue, Meant, ParameterTypeMap, KnownType
  <2>2. CASE r.ptype = "bool"
    <3>1. Meant(r) = r.value.text
      BY <2>2 DEF Meant, ParameterTypeMap
    <3>2. CreateParameterValue(r).value = IF r.value.text = "true" THEN "true" ELSE "false"
      BY <1>5, <2>2 DEF CreateParameterValue, ParameterTypeMap, KnownType
    <3> QED
      BY <1>3, <2>2, <3>1, <3>2 DEF TakesEffect, Truth
  <2> QED
    BY <1>2, <1>5, <2>1, <2>2 DEF IntegerType
<1> QED
  BY <1>4, <1>5

\* Whichever client asks: when a run's goal is sent, every earlier request to
\* set a parameter was served or given up, unless it was never accepted.
RunsFollowSets ==
  \A g \in Id : goals[g].at # "none" =>
    \A id \in 1 .. g : IsSet(id) /\ Accepted(asked[id]) =>
      id \in unanswered \/ \E k \in DOMAIN served : served[k].req = id

LEMMA RunsFollow ==
  ASSUME BridgeInv, SettingInv
  PROVE  RunsFollowSets
PROOF
<1> SUFFICES ASSUME NEW g \in Id, goals[g].at # "none",
                    NEW id \in 1 .. g, IsSet(id), Accepted(asked[id])
             PROVE  id \in unanswered \/ \E k \in DOMAIN served : served[k].req = id
  BY DEF RunsFollowSets
<1>1. /\ g \in Nat /\ id \in Nat /\ id \in Id /\ id <= Len(asked)
      /\ id <= g /\ ~(g < id)
  <2>1. g <= Len(asked) /\ Len(asked) \in Nat
    BY DEF SettingInv, GoalsInOrder, BridgeInv, TypeOK, ThreadsTypeOK
  <2> QED
    BY <2>1, IdsAreNaturals, BoundsAssumption DEF Id
<1>2. id # g
  BY DEF BridgeInv, CalibrationInv, KnownClients, Calibrating, Serving, IsSet
<1>3. id \notin Pending
  BY <1>1 DEF SettingInv, GoalsInOrder
<1>4. ~(mqtt.at = "waiting" /\ mqtt.req = id)
  BY <1>1, <1>2 DEF SettingInv, GoalsInOrder
<1> QED
  BY <1>1, <1>3, <1>4 DEF SettingInv, SetsSettled

(* What becomes of every request.                                          *)
-----------------------------------------------------------------------------

\* A thread is in the middle of the request's handler.
Handling(id) ==
  \/ mqtt.req = id /\ mqtt.at \in {"waiting", "storing", "sending"}
  \/ executor.req = id /\ executor.at \in {"resetting", "publishing"}

\* A request that has no final reply and was not dropped is still to be
\* taken up, is being handled, or waits for an image or for a goal.
Accounted(id) ==
  \/ id \in Pending \/ Settled(id) \/ Handling(id)
  \/ id \in subscriptions \/ goals[id].at \in {"sent", "tracked", "lost"}

NothingForgotten == \A id \in Id : id <= Len(asked) => Accounted(id)

LEMMA FinalsStay ==
  ASSUME TypeOK, NEW id \in Id, SaysAbout(id), NEW r, Final(r) # {}
  PROVE  Final(r)' # {}
PROOF
<1>1. PICK i \in DOMAIN replies : replies[i].req = r /\ replies[i].final
  BY DEF Final
<1>2. i \in DOMAIN replies' /\ replies'[i] = replies[i]
  BY <1>1, Said
<1> QED
  BY <1>1, <1>2 DEF Final

LEMMA FinalGiven ==
  ASSUME TypeOK, NEW id \in Id, NEW success \in BOOLEAN \cup {None}, NEW progress \in 0 .. 100,
         Reply(id, TRUE, success, progress)
  PROVE  Final(id)' # {}
PROOF
<1>1. TRUE \in BOOLEAN
  OBVIOUS
<1>2. /\ DOMAIN replies' = 1 .. (Len(replies) + 1) /\ Len(replies) \in Nat
      /\ replies'[Len(replies) + 1] = MessageOf(id, TRUE, success, progress)
  BY <1>1, Saying, ZenonT(30)
<1>3. Len(replies) + 1 \in DOMAIN replies'
  BY <1>2
<1> QED
  BY <1>2, <1>3 DEF Final, MessageOf

LEMMA FinalAnswered ==
  ASSUME TypeOK, NEW id \in Id, NEW success \in BOOLEAN \cup {None}, Answer(id, success)
  PROVE  Final(id)' # {}
PROOF
<1>1. 0 \in 0 .. 100
  OBVIOUS
<1> QED
  BY <1>1, FinalGiven DEF Answer

\* A step of a thread for one request leaves the others where they are.
LEMMA OthersStayAccounted ==
  ASSUME BridgeInv, NothingForgotten, NEW id \in Id, MqttStep(id) \/ ExecutorStep(id),
         \A r \in Id : r # id => /\ r \in subscriptions => r \in subscriptions'
                                 /\ goals'[r].at = goals[r].at,
         id <= Len(asked) => Accounted(id)'
  PROVE  NothingForgotten'
PROOF
<1> USE DEF BridgeInv
<1>1. UNCHANGED asked
  BY KeptByThreads
<1> SUFFICES ASSUME NEW r \in Id, r <= Len(asked), r # id
             PROVE  Accounted(r)'
  BY <1>1 DEF NothingForgotten
<1>2. Accounted(r)
  BY DEF NothingForgotten
<1>3. CASE r \in Pending
  <2>1. CASE Take(id)
    BY <1>3, <2>1, Taking DEF Accounted
  <2>2. CASE UNCHANGED inbox
    BY <1>3, <2>2 DEF Accounted, Pending
  <2> QED
    BY <2>1, <2>2 DEF MqttStep, ExecutorStep
<1>4. CASE Settled(r)
  <2>1. SaysAbout(id) /\ unanswered \subseteq unanswered'
    BY DEF MqttStep, ExecutorStep, SaysAbout, Drop
  <2>2. Settled(r)'
    BY <1>4, <2>1, FinalsStay DEF Settled
  <2> QED
    BY <2>2 DEF Accounted
<1>5. CASE Handling(r)
  <2>1. CASE MqttStep(id)
    <3>1. UNCHANGED executor /\ (mqtt.at = "idle" \/ mqtt.req = id)
      BY <2>1 DEF MqttStep, Take
    <3> QED
      BY <1>5, <3>1 DEF Handling, Accounted
  <2>2. CASE ExecutorStep(id)
    BY <1>5, <2>2 DEF ExecutorStep, Handling, Accounted
  <2> QED
    BY <2>1, <2>2
<1>6. CASE r \in subscriptions \/ goals[r].at \in {"sent", "tracked", "lost"}
  BY <1>6 DEF Accounted
<1> QED
  BY <1>2, <1>3, <1>4, <1>5, <1>6 DEF Accounted

LEMMA MqttKeepsAccounts ==
  ASSUME BridgeInv, NothingForgotten, NEW id \in Id, MqttThread(id)
  PROVE  NothingForgotten'
PROOF
<1> USE DEF BridgeInv
<1>1. MqttStep(id)
  BY MqttSteps
<1>2. ASSUME Drop(id) \/ Final(id)' # {}
      PROVE  Accounted(id)'
  BY <1>2 DEF Drop, Accounted, Settled
<1>3. ASSUME NEW point \in {"waiting", "storing", "sending"}, MqttGoes(point, id)
      PROVE  Accounted(id)'
  BY <1>3 DEF MqttGoes, Accounted, Handling
<1>4. ASSUME UNCHANGED <<frameVars, goals>>, Accounted(id)'
      PROVE  NothingForgotten'
  BY <1>1, <1>4, OthersStayAccounted DEF frameVars
<1>5. CASE ParseFails(id) \/ (AbortGoal(id) /\ UNCHANGED frameVars)
  BY <1>2, <1>4, <1>5 DEF ParseFails, AbortGoal, handlerVars, calibrationVars
<1>6. CASE Refuse(id) \/ EnumerateDevices(id) \/ GetTransformation(id)
           \/ (RefuseFrame(id) /\ UNCHANGED calibrationVars)
  <2>1. \E success \in BOOLEAN : Answer(id, success)
    BY <1>6 DEF Refuse, EnumerateDevices, GetTransformation, RefuseFrame
  <2>2. Final(id)' # {}
    BY <2>1, FinalAnswered
  <2> QED
    BY <1>2, <1>4, <1>6, <2>2 DEF Refuse, EnumerateDevices, GetTransformation, RefuseFrame,
                                  handlerVars, calibrationVars
<1>7. CASE HandleService(id) /\ UNCHANGED <<frameVars, calibrationVars>>
  BY <1>2, <1>3, <1>4, <1>7, ServiceHandlers DEF ServiceHandling, calibrationVars
<1>8. CASE ServiceReply(id) /\ UNCHANGED <<frameVars, calibrationVars>>
  <2>1. ReplySuccess(id) \in BOOLEAN \cup {None}
    BY DEF ReplySuccess
  <2>2. Drop(id) \/ Answer(id, ReplySuccess(id))
    BY <1>8 DEF ServiceReply
  <2> QED
    BY <1>2, <1>4, <1>8, <2>1, <2>2, FinalAnswered DEF calibrationVars
<1>9. CASE GetFrame(id) /\ UNCHANGED calibrationVars
  <2>1. Accounted(id)'
    BY <1>3, <1>9 DEF GetFrame
  <2> QED
    BY <1>1, <1>9, <2>1, OthersStayAccounted DEF GetFrame, calibrationVars
<1>10. CASE StoreHandle(id) /\ UNCHANGED calibrationVars
  <2>1. id \in subscriptions'
    BY <1>10 DEF StoreHandle, Proceeds, FrameInv
  <2> QED
    BY <1>1, <1>10, <2>1, OthersStayAccounted DEF StoreHandle, calibrationVars, Accounted
<1>11. CASE StartCalibration(id) /\ UNCHANGED frameVars
  BY <1>3, <1>4, <1>11 DEF StartCalibration
<1>12. CASE SendGoal(id) /\ UNCHANGED frameVars
  <2>1. CASE Stage(id, "sent")
    <3>1. /\ goals'[id].at = "sent"
          /\ \A r \in Id : r # id => goals'[r] = goals[r]
      BY <2>1, Staging DEF TypeOK, CalibrationTypeOK, Goal, GoalStage
    <3> QED
      BY <1>1, <1>12, <3>1, OthersStayAccounted DEF Accounted, frameVars
  <2>2. CASE Drop(id) /\ UNCHANGED goals
    BY <1>2, <1>4, <1>12, <2>2
  <2> QED
    BY <1>12, <2>1, <2>2 DEF SendGoal
<1>13. CASE AbortNothing(id) /\ UNCHANGED frameVars
  <2>1. TRUE \in BOOLEAN \cup {None} /\ 100 \in 0 .. 100
    OBVIOUS
  <2>2. Reply(id, TRUE, TRUE, 100)
    BY <1>13 DEF AbortNothing
  <2>3. Final(id)' # {}
    BY <2>1, <2>2, FinalGiven, ZenonT(30)
  <2> QED
    BY <1>2, <1>4, <1>13, <2>3 DEF AbortNothing, calibrationVars
<1>14. CASE HandleFrame(id) /\ UNCHANGED <<serviceVars, calibrationVars>>
  BY <1>6, <1>9, <1>10, <1>14 DEF HandleFrame
<1>15. CASE HandleCalibration(id) /\ UNCHANGED <<serviceVars, frameVars>>
  BY <1>5, <1>11, <1>12, <1>13, <1>15 DEF HandleCalibration
<1> QED
  BY <1>5, <1>6, <1>7, <1>8, <1>14, <1>15 DEF MqttThread

LEMMA ExecutorKeepsAccounts ==
  ASSUME BridgeInv, NothingForgotten, NEW id \in Id, id <= Len(asked), ExecutorThread(id)
  PROVE  NothingForgotten'
PROOF
<1> USE DEF BridgeInv
<1>1. ExecutorStep(id)
  BY ExecutorSteps
<1>2. Accounted(id)
  BY DEF NothingForgotten
<1>3. ASSUME Drop(id) \/ Final(id)' # {}
      PROVE  Accounted(id)'
  BY <1>3 DEF Drop, Accounted, Settled
\* A step that leaves the request where it was.
<1>4. ASSUME executor.at \notin {"resetting", "publishing"},
             UNCHANGED subscriptions, \A r \in Id : goals'[r].at = goals[r].at
      PROVE  NothingForgotten'
  <2>1. UNCHANGED <<mqtt, inbox>> /\ SaysAbout(id) /\ unanswered \subseteq unanswered'
    BY <1>1 DEF ExecutorStep, SaysAbout, Drop
  <2>2. Pending' = Pending
    BY <2>1 DEF Pending
  <2>3. Settled(id) => Settled(id)'
    BY <2>1, FinalsStay DEF Settled
  <2>4. Handling(id) => Handling(id)'
    BY <1>4, <2>1 DEF Handling
  <2>5. Accounted(id)'
    BY <1>2, <1>4, <2>2, <2>3, <2>4 DEF Accounted
  <2> QED
    BY <1>1, <1>4, <2>5, OthersStayAccounted
<1>5. CASE CameraAnswers(id)
  BY <1>4, <1>5 DEF CameraAnswers, ServiceResponse, Starts, frameVars, calibrationVars
<1>6. CASE ImageBeforeHandle(id) /\ UNCHANGED calibrationVars
  BY <1>4, <1>6 DEF ImageBeforeHandle, Starts, frameVars, calibrationVars
<1>7. CASE ImageCallback(id) /\ UNCHANGED calibrationVars
  <2>1. /\ id \in subscriptions /\ Busy(ImageTopicOf(id))
        /\ subscriptions' = subscriptions \ {topic_handle[ImageTopicOf(id)]}
        /\ executor' = [at |-> "resetting", req |-> id]
    BY <1>7 DEF ImageCallback, ExecutorGoes
  <2>2. topic_handle[ImageTopicOf(id)] = id
    BY <2>1 DEF FrameInv, FrameSlots
  <2>3. Accounted(id)'
    BY <2>1 DEF Accounted, Handling
  <2> QED
    BY <1>1, <1>7, <2>1, <2>2, <2>3, OthersStayAccounted DEF calibrationVars
<1>8. CASE ResetHandle(id) /\ UNCHANGED calibrationVars
  <2>1. Accounted(id)'
    BY <1>8 DEF ResetHandle, ExecutorGoes, Accounted, Handling
  <2> QED
    BY <1>1, <1>8, <2>1, OthersStayAccounted DEF ResetHandle, calibrationVars
<1>9. CASE PublishFrame(id) /\ UNCHANGED calibrationVars
  <2>1. TRUE \in BOOLEAN \cup {None} /\ Answer(id, TRUE)
    BY <1>9 DEF PublishFrame
  <2>2. Accounted(id)'
    BY <1>3, <2>1, FinalAnswered, ZenonT(30)
  <2> QED
    BY <1>1, <1>9, <2>2, OthersStayAccounted DEF PublishFrame, frameVars, calibrationVars
<1>10. CASE GoalIsAnswered(id)
  <2>1. PICK accepted \in BOOLEAN : GoalResponse(id, accepted)
    BY <1>10 DEF GoalIsAnswered, Respond
  <2>2. /\ goals'[id].at = IF accepted THEN "tracked" ELSE "rejected"
        /\ \A r \in Id : r # id => goals'[r] = goals[r]
    BY <2>1, Staging DEF GoalResponse, TypeOK, CalibrationTypeOK, Goal, GoalStage
  <2>3. Accounted(id)'
    BY <1>3, <2>1, <2>2 DEF GoalResponse, Accounted
  <2> QED
    BY <1>1, <1>10, <2>2, <2>3, OthersStayAccounted DEF GoalIsAnswered, frameVars
<1>11. CASE FeedbackComes(id)
  <2>1. \A r \in Id : goals'[r].at = goals[r].at
    BY <1>11, Progressing DEF FeedbackComes, Feedback, TypeOK, CalibrationTypeOK, Goal
  <2> QED
    BY <1>4, <1>11, <2>1 DEF FeedbackComes, Feedback, Receives, Starts, frameVars
<1>12. CASE ResultComes(id)
  <2>1. PICK success \in BOOLEAN : PublishResult(id, success)
    BY <1>12 DEF ResultComes, Result
  <2>2. \A r \in Id : r # id => goals'[r] = goals[r]
    BY <2>1, Staging DEF PublishResult, TypeOK, CalibrationTypeOK, Goal, GoalStage
  <2>3. 100 \in 0 .. 100
    OBVIOUS
  <2>4. Reply(id, TRUE, success, 100)
    BY <2>1 DEF PublishResult
  <2>5. Accounted(id)'
    BY <1>3, <2>3, <2>4, FinalGiven
  <2> QED
    BY <1>1, <1>12, <2>2, <2>5, OthersStayAccounted DEF ResultComes, frameVars
<1>13. CASE (DestroyClient(id) \/ ClearSlots(id)) /\ UNCHANGED frameVars
  <2>1. executor.at \notin {"resetting", "publishing"} /\ UNCHANGED <<goals, subscriptions>>
    BY <1>13 DEF DestroyClient, ClearSlots, Continues, frameVars
  <2> QED
    BY <1>4, <2>1
<1> QED
  BY <1>5, <1>6, <1>7, <1>8, <1>9, <1>10, <1>11, <1>12, <1>13
  DEF ExecutorThread, ImageComes, ImageArrives, Executor, ExecuteFrame, ExecuteCalibration

LEMMA EnvironmentKeepsAccounts ==
  ASSUME BridgeInv, NothingForgotten, EnvironmentStep, unanswered \subseteq unanswered',
         UNCHANGED <<asked, inbox>> \/ Ask \/ Disconnect
  PROVE  NothingForgotten'
PROOF
<1> SUFFICES ASSUME NEW id \in Id, id <= Len(asked')
             PROVE  Accounted(id)'
  BY DEF NothingForgotten
<1>1. /\ id <= Len(asked) \/ id \in unanswered' \/ id \in Pending'
      /\ id \in Pending => id \in Pending' \cup unanswered'
  BY NoneIsLost DEF BridgeInv
<1>2. CASE id <= Len(asked)
  <2>1. Accounted(id)
    BY <1>2 DEF NothingForgotten
  <2>2. UNCHANGED <<mqtt, executor, subscriptions, replies>>
    BY DEF EnvironmentStep
  <2>3. (Settled(id) => Settled(id)') /\ (Handling(id) => Handling(id)')
    BY <2>2, FinalsKept DEF Settled, Handling
  <2>4. goals[id].at \in {"sent", "tracked", "lost"} => goals'[id].at \in {"sent", "tracked", "lost"}
    <3>1. ASSUME NEW c \in Camera, LoseGoals(c), goals[id].at \in {"sent", "tracked", "lost"}
          PROVE  goals'[id].at \in {"sent", "tracked", "lost"}
      <4>1. goals[id] \in Goal
        BY DEF BridgeInv, TypeOK, CalibrationTypeOK, Goal
      <4>2. goals'[id] = IF goals[id].at \in {"sent", "tracked"} /\ CameraOf(id) = c
                         THEN [goals[id] EXCEPT !.at = "lost"] ELSE goals[id]
        BY <3>1 DEF LoseGoals
      <4>3. [goals[id] EXCEPT !.at = "lost"].at = "lost"
        BY <4>1 DEF Goal
      <4> QED
        BY <3>1, <4>2, <4>3
    <3> QED
      BY <3>1 DEF EnvironmentStep
  <2> QED
    BY <1>1, <2>1, <2>2, <2>3, <2>4 DEF Accounted, Settled
<1> QED
  BY <1>1, <1>2 DEF Accounted, Settled

LEMMA NextKeepsAccounts ==
  ASSUME BridgeInv, NothingForgotten, [Next]_bridgeVars
  PROVE  NothingForgotten'
PROOF
<1>1. CASE Ask \/ Surroundings \/ UNCHANGED bridgeVars
  BY <1>1, OutsideSteps, EnvironmentKeepsAccounts
<1>2. ASSUME NEW id \in Id, MqttThread(id)
      PROVE  NothingForgotten'
  BY <1>2, MqttKeepsAccounts
<1>3. ASSUME NEW id \in Id, id <= Len(asked), ExecutorThread(id)
      PROVE  NothingForgotten'
  BY <1>3, ExecutorKeepsAccounts
<1> QED
  BY <1>1, <1>2, <1>3, StepKinds

\* The bridge can do nothing more for any request: paho's thread has none,
\* or waits for the server of a camera that is away, the executor is at none,
\* and no frame or goal is awaited that could still come.
AtRest ==
  /\ executor.at = "idle"
  /\ \/ mqtt.at = "idle" /\ inbox = << >>
     \/ mqtt.at = "sending" /\ CameraOf(mqtt.req) \notin up
  /\ \A id \in subscriptions : CameraOf(id) \notin up
  /\ \A id \in registered : ~GoalUnderWay(id)

LEMMA SettledWhenResting ==
  ASSUME BridgeInv, NothingForgotten, AtRest, NEW id \in DOMAIN asked
  PROVE  Settled(id) \/ Stuck(id)
PROOF
<1>1. id \in Id /\ id <= Len(asked)
  <2>1. /\ Len(asked) \in Nat /\ Len(asked) <= MaxRequests /\ id \in 1 .. Len(asked)
        /\ MaxRequests \in Nat
    BY BoundsAssumption DEF BridgeInv, TypeOK, ThreadsTypeOK
  <2> QED
    BY <2>1 DEF Id
<1>2. Accounted(id)
  BY <1>1 DEF NothingForgotten
<1>3. CASE mqtt.at = "sending"
  BY <1>3 DEF AtRest, Stuck
<1>4. CASE mqtt.at = "idle" /\ inbox = << >>
  <2>1. Pending = {}
    BY <1>4 DEF Pending
  <2> QED
    BY <1>2, <1>4, <2>1 DEF Accounted, Handling, AtRest, GoalUnderWay, Stuck
<1> QED
  BY <1>3, <1>4 DEF AtRest

(* The theorems about the bridge.                                          *)
-----------------------------------------------------------------------------

(* Every state the bridge reaches satisfies the inductive invariant.       *)
THEOREM BridgeInvariant == Spec => []BridgeInv
PROOF
  BY InitEstablishes, NextKeepsInvariant, PTL DEF Spec

(* Type correctness.                                                       *)
THEOREM BridgeTypes == Spec => []TypeOK
PROOF
<1>1. BridgeInv => TypeOK
  BY DEF BridgeInv
<1> QED
  BY <1>1, BridgeInvariant, PTL

(* The dict of frame subscriptions and the subscriptions agree, wherever   *)
(* the two threads are in get_frame and the image callback.                *)
THEOREM FrameSlotsAgree == Spec => []FrameSlots
PROOF
<1>1. BridgeInv => FrameSlots
  BY DEF BridgeInv, FrameInv
<1> QED
  BY <1>1, BridgeInvariant, PTL

(* Service calls are served in the order of the requests, at most once     *)
(* each, and none is reported done that was not.                           *)
THEOREM CallsServedInOrder == Spec => []ServedInOrder
PROOF
<1>1. BridgeInv => ServedInOrder
  BY DEF BridgeInv, ServiceInv
<1> QED
  BY <1>1, BridgeInvariant, PTL

(* While the runs of a camera do not overlap, the two dict slots of the    *)
(* calibration handler hold the run under way, or what a goal that was     *)
(* rejected or lost has left there, and only such a goal's client stays.   *)
THEOREM SlotsBelongToTheRun == Spec => []CalibrationSlots
PROOF
<1>1. BridgeInv => CalibrationSlots
  BY DEF BridgeInv, CalibrationInv
<1> QED
  BY <1>1, BridgeInvariant, PTL

(* No message about a request follows its final reply, but for cameras     *)
(* whose calibration runs overlapped.                                      *)
THEOREM FinalRepliesAreFinal == Spec => []NothingAfterFinal
PROOF
<1>1. BridgeInv => NothingAfterFinal
  BY DEF BridgeInv, CalibrationInv
<1> QED
  BY <1>1, BridgeInvariant, PTL

(* A request to set a parameter that is answered with success had the      *)
(* camera take the value its client meant, or the whole part of a JSON     *)
(* number with a fraction for an integer.                                  *)
THEOREM SettingsTakeEffect == Spec => []SetsTakeEffect
PROOF
<1>1. Init => BridgeInv /\ SettingInv
  BY InitEstablishes, InitEstablishesSetting
<1>2. BridgeInv /\ SettingInv /\ [Next]_bridgeVars => (BridgeInv /\ SettingInv)'
  BY NextKeepsInvariant, NextKeepsSetting
<1>3. BridgeInv /\ SettingInv => SetsTakeEffect
  BY SettingTakesEffect DEF SettingInv
<1> QED
  BY <1>1, <1>2, <1>3, PTL DEF Spec

(* When the goal of a calibration run is sent, every accepted request      *)
(* before it to set a parameter was served by the camera or given up.      *)
THEOREM RunsComeAfterSettings == Spec => []RunsFollowSets
PROOF
<1>1. Init => BridgeInv /\ SettingInv
  BY InitEstablishes, InitEstablishesSetting
<1>2. BridgeInv /\ SettingInv /\ [Next]_bridgeVars => (BridgeInv /\ SettingInv)'
  BY NextKeepsInvariant, NextKeepsSetting
<1>3. BridgeInv /\ SettingInv => RunsFollowSets
  BY RunsFollow
<1> QED
  BY <1>1, <1>2, <1>3, PTL DEF Spec

(* No request is forgotten: as long as it has no final reply and was not   *)
(* dropped where the code drops requests, it is in the inbox, in the hands *)
(* of a thread, or its image or its goal is awaited.                       *)
THEOREM NoRequestIsForgotten == Spec => []NothingForgotten
PROOF
<1>1. Init => NothingForgotten
  BY IdsAreNaturals DEF Init, ThreadsInit, NothingForgotten
<1>2. BridgeInv /\ NothingForgotten /\ [Next]_bridgeVars => NothingForgotten'
  BY NextKeepsAccounts
<1> QED
  BY <1>1, <1>2, BridgeInvariant, PTL DEF Spec

(* So whenever the bridge can do nothing more, every request has its final *)
(* reply, was dropped, or is stuck with what ended, went away or is away.  *)
THEOREM AllSettledAtRest ==
  Spec => [](AtRest => \A id \in DOMAIN asked : Settled(id) \/ Stuck(id))
PROOF
<1>1. BridgeInv /\ NothingForgotten => (AtRest => \A id \in DOMAIN asked : Settled(id) \/ Stuck(id))
  BY SettledWhenResting
<1> QED
  BY <1>1, BridgeInvariant, NoRequestIsForgotten, PTL

(* The example client: the only part that uses ScriptAssumption.           *)
-----------------------------------------------------------------------------

\* A request of the program that the bridge accepts and answers on a topic
\* the client is subscribed to, and that is neither the first nor the last.
Proper(r) ==
  /\ r.topic \in Subscribed
  /\ r.topic = "set_param_request" => Accepted(r)

Between(r) ==
  Proper(r) /\ r.topic \notin {"enumerate_devices_request", "triggered_calibration_request"}

LEMMA Settings ==
  ASSUME NEW name, NEW text, NEW type
  PROVE  Between(set_param(name, text, type))
PROOF
<1>1. /\ set_param(name, text, type).topic = "set_param_request"
      /\ set_param(name, text, type).fields =
           {"camera_namespace", "camera_name", "parameter_name", "parameter_value",
            "parameter_type"}
  BY DEF set_param, Asking
<1> QED
  BY <1>1 DEF Between, Proper, Subscribed, RequestTopics, Required, Accepted, Supported, InCamera

\* One that sets no parameter either.
Other(r) ==
  /\ r.topic \in Subscribed
  /\ r.topic \notin {"set_param_request", "enumerate_devices_request",
                     "triggered_calibration_request"}

LEMMA QueriesAre ==
  /\ DOMAIN Queries = 1 .. 9
  /\ Proper(Queries[1]) /\ Queries[1].topic # "triggered_calibration_request"
  /\ \A i \in 2 .. 9 : Between(Queries[i])
PROOF
<1>1. \A r : Other(r) => Between(r)
  BY DEF Between, Proper, Other
<1> USE DEF Subscribed, RequestTopics, Required, Asking, AboutCamera, Other
<1>2. Proper(enumerate_devices)
      /\ enumerate_devices.topic # "triggered_calibration_request"
  BY DEF enumerate_devices, Proper
<1>3. /\ Other(send_hw_reset_request) /\ Other(get_device_info)
      /\ Other(get_transformation)
  BY DEF send_hw_reset_request, get_device_info, get_transformation
<1>4. \A v : Other(send_hwm_command(v)) /\ Other(get_param(v)) /\ Other(get_frame(v))
  BY DEF send_hwm_command, get_param, get_frame
<1> HIDE DEF Other
<1>5. DOMAIN Queries = 1 .. 9
  BY DEF Queries
<1>6. \A i \in 2 .. 9 : i \in {2, 3, 4, 5, 6, 7, 8, 9}
  OBVIOUS
<1>7. /\ Queries[1] = enumerate_devices
      /\ Queries[2] = send_hw_reset_request
      /\ Queries[3] = get_device_info
      /\ Queries[4] = get_transformation
      /\ \E v : Queries[5] = send_hwm_command(v)
      /\ \E n, t, k : Queries[6] = set_param(n, t, k)
      /\ \E n, t, k : Queries[7] = set_param(n, t, k)
      /\ \E v : Queries[8] = get_param(v)
      /\ \E v : Queries[9] = get_frame(v)
  BY DEF Queries
<1> QED
  BY <1>1, <1>2, <1>3, <1>4, <1>5, <1>6, <1>7, Settings

LEMMA TablesAre ==
  /\ DOMAIN Tables = 1 .. 8
  /\ \A i \in 1 .. 8 : Between(Tables[i])
PROOF
<1>1. \A r : Other(r) => Between(r)
  BY DEF Between, Proper, Other
<1> USE DEF Subscribed, RequestTopics, Required, Asking, AboutCamera, Other
<1>2. \A v : /\ Other(get_safety_preset(v)) /\ Other(set_safety_preset(v))
             /\ Other(get_safety_interface_config(v)) /\ Other(set_safety_interface_config(v))
  BY DEF get_safety_preset, set_safety_preset, get_safety_interface_config,
         set_safety_interface_config
<1>3. /\ Other(get_calib_config) /\ Other(get_application_config)
      /\ \A v : Other(set_calib_config(v)) /\ Other(set_application_config(v))
  BY DEF get_calib_config, get_application_config, set_calib_config, set_application_config
<1> HIDE DEF Other
<1>4. DOMAIN Tables = 1 .. 8
  BY DEF Tables
<1>5. \A i \in 1 .. 8 : i \in {1, 2, 3, 4, 5, 6, 7, 8}
  OBVIOUS
<1>6. /\ \E v : Tables[1] = get_safety_preset(v)
      /\ \E v : Tables[2] = set_safety_preset(v)
      /\ \E v : Tables[3] = get_safety_interface_config(v)
      /\ \E v : Tables[4] = set_safety_interface_config(v)
      /\ Tables[5] = get_calib_config
      /\ \E v : Tables[6] = set_calib_config(v)
      /\ Tables[7] = get_application_config
      /\ \E v : Tables[8] = set_application_config(v)
  BY DEF Tables
<1> QED
  BY <1>1, <1>2, <1>3, <1>4, <1>5, <1>6

LEMMA CalibrationIs ==
  /\ DOMAIN Calibration = 1 .. 10
  /\ \A i \in 1 .. 9 : Between(Calibration[i])
  /\ Proper(Calibration[10])
  /\ Calibration[10].topic # "enumerate_devices_request"
PROOF
<1>1. DOMAIN Calibration = 1 .. 10
  BY DEF Calibration
<1>2. \A i \in 1 .. 9 : i \in {1, 2, 3, 4, 5, 6, 7, 8, 9}
  OBVIOUS
<1>3. /\ \E n, t, k : Calibration[1] = set_param(n, t, k)
      /\ \E n, t, k : Calibration[2] = set_param(n, t, k)
      /\ \E n, t, k : Calibration[3] = set_param(n, t, k)
      /\ \E n, t, k : Calibration[4] = set_param(n, t, k)
      /\ \E n, t, k : Calibration[5] = set_param(n, t, k)
      /\ \E n, t, k : Calibration[6] = set_param(n, t, k)
      /\ \E n, t, k : Calibration[7] = set_param(n, t, k)
      /\ \E n, t, k : Calibration[8] = set_param(n, t, k)
      /\ \E n, t, k : Calibration[9] = set_param(n, t, k)
  BY DEF Calibration, Off
<1>4. \A i \in 1 .. 9 : Between(Calibration[i])
  BY <1>2, <1>3, Settings
<1>5. triggered_calibration.topic = "triggered_calibration_request"
  BY DEF triggered_calibration, AboutCamera, Asking
<1>6. Calibration[10] = triggered_calibration
  BY DEF Calibration
<1>7. Proper(Calibration[10])
  BY <1>5, <1>6 DEF Proper, Subscribed, RequestTopics, Required
<1> QED
  BY <1>1, <1>4, <1>5, <1>6, <1>7

LEMMA Joined ==
  ASSUME NEW S, NEW s \in Seq(S), NEW t \in Seq(S)
  PROVE  /\ s \o t \in Seq(S) /\ Len(s) \in Nat /\ Len(t) \in Nat
         /\ DOMAIN (s \o t) = 1 .. (Len(s) + Len(t)) /\ Len(s \o t) = Len(s) + Len(t)
         /\ \A i \in 1 .. Len(s) : (s \o t)[i] = s[i]
         /\ \A i \in (Len(s) + 1) .. (Len(s) + Len(t)) : (s \o t)[i] = t[i - Len(s)]
PROOF
<1>1. /\ s \o t \in Seq(S)
      /\ Len(s \o t) = Len(s) + Len(t)
      /\ \A i \in 1 .. Len(s) + Len(t) :
           (s \o t)[i] = IF i <= Len(s) THEN s[i] ELSE t[i - Len(s)]
  BY ConcatProperties
<1> QED
  BY <1>1

LEMMA TheScript ==
  /\ DOMAIN Script = 1 .. 27 /\ Len(Script) = 27
  /\ \A i \in 1 .. 27 : Proper(Script[i])
  /\ \A i \in 1 .. 26 : Script[i].topic # "triggered_calibration_request"
  /\ \A i \in 2 .. 26 : Between(Script[i])
PROOF
<1> DEFINE S == {Queries[i] : i \in 1 .. 9} \cup {Tables[i] : i \in 1 .. 8}
                \cup {Calibration[i] : i \in 1 .. 10}
<1>1. Queries \in Seq(S)
  <2>1. Queries[1] \in S /\ Queries[2] \in S /\ Queries[3] \in S /\ Queries[4] \in S
        /\ Queries[5] \in S /\ Queries[6] \in S /\ Queries[7] \in S /\ Queries[8] \in S
        /\ Queries[9] \in S
    OBVIOUS
  <2> HIDE DEF S
  <2> QED
    BY <2>1 DEF Queries
<1>2. Tables \in Seq(S)
  <2>1. Tables[1] \in S /\ Tables[2] \in S /\ Tables[3] \in S /\ Tables[4] \in S
        /\ Tables[5] \in S /\ Tables[6] \in S /\ Tables[7] \in S /\ Tables[8] \in S
    OBVIOUS
  <2> HIDE DEF S
  <2> QED
    BY <2>1 DEF Tables
<1>3. Calibration \in Seq(S)
  <2>1. Calibration[1] \in S /\ Calibration[2] \in S /\ Calibration[3] \in S
        /\ Calibration[4] \in S /\ Calibration[5] \in S /\ Calibration[6] \in S
        /\ Calibration[7] \in S /\ Calibration[8] \in S /\ Calibration[9] \in S
        /\ Calibration[10] \in S
    OBVIOUS
  <2> HIDE DEF S
  <2> QED
    BY <2>1 DEF Calibration
<1> HIDE DEF S
<1>4. /\ Queries \o Tables \in Seq(S) /\ Len(Queries \o Tables) = 17
      /\ \A i \in 1 .. 9 : (Queries \o Tables)[i] = Queries[i]
      /\ \A i \in 10 .. 17 : (Queries \o Tables)[i] = Tables[i - 9]
  <2>1. Len(Queries) = 9 /\ Len(Tables) = 8
    BY DEF Queries, Tables
  <2>2. /\ Queries \o Tables \in Seq(S)
        /\ Len(Queries \o Tables) = Len(Queries) + Len(Tables)
        /\ \A i \in 1 .. Len(Queries) : (Queries \o Tables)[i] = Queries[i]
        /\ \A i \in (Len(Queries) + 1) .. (Len(Queries) + Len(Tables)) :
             (Queries \o Tables)[i] = Tables[i - Len(Queries)]
    BY <1>1, <1>2, Joined
  <2>3. Len(Queries) + 1 = 10 /\ Len(Queries) + Len(Tables) = 17
    BY <2>1
  <2> QED
    BY <2>1, <2>2, <2>3
<1>5. /\ DOMAIN Script = 1 .. 27 /\ Len(Script) = 27
      /\ \A i \in 1 .. 17 : Script[i] = (Queries \o Tables)[i]
      /\ \A i \in 18 .. 27 : Script[i] = Calibration[i - 17]
  <2>1. Len(Calibration) = 10
    BY DEF Calibration
  <2>2. /\ Script = (Queries \o Tables) \o Calibration
        /\ Queries \o Tables \in Seq(S) /\ Len(Queries \o Tables) = 17
    BY <1>4 DEF Script
  <2>3. ASSUME NEW two \in Seq(S), Len(two) = 17, Script = two \o Calibration
        PROVE  /\ DOMAIN Script = 1 .. 27 /\ Len(Script) = 27
               /\ \A i \in 1 .. 17 : Script[i] = two[i]
               /\ \A i \in 18 .. 27 : Script[i] = Calibration[i - 17]
    <3>1. /\ DOMAIN Script = 1 .. (Len(two) + Len(Calibration))
          /\ Len(Script) = Len(two) + Len(Calibration)
          /\ \A i \in 1 .. Len(two) : Script[i] = two[i]
          /\ \A i \in (Len(two) + 1) .. (Len(two) + Len(Calibration)) :
               Script[i] = Calibration[i - Len(two)]
      <4>1. /\ DOMAIN (two \o Calibration) = 1 .. (Len(two) + Len(Calibration))
            /\ Len(two \o Calibration) = Len(two) + Len(Calibration)
            /\ \A i \in 1 .. Len(two) : (two \o Calibration)[i] = two[i]
            /\ \A i \in (Len(two) + 1) .. (Len(two) + Len(Calibration)) :
                 (two \o Calibration)[i] = Calibration[i - Len(two)]
        BY <1>3, Joined
      <4> QED
        BY <2>3, <4>1, Zenon
    <3>2. Len(two) + Len(Calibration) = 27 /\ Len(two) + 1 = 18
      BY <2>1, <2>3
    <3> QED
      BY <2>3, <3>1, <3>2
  <2> QED
    BY <2>2, <2>3
<1>6. \A r : Between(r) => Proper(r) /\ r.topic # "triggered_calibration_request"
  BY DEF Between
<1>7. /\ \A i \in 1 .. 9 : Script[i] = Queries[i]
      /\ \A i \in 10 .. 17 : i - 9 \in 1 .. 8 /\ Script[i] = Tables[i - 9]
  <2>1. /\ \A i \in 1 .. 9 : i \in 1 .. 17
        /\ \A i \in 10 .. 17 : i \in 1 .. 17 /\ i - 9 \in 1 .. 8
    OBVIOUS
  <2> QED
    BY <1>4, <1>5, <2>1
<1>8. /\ Proper(Script[1]) /\ Script[1].topic # "triggered_calibration_request"
      /\ \A i \in 2 .. 9 : Between(Script[i])
  BY <1>7, QueriesAre
<1>9. \A i \in 10 .. 17 : Between(Script[i])
  BY <1>7, TablesAre
<1>10. \A i \in 18 .. 26 : Between(Script[i])
  <2>1. \A i \in 18 .. 26 : i - 17 \in 1 .. 9 /\ i \in 18 .. 27
    OBVIOUS
  <2> QED
    BY <1>5, <2>1, CalibrationIs
<1>11. Proper(Script[27])
  <2>1. 27 \in 18 .. 27 /\ 27 - 17 = 10
    OBVIOUS
  <2> QED
    BY <1>5, <2>1, CalibrationIs
<1>12. \A i \in 1 .. 27 : i = 1 \/ i \in 2 .. 9 \/ i \in 10 .. 17 \/ i \in 18 .. 26 \/ i = 27
  OBVIOUS
<1>13. \A i \in 2 .. 26 : Between(Script[i])
  <2>1. \A i \in 2 .. 26 : i \in 2 .. 9 \/ i \in 10 .. 17 \/ i \in 18 .. 26
    OBVIOUS
  <2> QED
    BY <1>8, <1>9, <1>10, <2>1
<1>14. \A i \in 1 .. 26 : i = 1 \/ i \in 2 .. 26
  OBVIOUS
<1> QED
  BY <1>5, <1>6, <1>7, <1>8, <1>9, <1>10, <1>11, <1>12, <1>13, <1>14

LEMMA ClientStepsAreTheBridges ==
  ASSUME [DemoNext]_vars
  PROVE  [Next]_bridgeVars
PROOF
<1>1. CASE Client
  BY <1>1 DEF Client, Lock, Publish, Unlocked, Stop, OnMessage, Next
<1>2. CASE Bridge \/ UNCHANGED vars
  BY <1>2 DEF Next, vars
<1> QED
  BY <1>1, <1>2 DEF DemoNext

\* How many of the program's requests it has not heard of yet, at each place
\* in its loop: a message that comes early leaves the lock open for the
\* request after it, and no more than one can.
BehindAt(n) ==
  /\ at = "ready" => n <= 1
  /\ at = "publishing" => n <= 1 /\ (~locked /\ Locks(NextRequest) => n <= 0)
  /\ at = "waiting" => n <= 2 /\ (~locked => n <= 1)

ClientInv ==
  /\ at \in {"ready", "publishing", "waiting", "stopped"}
  /\ read \in Nat /\ read <= Len(replies)
  /\ \A i \in 1 .. Len(asked) : asked[i] = Script[i]
  /\ Len(asked) < Len(Script) => at # "stopped" /\ BehindAt(Len(asked) - read)

\* The bridge's steps add messages and publish no request.
LEMMA RepliesGrow ==
  ASSUME BridgeInv, [Next]_bridgeVars
  PROVE  /\ replies' \in Seq(Message) /\ Len(replies) <= Len(replies')
         /\ Len(replies) \in Nat /\ Len(replies') \in Nat
         /\ Ask \/ UNCHANGED asked
PROOF
<1>1. replies \in Seq(Message)
  BY DEF BridgeInv, TypeOK, ThreadsTypeOK
<1>2. CASE UNCHANGED replies /\ (Ask \/ UNCHANGED asked)
  BY <1>1, <1>2
<1>3. ASSUME NEW id \in Id, SaysAbout(id), UNCHANGED asked
      PROVE  /\ replies' \in Seq(Message) /\ Len(replies) <= Len(replies')
             /\ Len(replies) \in Nat /\ Len(replies') \in Nat
  <2>1. replies' \in Seq(Message) /\ DOMAIN replies \subseteq DOMAIN replies'
    BY <1>3, Said DEF BridgeInv
  <2>2. /\ DOMAIN replies = 1 .. Len(replies) /\ Len(replies) \in Nat
        /\ DOMAIN replies' = 1 .. Len(replies') /\ Len(replies') \in Nat
    BY <1>1, <2>1
  <2>3. Len(replies) = 0 \/ Len(replies) \in DOMAIN replies
    BY <2>2
  <2> QED
    BY <2>1, <2>2, <2>3
<1>4. CASE Ask \/ Surroundings \/ UNCHANGED bridgeVars
  BY <1>2, <1>4 DEF Ask, Surroundings, Disconnect, Connect, CameraDown, CameraUp, bridgeVars,
                    threadVars
<1>5. ASSUME NEW id \in Id, MqttThread(id)
      PROVE  SaysAbout(id) /\ UNCHANGED asked
  BY <1>5, MqttSteps, KeptByThreads DEF MqttStep, BridgeInv
<1>6. ASSUME NEW id \in Id, ExecutorThread(id)
      PROVE  (SaysAbout(id) \/ UNCHANGED replies) /\ UNCHANGED asked
  BY <1>6, ExecutorSteps DEF ExecutorStep
<1> QED
  BY <1>2, <1>3, <1>4, <1>5, <1>6, StepKinds

LEMMA BridgePublishesNothing ==
  ASSUME BridgeInv, Bridge
  PROVE  UNCHANGED asked
PROOF
<1>1. ASSUME NEW id \in Id, MqttThread(id)
      PROVE  UNCHANGED asked
  BY <1>1, MqttSteps, KeptByThreads DEF BridgeInv
<1>2. ASSUME NEW id \in Id, ExecutorThread(id)
      PROVE  UNCHANGED asked
  BY <1>2, ExecutorSteps DEF ExecutorStep
<1>3. CASE Connect \/ Disconnect \/ \E c \in Camera : CameraUp(c) \/ CameraDown(c)
  BY <1>3 DEF Connect, Disconnect, CameraUp, CameraDown
<1> QED
  BY <1>1, <1>2, <1>3 DEF Bridge, Work, ExecutorThread

\* The places in the script, by the number of requests before each.
LEMMA Places ==
  ASSUME NEW n \in Nat
  PROVE  /\ n < 27 => n <= 26 /\ n + 1 \in 1 .. 27
         /\ n + 1 < 27 => n = 0 \/ n + 1 \in 2 .. 26
         /\ \A i \in 1 .. n : i \in Nat /\ (n <= 26 => i \in 1 .. 26) /\ (n <= 27 => i \in 1 .. 27)
PROOF
  OBVIOUS

\* Every message is of a request of the program, on a topic it listens to.
LEMMA MessagesAreHeard ==
  ASSUME BridgeInv, ClientInv, NEW i \in DOMAIN replies
  PROVE  /\ replies[i].req \in 1 .. Len(asked)
         /\ asked[replies[i].req].topic \in Subscribed
PROOF
<1>1. replies[i].req \in Id /\ replies[i].req <= Len(asked)
  BY RepliesKnown DEF BridgeInv
<1>2. Len(asked) \in Nat /\ Len(asked) <= 27
  BY ScriptAssumption, TheScript DEF BridgeInv, TypeOK, ThreadsTypeOK
<1>3. replies[i].req \in 1 .. Len(asked)
  <2>1. replies[i].req \in Nat \ {0}
    BY <1>1, IdsAreNaturals
  <2> QED
    BY <1>1, <1>2, <2>1
<1>4. replies[i].req \in 1 .. 27
  BY <1>2, <1>3, Places
<1> QED
  BY <1>3, <1>4, TheScript DEF ClientInv, Proper

LEMMA InitEstablishesClient ==
  ASSUME DemoInit
  PROVE  ClientInv
PROOF
<1>1. asked = << >> /\ replies = << >> /\ at = "ready" /\ read = 0
  BY DEF DemoInit, Init, ThreadsInit
<1>2. Len(asked) = 0 /\ Len(replies) = 0
  BY <1>1
<1> QED
  BY <1>1, <1>2 DEF ClientInv, BehindAt

LEMMA ClientInvKept ==
  ASSUME BridgeInv, ClientInv, [DemoNext]_vars
  PROVE  ClientInv'
PROOF
<1>1. /\ Len(asked) \in Nat /\ Len(replies) \in Nat /\ Len(replies') \in Nat
      /\ Len(replies) <= Len(replies')
  BY ClientStepsAreTheBridges, RepliesGrow DEF BridgeInv, TypeOK, ThreadsTypeOK
<1>2. Len(Script) = 27 /\ DOMAIN Script = 1 .. 27 /\ MaxRequests = 27
  BY TheScript, ScriptAssumption
<1> DEFINE n == Len(asked) - read
<1>3. read \in Nat /\ read <= Len(replies) /\ n \in Int
  BY <1>1 DEF ClientInv
<1>4. CASE Lock
  <2>1. /\ at = "ready" /\ at' = "publishing" /\ Len(asked) < Len(Script)
        /\ locked' = (locked \/ Locks(NextRequest))
        /\ UNCHANGED <<asked, replies, read>>
    BY <1>4 DEF Lock, bridgeVars, threadVars
  <2>2. ~locked' /\ Locks(NextRequest)' => FALSE
    BY <2>1 DEF NextRequest, Locks
  <2>3. BehindAt(Len(asked) - read)'
    BY <2>1, <2>2 DEF ClientInv, BehindAt
  <2> QED
    BY <2>1, <2>3 DEF ClientInv
<1>5. CASE Unlocked
  BY <1>5 DEF Unlocked, bridgeVars, threadVars, ClientInv, BehindAt
<1>6. CASE Stop
  <2>1. /\ Len(asked) = Len(Script) /\ at' = "stopped"
        /\ UNCHANGED <<asked, replies, read>>
    BY <1>6 DEF Stop, bridgeVars, threadVars
  <2>2. ~(Len(asked') < Len(Script))
    BY <1>2, <2>1
  <2> QED
    BY <2>1, <2>2 DEF ClientInv
<1>7. CASE OnMessage
  <2>1. /\ read' = read + 1 /\ read < Len(replies)
        /\ UNCHANGED <<asked, replies, at>>
        /\ locked' = (locked /\ asked[replies[read + 1].req].topic \notin Subscribed)
    BY <1>7 DEF OnMessage, Delivered, bridgeVars, threadVars
  <2>2. read + 1 \in DOMAIN replies
    BY <1>1, <1>3, <2>1 DEF BridgeInv, TypeOK, ThreadsTypeOK
  <2>3. ~locked'
    BY <2>1, <2>2, MessagesAreHeard
  <2>4. Len(asked') - read' = n - 1
    BY <1>1, <1>3, <2>1
  <2>5. BehindAt(n) => BehindAt(Len(asked) - read)'
    BY <1>3, <2>1, <2>4 DEF BehindAt
  <2>6. read' \in Nat /\ read' <= Len(replies')
    BY <1>1, <1>3, <2>1
  <2> QED
    BY <2>1, <2>5, <2>6 DEF ClientInv
<1>8. CASE Publish
  <2>1. /\ at = "publishing" /\ Ask
        /\ at' = IF Locks(NextRequest) THEN "waiting" ELSE "ready"
        /\ UNCHANGED <<locked, read, replies>>
    BY <1>8 DEF Publish, Ask
  <2>2. PICK r \in Requests[Len(asked) + 1] : asked' = Append(asked, r)
    BY <2>1 DEF Ask
  <2>3. Len(asked) < 27 /\ Len(asked) + 1 \in DOMAIN Script
    <3>1. Len(asked) < MaxRequests
      BY <2>1 DEF Ask
    <3>2. Len(asked) < 27 /\ Len(asked) \in Nat
      BY <1>1, <1>2, <3>1
    <3> QED
      BY <1>2, <3>2, Places
  <2>4. r = Script[Len(asked) + 1]
    BY <2>2, <2>3, ScriptAssumption DEF ScriptRequests
  <2>5. /\ Len(asked') = Len(asked) + 1
        /\ \A i \in 1 .. Len(asked) : asked'[i] = asked[i]
        /\ asked'[Len(asked) + 1] = r
    BY <2>2, <1>1 DEF BridgeInv, TypeOK, ThreadsTypeOK
  <2>6. \A i \in 1 .. Len(asked') : asked'[i] = Script[i]
    BY <1>1, <2>4, <2>5 DEF ClientInv
  <2>7. BehindAt(n) /\ n \in Int
    BY <1>2, <1>3, <2>3 DEF ClientInv
  <2>8. ASSUME Len(asked') < Len(Script)
        PROVE  BehindAt(Len(asked) - read)' /\ at' # "stopped"
    <3>1. Len(asked') - read' = n + 1
      BY <1>1, <1>3, <2>1, <2>5
    <3>2. CASE Locks(NextRequest)
      BY <2>1, <2>7, <3>1, <3>2 DEF BehindAt
    <3>3. CASE ~Locks(NextRequest)
      <4>1. Len(asked) = 0
        <5>1. Len(asked) = 0 \/ Len(asked) + 1 \in 2 .. 26
          <6>1. Len(asked) + 1 < 27 /\ Len(asked) \in Nat
            BY <1>1, <1>2, <2>5, <2>8
          <6> QED
            BY <6>1, Places
        <5>2. ~Between(NextRequest)
          <6>1. NextRequest = enumerate_devices \/ NextRequest = triggered_calibration
            BY <3>3 DEF Locks
          <6>2. /\ enumerate_devices.topic = "enumerate_devices_request"
                /\ triggered_calibration.topic = "triggered_calibration_request"
            BY DEF enumerate_devices, triggered_calibration, AboutCamera, Asking
          <6> QED
            BY <6>1, <6>2 DEF Between
        <5>3. Len(asked) + 1 \notin 2 .. 26
          BY <5>2, TheScript DEF NextRequest
        <5> QED
          BY <5>1, <5>3
      <4>2. n <= 0
        BY <1>3, <4>1
      <4> QED
        BY <2>1, <2>7, <3>1, <3>3, <4>2 DEF BehindAt
    <3> QED
      BY <3>2, <3>3
  <2> QED
    BY <1>3, <2>1, <2>6, <2>8 DEF ClientInv
<1>9. ASSUME UNCHANGED clientVars, UNCHANGED asked
      PROVE  ClientInv'
  <2>1. read' \in Nat /\ read' <= Len(replies')
    BY <1>1, <1>3, <1>9 DEF clientVars
  <2>2. BehindAt(Len(asked) - read) => BehindAt(Len(asked) - read)'
    BY <1>9 DEF BehindAt, NextRequest, Locks, clientVars
  <2> QED
    BY <1>9, <2>1, <2>2 DEF ClientInv, clientVars
<1>10. CASE Bridge /\ UNCHANGED clientVars
  <2>1. UNCHANGED asked
    BY <1>10, BridgePublishesNothing
  <2> QED
    BY <1>9, <1>10, <2>1
<1>11. CASE UNCHANGED vars
  BY <1>9, <1>11 DEF vars, bridgeVars, threadVars
<1> QED
  BY <1>4, <1>5, <1>6, <1>7, <1>8, <1>10, <1>11 DEF DemoNext, Client

\* Before the calibration there is one message about each request at most.
LEMMA HeardOnce ==
  ASSUME BridgeInv, SettingInv, ClientInv, Len(asked) < Len(Script),
         NEW i \in DOMAIN replies, NEW j \in DOMAIN replies, i < j
  PROVE  replies[i].req # replies[j].req
PROOF
<1>1. Len(asked) \in Nat /\ Len(asked) <= 26
  <2>1. Len(asked) \in Nat
    BY DEF BridgeInv, TypeOK, ThreadsTypeOK
  <2>2. Len(asked) < 27
    BY TheScript
  <2> QED
    BY <2>1, <2>2, Places
<1>2. \A id \in Id : id <= Len(asked) => ~IsRun(id)
  <2>1. \A id \in Id : id <= Len(asked) => id \in 1 .. Len(asked)
    BY <1>1, IdsAreNaturals
  <2>2. \A id \in 1 .. Len(asked) : id \in 1 .. 26
    BY <1>1, Places
  <2> QED
    BY <2>1, <2>2, TheScript DEF ClientInv, IsRun
<1>3. overlapped = {}
  BY <1>2 DEF SettingInv, ProgressOfRuns
<1>4. replies[i].req \in Id /\ replies[i].req <= Len(asked)
  BY RepliesKnown DEF BridgeInv
<1>5. replies[i].final
  BY <1>2, <1>4 DEF SettingInv, ProgressOfRuns
<1> QED
  BY <1>3, <1>5 DEF BridgeInv, CalibrationInv, NothingAfterFinal

LEMMA UnheardAreBehind ==
  ASSUME BridgeInv, SettingInv, ClientInv, Len(asked) < Len(Script)
  PROVE  Cardinality(Unheard) = Len(asked) - read
PROOF
<1> DEFINE Heard == {replies[i].req : i \in 1 .. read}
           heard == [i \in 1 .. read |-> replies[i].req]
<1>1. /\ read \in Nat /\ Len(asked) \in Nat
      /\ \A i \in 1 .. read : i \in DOMAIN replies /\ i \in Nat
  BY DEF ClientInv, BridgeInv, TypeOK, ThreadsTypeOK
<1>2. Heard \subseteq 1 .. Len(asked)
  BY <1>1, MessagesAreHeard
<1>3. heard \in Bijection(1 .. read, Heard)
  <2>1. ASSUME NEW i \in 1 .. read, NEW j \in 1 .. read, heard[i] = heard[j]
        PROVE  i = j
    <3>1. ~(i < j) /\ ~(j < i)
      BY <1>1, <2>1, HeardOnce
    <3> QED
      BY <1>1, <3>1
  <2>2. \A i, j \in 1 .. read : heard[i] = heard[j] => i = j
    BY <2>1
  <2>3. \A id \in Heard : \E i \in 1 .. read : heard[i] = id
    OBVIOUS
  <2>4. heard \in [1 .. read -> Heard]
    OBVIOUS
  <2> QED
    BY <2>2, <2>3, <2>4 DEF Bijection, Injection, Surjection, IsInjective
<1>4. IsFiniteSet(1 .. read) /\ Cardinality(1 .. read) = read
      /\ IsFiniteSet(1 .. Len(asked)) /\ Cardinality(1 .. Len(asked)) = Len(asked)
  <2>1. ASSUME NEW n \in Nat
        PROVE  IsFiniteSet(1 .. n) /\ Cardinality(1 .. n) = n
    <3>1. IsFiniteSet(1 .. n)
      BY FS_Interval
    <3>2. Cardinality(1 .. n) = n
      BY FS_Interval
    <3> QED
      BY <3>1, <3>2
  <2> QED
    BY <1>1, <2>1
<1>5. Cardinality(Heard) = read
  <2>1. ExistsBijection(1 .. read, Heard)
    BY <1>3 DEF ExistsBijection
  <2> QED
    BY <1>4, <2>1, FS_Bijection
<1>6. (1 .. Len(asked)) \cap Heard = Heard
  BY <1>2
<1>7. Unheard = (1 .. Len(asked)) \ Heard
  BY DEF Unheard
<1>8. Cardinality((1 .. Len(asked)) \ Heard) =
        Cardinality(1 .. Len(asked)) - Cardinality((1 .. Len(asked)) \cap Heard)
  BY <1>4, FS_Difference
<1> QED
  BY <1>4, <1>5, <1>6, <1>7, <1>8

LEMMA NeverFarBehind ==
  ASSUME BridgeInv, SettingInv, ClientInv
  PROVE  AtMostOneBehind
PROOF
  BY UnheardAreBehind DEF ClientInv, BehindAt, AtMostOneBehind

LEMMA CalibrationComesLast ==
  ASSUME BridgeInv, SettingInv, ClientInv
  PROVE  CalibratesAfterSetup
PROOF
<1> SUFFICES ASSUME NEW g \in Id, goals[g].at # "none",
                    NEW id \in 1 .. g, asked[id].topic = "set_param_request"
             PROVE  id \in unanswered \/ \E k \in DOMAIN served : served[k].req = id
  BY DEF CalibratesAfterSetup
<1>1. /\ g <= Len(asked) /\ g \in Nat
      /\ Len(asked) \in Nat /\ Len(asked) <= MaxRequests
  BY IdsAreNaturals DEF SettingInv, GoalsInOrder, BridgeInv, TypeOK, ThreadsTypeOK
<1>2. id \in 1 .. Len(asked) /\ id \in 1 .. 27
  <2>1. id \in 1 .. Len(asked)
    BY <1>1
  <2>2. Len(asked) <= 27
    BY <1>1, TheScript, ScriptAssumption
  <2> QED
    BY <1>1, <2>1, <2>2, Places
<1>3. Accepted(asked[id])
  BY <1>2, TheScript DEF ClientInv, Proper
<1> QED
  BY <1>3, RunsFollow DEF RunsFollowSets, IsSet

DemoInv == BridgeInv /\ SettingInv /\ ClientInv

LEMMA DemoInvariant == DemoSpec => []DemoInv
PROOF
<1>1. DemoInit => DemoInv
  BY InitEstablishes, InitEstablishesSetting, InitEstablishesClient DEF DemoInit, DemoInv
<1>2. DemoInv /\ [DemoNext]_vars => DemoInv'
  BY ClientStepsAreTheBridges, NextKeepsInvariant, NextKeepsSetting, ClientInvKept DEF DemoInv
<1> QED
  BY <1>1, <1>2, PTL DEF DemoSpec

(* Before the calibration, the example client is never more than one       *)
(* request ahead of what it has heard when it goes on to the next.         *)
THEOREM ProgramStaysClose == DemoSpec => []AtMostOneBehind
PROOF
<1>1. DemoInv => AtMostOneBehind
  BY NeverFarBehind DEF DemoInv
<1> QED
  BY <1>1, DemoInvariant, PTL

(* The calibration it asks for starts after every parameter it set before  *)
(* was served by the camera, or given up.                                  *)
THEOREM ProgramCalibratesLast == DemoSpec => []CalibratesAfterSetup
PROOF
<1>1. DemoInv => CalibratesAfterSetup
  BY CalibrationComesLast DEF DemoInv
<1> QED
  BY <1>1, DemoInvariant, PTL

(* The example client is one of the clients the bridge is proved for.      *)
THEOREM ProgramUsesTheBridge == DemoSpec => Init /\ [][Next]_bridgeVars
PROOF
<1>1. DemoInit => Init
  BY DEF DemoInit
<1> QED
  BY <1>1, ClientStepsAreTheBridges, PTL DEF DemoSpec
=============================================================================
