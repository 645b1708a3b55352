----------------------------- MODULE MqttBridge -----------------------------
(* The ROS-MQTT bridge: every request topic and its handler, the two       *)
(* threads, the broker connection, and cameras that come and go.           *)
EXTENDS ServiceCalls, FrameHandler, TriggeredCalibration

bridgeVars == <<threadVars, serviceVars, frameVars, calibrationVars>>

handlerVars == <<serviceVars, frameVars, calibrationVars>>

Init == ThreadsInit /\ ServicesInit /\ FramesInit /\ CalibrationInit

-----------------------------------------------------------------------------
(* Requests and the connection.  The bridge subscribes with quality of     *)
(* service 0 and a clean session: what is published, or still unread,      *)
(* while it is disconnected is lost.                                       *)

\* A client publishes the next request.
Ask ==
  /\ Len(asked) < MaxRequests
  /\ \E r \in Requests[Len(asked) + 1] : asked' = Append(asked, r)
  /\ IF connected /\ Running
     THEN inbox' = Append(inbox, Len(asked) + 1) /\ UNCHANGED unanswered
     ELSE Drop(Len(asked) + 1) /\ UNCHANGED inbox
  /\ UNCHANGED <<connected, up, faults, mqtt, executor, replies, handlerVars>>

Fault == faults < MaxFaults /\ faults' = faults + 1

Disconnect ==
  /\ Fault /\ connected
  /\ connected' = FALSE
  /\ inbox' = << >>
  /\ unanswered' = unanswered \cup {inbox[i] : i \in DOMAIN inbox}
  /\ UNCHANGED <<asked, up, mqtt, executor, replies, handlerVars>>

\* paho reconnects from its own thread, and on_mqtt_connect subscribes again.
Connect ==
  /\ ~connected
  /\ Running /\ mqtt.at = "idle"
  /\ connected' = TRUE
  /\ UNCHANGED <<asked, inbox, up, faults, mqtt, executor, replies, unanswered, handlerVars>>

\* A camera's node ends, with the call and the goals it was serving.
CameraDown(c) ==
  /\ Fault /\ c \in up
  /\ up' = up \ {c}
  /\ IF mqtt.req \in DOMAIN asked /\ asked[mqtt.req].cam = c THEN LoseCall ELSE UNCHANGED call
  /\ LoseGoals(c)
  /\ UNCHANGED <<asked, inbox, connected, mqtt, executor, replies, unanswered, served,
                 frameVars, action_clients, goal_handles, registered, overlapped>>

CameraUp(c) ==
  /\ c \notin up
  /\ up' = up \cup {c}
  /\ UNCHANGED <<asked, inbox, connected, faults, mqtt, executor, replies, unanswered, handlerVars>>

-----------------------------------------------------------------------------
(* on_mqtt_message.                                                        *)

\* json.loads raises, and paho's thread ends.
ParseFails(id) ==
  /\ Take(id)
  /\ asked[id].fields = None
  /\ MqttGoes("dead", id) /\ Drop(id)
  /\ UNCHANGED <<replies, handlerVars>>

\* A field is missing, or the topic has no handler.
Refuse(id) ==
  /\ Take(id)
  /\ asked[id].fields # None /\ ~Accepted(asked[id])
  /\ Answer(id, FALSE)
  /\ UNCHANGED <<mqtt, unanswered, handlerVars>>

EnumerateDevices(id) ==
  /\ Handle(id, "enumerate_devices_request")
  /\ Answer(id, TRUE)
  /\ UNCHANGED <<mqtt, unanswered, handlerVars>>

\* The transform is looked up in the buffer; a missing one is an answer too.
GetTransformation(id) ==
  /\ Handle(id, "get_transformation_request")
  /\ \E found \in BOOLEAN : Answer(id, found)
  /\ UNCHANGED <<mqtt, unanswered, handlerVars>>

\* paho's thread: the branches of on_mqtt_message, and the later steps of
\* the handlers that have some.
MqttThread(id) ==
  \/ ParseFails(id) \/ Refuse(id) \/ EnumerateDevices(id) \/ GetTransformation(id)
  \/ (HandleService(id) \/ ServiceReply(id)) /\ UNCHANGED <<frameVars, calibrationVars>>
  \/ HandleFrame(id) /\ UNCHANGED <<serviceVars, calibrationVars>>
  \/ HandleCalibration(id) /\ UNCHANGED <<serviceVars, frameVars>>

\* The executor's callbacks: what the ROS network brings, by request.
CameraAnswers(id) == ServiceResponse(id) /\ UNCHANGED <<frameVars, calibrationVars>>
ImageComes(id) == ImageArrives(id) /\ UNCHANGED <<serviceVars, calibrationVars>>
GoalIsAnswered(id) == Respond(id) /\ UNCHANGED <<serviceVars, frameVars>>
FeedbackComes(id) == (\E p \in Progress : Feedback(id, p)) /\ UNCHANGED <<serviceVars, frameVars>>
ResultComes(id) == Result(id) /\ UNCHANGED <<serviceVars, frameVars>>

\* The later steps of a callback that has some.
Executor(id) ==
  \/ ExecuteFrame(id) /\ UNCHANGED <<serviceVars, calibrationVars>>
  \/ ExecuteCalibration(id) /\ UNCHANGED <<serviceVars, frameVars>>

\* The requests the threads are at, and the one to be taken up next.
AtHand == {mqtt.req, executor.req} \cup {inbox[i] : i \in {1} \cap DOMAIN inbox}

\* Whatever the two threads, the broker and the cameras have to do is done
\* in the end: of it something happens as long as there is something.  It is
\* always finite, so fairness to every thread and camera would say no more.
\* No client need publish, no feedback need come, nothing need fail, and no
\* camera's node need come back: nothing in the repository restarts one.
Work ==
  \/ Connect
  \/ \E id \in Id \cap AtHand : MqttThread(id) \/ Executor(id)
  \/ \E id \in Id \cap DOMAIN asked :
       \/ CameraAnswers(id) \/ ImageComes(id) \/ GoalIsAnswered(id) \/ ResultComes(id)

Bridge ==
  \/ Work
  \/ Disconnect
  \/ \E c \in Camera : CameraDown(c) \/ CameraUp(c)
  \/ \E id \in Id \cap DOMAIN asked : FeedbackComes(id)

Next == Ask \/ Bridge

Fairness == WF_bridgeVars(Work)

Spec == Init /\ [][Next]_bridgeVars /\ Fairness

-----------------------------------------------------------------------------
TypeOK == ThreadsTypeOK /\ ServicesTypeOK /\ FramesTypeOK /\ CalibrationTypeOK

\* A request has at most one final reply, and no message about it follows
\* that one: the result callback destroys its own client before any later
\* feedback can be delivered.  A run started before the previous one was
\* cleaned up may have its client destroyed in the other's place, and only
\* then does the leftover client still deliver.
NothingAfterFinal ==
  \A i, j \in DOMAIN replies :
    i < j /\ replies[i].req = replies[j].req =>
      ~replies[i].final \/ CameraOf(replies[i].req) \in overlapped

\* get_frame's dict and its subscriptions agree, whichever thread is in the
\* middle of its handler: an entry holds a request without a final reply,
\* whose subscription is live unless the executor is about to clear the
\* entry; a live subscription is in its entry unless paho's thread is about
\* to store it.
FrameSlots ==
  /\ \A t \in ImageTopic : Busy(t) =>
       LET id == topic_handle[t] IN
       /\ id <= Len(asked) /\ ImageTopicOf(id) = t
       /\ Final(id) = {}
       /\ (id \in subscriptions) # (executor = [at |-> "resetting", req |-> id])
  /\ \A id \in subscriptions :
       (topic_handle[ImageTopicOf(id)] = id) # (mqtt = [at |-> "storing", req |-> id])

\* The goals whose result callback never comes.
Unfinished == {"rejected", "lost"}

CleansUp(g) == executor.at \in {"destroying", "clearing"} /\ executor.req = g

SlotsOf(c, g) ==
  /\ goals[g].at \in {"sent", "tracked"} => action_clients[c] = g /\ g \in registered
  /\ goals[g].at = "tracked" => goal_handles[c] = g
  /\ goals[g].at = "done" /\ ~CleansUp(g) =>
       g \notin registered /\ g \notin {action_clients[c], goal_handles[c]}
  /\ goals[g].at \in Unfinished => g \in registered
  /\ goal_handles[c] = g => goals[g].at \in {"tracked", "done"} \cup Unfinished
  /\ g \in registered => action_clients[c] = g \/ goals[g].at \in Unfinished

\* On a camera whose runs never overlapped: a goal under way has its client
\* in the slot, and its handle once it is accepted; until then the handle
\* slot holds nothing, or what an earlier goal left there that was rejected
\* or lost with its camera.  A finished run leaves neither client nor handle.
\* A rejected or lost goal's client is never destroyed, and no other client is
\* left over once its slot has gone to the next run.
CalibrationSlots ==
  \A c \in Camera \ overlapped : \A g \in Id :
    g <= Len(asked) /\ CameraOf(g) = c => SlotsOf(c, g)

\* The topics whose handlers call no service.
NoService == {"enumerate_devices_request", "get_transformation_request",
              "get_frame_request", "triggered_calibration_request"}

\* The camera serves requests in the order they were asked, each at most
\* once, and no service request is reported done before it was served.
ServedInOrder ==
  /\ \A i, j \in DOMAIN served : i < j => served[i].req < served[j].req
  /\ \A i \in DOMAIN replies :
       /\ asked[replies[i].req].topic \notin NoService
       /\ replies[i].success # FALSE
       => \E k \in DOMAIN served : served[k].req = replies[i].req

\* A set_param that is answered with success has had the camera take the
\* value its client meant, for the types whose values the bridge converts:
\* numbers in any JSON kind that is a number to Python, and strings.  There
\* is one exception: of a JSON number with a fraction, for an integer, the
\* camera has taken the whole part.  Nothing is said of a bool that is neither
\* true nor false: its client means nothing by another text.
SetSucceeded(id) == \E i \in Final(id) : replies[i].success = TRUE

Taken(id) == \E k \in DOMAIN served : served[k] = [req |-> id, ok |-> TRUE]

TakesEffect(id) ==
  Taken(id) /\ CreateParameterValue(asked[id]).value = Meant(asked[id])

TakesWholePart(id) ==
  /\ Taken(id) /\ IsCut(asked[id])
  /\ CreateParameterValue(asked[id]).value = [Meant(asked[id]) EXCEPT !.tenths = 0]

SetsTakeEffect ==
  \A id \in Id :
    /\ id <= Len(asked) /\ asked[id].topic = "set_param_request"
    /\ SetSucceeded(id) /\ asked[id].ptype # "boolean"
    /\ asked[id].ptype = "bool" => asked[id].value.text \in Truth
    => TakesEffect(id) \/ TakesWholePart(id)

\* The types the README documents for parameters, and what it promises: a
\* value of any of them is set.
DocumentedTypesAreWritten ==
  \A id \in Id :
    /\ id <= Len(asked) /\ asked[id].topic = "set_param_request"
    /\ SetSucceeded(id)
    /\ asked[id].ptype \in {"boolean", "integer", "string"}
    => TakesEffect(id)

\* Every request gets its final reply in the end, or was dropped where the
\* code drops it, unless a thread has ended or something waits for good, as
\* nothing but the wait for a service times out: for a call the camera never
\* answered, for the server of a camera that is away, for a frame of one, or
\* for the goal of a camera that went away or whose client was destroyed in
\* place of an overlapping run's.
Settled(id) == id \in unanswered \/ Final(id) # {}

Stuck(id) ==
  \/ ~Running \/ mqtt.at = "dead" \/ call.at = "lost"
  \/ mqtt.at = "sending" /\ CameraOf(mqtt.req) \notin up
  \/ id \in subscriptions /\ CameraOf(id) \notin up
  \/ goals[id].at = "lost"
  \/ goals[id].at \in {"sent", "tracked"} /\ id \notin registered

RequestsSettle == []<>(\A id \in DOMAIN asked : Settled(id) \/ Stuck(id))
=============================================================================
