------------------------ MODULE TriggeredCalibration ------------------------
(* triggered_calibration: the bridge's client side of the camera's         *)
(* calibration action.  paho's thread creates an action client and sends   *)
(* the goal; the executor gets the goal response, the feedback and the     *)
(* result.  One dict slot per camera holds the client, another the goal    *)
(* handle; a client, a handle and a goal are known by the request that     *)
(* started the run.                                                        *)
EXTENDS BridgeThreads

CONSTANT Progress  \* the progress values of feedback messages
ASSUME ProgressAssumption == Progress \subseteq 1 .. 100

VARIABLES
  action_clients,  \* the dict slot of each camera: a client or None
  goal_handles,    \* likewise, a goal handle or None
  registered,      \* the clients that exist, whether or not a slot holds them
  goals,           \* the goal of each request: its stage and last feedback
  overlapped       \* history: cameras a run was started for before the
                   \* previous one was finished and cleaned up

calibrationVars == <<action_clients, goal_handles, registered, goals, overlapped>>

GoalStage == {"none", "sent", "tracked", "rejected", "done", "lost"}

CalibrationTypeOK ==
  /\ action_clients \in [Camera -> Id \cup {None}]
  /\ goal_handles \in [Camera -> Id \cup {None}]
  /\ registered \subseteq Id
  /\ goals \in [Id -> [at : GoalStage, progress : 0 .. 100]]
  /\ overlapped \subseteq Camera

CalibrationInit ==
  /\ action_clients = [c \in Camera |-> None]
  /\ goal_handles = [c \in Camera |-> None]
  /\ registered = {} /\ overlapped = {}
  /\ goals = [id \in Id |-> [at |-> "none", progress |-> 0]]

CameraOf(id) == asked[id].cam
Stage(id, at) == goals' = [goals EXCEPT ![id].at = at]

\* A run of the camera is under way, or the executor is cleaning one up.
RunUnderWay(c) ==
  \/ \E g \in Id : /\ goals[g].at \in {"sent", "tracked"}
                   /\ g <= Len(asked) /\ CameraOf(g) = c
  \/ executor.at \in {"destroying", "clearing"} /\ CameraOf(executor.req) = c

-----------------------------------------------------------------------------
(* paho's thread.                                                          *)

StartCalibration(id) ==
  /\ Handle(id, "triggered_calibration_request")
  /\ ~IsAbort(asked[id])
  /\ action_clients' = [action_clients EXCEPT ![CameraOf(id)] = id]
  /\ registered' = registered \cup {id}
  /\ overlapped' = IF RunUnderWay(CameraOf(id)) THEN overlapped \cup {CameraOf(id)}
                   ELSE overlapped
  /\ MqttGoes("sending", id)
  /\ UNCHANGED <<replies, unanswered, goal_handles, goals>>

\* ros_action_send_goal looks the client up again and waits for the server
\* without a timeout.  Should the executor have cleared the slot, or
\* destroyed the client, since, the call raises.
SendGoal(id) ==
  /\ Proceeds("sending", id)
  /\ \/ /\ action_clients[CameraOf(id)] \in registered
        /\ CameraOf(id) \in up
        /\ Stage(id, "sent")
        /\ MqttIdle
        /\ UNCHANGED unanswered
     \/ /\ action_clients[CameraOf(id)] \notin registered
        /\ MqttGoes("dead", id) /\ Drop(id)
        /\ UNCHANGED goals
  /\ UNCHANGED <<replies, action_clients, goal_handles, registered, overlapped>>

NothingToAbort(c) == action_clients[c] = None \/ goal_handles[c] = None

AbortNothing(id) ==
  /\ Handle(id, "triggered_calibration_request")
  /\ IsAbort(asked[id])
  /\ NothingToAbort(CameraOf(id))
  /\ Reply(id, TRUE, TRUE, 100)
  /\ UNCHANGED <<mqtt, unanswered, calibrationVars>>

\* The abort itself gets no reply: the run's result is to say it.  Cancelling
\* through a client the executor has just destroyed raises.
AbortGoal(id) ==
  /\ Handle(id, "triggered_calibration_request")
  /\ IsAbort(asked[id])
  /\ ~NothingToAbort(CameraOf(id))
  /\ Drop(id)
  /\ IF goal_handles[CameraOf(id)] \in registered
     THEN UNCHANGED mqtt ELSE MqttGoes("dead", id)
  /\ UNCHANGED <<replies, calibrationVars>>

-----------------------------------------------------------------------------
(* The executor: what the action client of request id receives.            *)

Receives(id) == /\ Starts /\ id \in registered
                /\ id <= Len(asked) /\ CameraOf(id) \in up

GoalResponseWithoutResult(id, accepted) ==
  /\ Receives(id)
  /\ goals[id].at = "sent"
  /\ goal_handles' = [goal_handles EXCEPT ![CameraOf(id)] = id]
  /\ Stage(id, "rejected")
  /\ UNCHANGED <<executor, replies, unanswered, action_clients, registered, overlapped>>

\* The handle is stored whether or not the goal was accepted.  A rejected
\* goal leaves it and the client where they are.
GoalResponse(id, accepted) ==
  /\ Receives(id)
  /\ goals[id].at = "sent"
  /\ goal_handles' = [goal_handles EXCEPT ![CameraOf(id)] = id]
  /\ Stage(id, IF accepted THEN "tracked" ELSE "rejected")
  /\ IF accepted THEN UNCHANGED unanswered ELSE Drop(id)
  /\ UNCHANGED <<executor, replies, action_clients, registered, overlapped>>

\* Feedback may overtake the goal response, and be overtaken by the result.
\* A bound of the model, not in the code: the values of one goal's feedback
\* rise, which also ends it.
Feedback(id, p) ==
  /\ Receives(id)
  /\ goals[id].at \in {"sent", "tracked", "done"}
  /\ p > goals[id].progress
  /\ goals' = [goals EXCEPT ![id].progress = p]
  /\ Reply(id, FALSE, FALSE, p)
  /\ UNCHANGED <<executor, unanswered, action_clients, goal_handles, registered, overlapped>>

\* The result callback publishes, destroys the client the slot holds by then
\* and clears both slots.
PublishResult(id, success) ==
  /\ Receives(id)
  /\ goals[id].at = "tracked"
  /\ Reply(id, TRUE, success, 100)
  /\ Stage(id, "done")
  /\ ExecutorGoes("destroying", id)
  /\ UNCHANGED <<unanswered, action_clients, goal_handles, registered, overlapped>>

DestroyClientForgotten(id) ==
  /\ Continues("destroying", id)
  /\ ExecutorGoes("clearing", id)
  /\ UNCHANGED <<replies, unanswered, calibrationVars>>

DestroyClient(id) ==
  /\ Continues("destroying", id)
  /\ registered' = registered \ {action_clients[CameraOf(id)]}
  /\ ExecutorGoes(IF action_clients[CameraOf(id)] = None THEN "exited" ELSE "clearing", id)
  /\ UNCHANGED <<replies, unanswered, action_clients, goal_handles, goals, overlapped>>

ClearSlotsButHandle(id) ==
  /\ Continues("clearing", id)
  /\ action_clients' = [action_clients EXCEPT ![CameraOf(id)] = None]
  /\ ExecutorIdle
  /\ UNCHANGED <<replies, unanswered, goal_handles, registered, goals, overlapped>>

ClearSlotsDeletes(id) ==
  /\ Continues("clearing", id)
  /\ action_clients' = [c \in Camera \ {CameraOf(id)} |-> action_clients[c]]
  /\ goal_handles' = [goal_handles EXCEPT ![CameraOf(id)] = None]
  /\ ExecutorIdle
  /\ UNCHANGED <<replies, unanswered, registered, goals, overlapped>>

ClearSlots(id) ==
  /\ Continues("clearing", id)
  /\ action_clients' = [action_clients EXCEPT ![CameraOf(id)] = None]
  /\ goal_handles' = [goal_handles EXCEPT ![CameraOf(id)] = None]
  /\ ExecutorIdle
  /\ UNCHANGED <<replies, unanswered, registered, goals, overlapped>>

HandleCalibration(id) ==
  StartCalibration(id) \/ SendGoal(id) \/ AbortNothing(id) \/ AbortGoal(id)

Respond(id) == \E accepted \in BOOLEAN : GoalResponse(id, accepted)
Result(id) == \E success \in BOOLEAN : PublishResult(id, success)
ExecuteCalibration(id) == DestroyClient(id) \/ ClearSlots(id)

\* The goals a camera's node takes with it when it goes away.
LoseGoals(c) ==
  goals' = [g \in Id |-> IF /\ goals[g].at \in {"sent", "tracked"}
                            /\ CameraOf(g) = c
                         THEN [goals[g] EXCEPT !.at = "lost"] ELSE goals[g]]
=============================================================================
