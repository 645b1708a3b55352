---------------------------- MODULE ServiceCalls ----------------------------
(* The handlers that turn a request into a call of one of the camera's ROS *)
(* services.  Each creates a client, waits up to five seconds for the      *)
(* service, calls it, polls the future without a timeout and publishes the *)
(* reply: all on paho's thread, so the bridge has one call under way at a  *)
(* time.                                                                   *)
EXTENDS BridgeThreads

CONSTANT Refusable  \* the requests a camera may answer with a failure

VARIABLES
  call,    \* the service call under way: how far it is, what it answered
  served   \* history: the requests the camera has served, in order

serviceVars == <<call, served>>

CallPoint == {"none", "sent", "answered", "lost"}
Outcome == {"success", "failure", "empty"}

ServicesTypeOK ==
  /\ call \in [at : CallPoint, outcome : Outcome]
  /\ served \in Seq([req : Id, ok : BOOLEAN])

NoCall == [at |-> "none", outcome |-> "failure"]

ServicesInit == call = NoCall /\ served = << >>

-----------------------------------------------------------------------------
(* From the request to the call.                                           *)

\* create_ros_client gives up when the camera's service is not there, and
\* the handler returns without a word.
ServiceMissing(id) ==
  /\ asked[id].cam \notin up
  /\ Drop(id)
  /\ UNCHANGED <<mqtt, replies, serviceVars>>

\* Converting a value, or filling the ROS request, raises on a value of the wrong
\* kind: paho's thread ends.
CallRaises(id) ==
  /\ asked[id].cam \in up
  /\ MqttGoes("dead", id) /\ Drop(id)
  /\ UNCHANGED <<replies, serviceVars>>

CallAsync(id) ==
  /\ asked[id].cam \in up
  /\ MqttGoes("waiting", id)
  /\ call' = [NoCall EXCEPT !.at = "sent"]
  /\ UNCHANGED <<replies, unanswered, served>>

CallService(id, fits) ==
  \/ ServiceMissing(id)
  \/ fits /\ CallAsync(id)
  \/ ~fits /\ CallRaises(id)

IsText(id) == asked[id].value.json = "string"

GetDeviceInfo(id) == Handle(id, "get_device_info_request") /\ CallService(id, TRUE)

SendHwReset(id) == Handle(id, "send_hw_reset_request") /\ CallService(id, TRUE)

SendHwmCommand(id) ==
  /\ Handle(id, "send_hwm_command_request")
  /\ CallService(id, FieldTakes(asked[id].value))

\* int() of the index.
GetSafetyPreset(id) ==
  /\ Handle(id, "get_safety_preset_request")
  /\ CallService(id, IntTakes(asked[id].value))

\* The value is the preset; the index, which int() is to take, is an integer.
SetSafetyPreset(id) ==
  Handle(id, "set_safety_preset_request") /\ CallService(id, IsText(id))

\* The location defaults to 2 when the request has none.
GetSafetyInterfaceConfig(id) ==
  /\ Handle(id, "get_safety_interface_config_request")
  /\ CallService(id, "calib_location" \notin asked[id].fields
                     \/ FieldTakes(asked[id].value))

SetSafetyInterfaceConfig(id) ==
  Handle(id, "set_safety_interface_config_request") /\ CallService(id, IsText(id))

GetCalibConfig(id) == Handle(id, "get_calib_config_request") /\ CallService(id, TRUE)

SetCalibConfig(id) ==
  Handle(id, "set_calib_config_request") /\ CallService(id, IsText(id))

GetApplicationConfig(id) ==
  Handle(id, "get_application_config_request") /\ CallService(id, TRUE)

SetApplicationConfig(id) ==
  Handle(id, "set_application_config_request") /\ CallService(id, IsText(id))

GetParam(id) == Handle(id, "get_param_request") /\ CallService(id, TRUE)

\* A type the bridge does not know is logged, and the request is dropped.
SetParam(id) ==
  /\ Handle(id, "set_param_request")
  /\ \/ /\ asked[id].cam \in up /\ ~KnownType(asked[id])
        /\ Drop(id)
        /\ UNCHANGED <<mqtt, replies, serviceVars>>
     \/ /\ KnownType(asked[id]) \/ asked[id].cam \notin up
        /\ CallService(id, Converts(asked[id]))

HandleService(id) ==
  \/ GetDeviceInfo(id) \/ SendHwReset(id) \/ SendHwmCommand(id)
  \/ GetSafetyPreset(id) \/ SetSafetyPreset(id)
  \/ GetSafetyInterfaceConfig(id) \/ SetSafetyInterfaceConfig(id)
  \/ GetCalibConfig(id) \/ SetCalibConfig(id)
  \/ GetApplicationConfig(id) \/ SetApplicationConfig(id)
  \/ GetParam(id) \/ SetParam(id)

-----------------------------------------------------------------------------
(* The camera, as the bridge sees it: it serves the call under way.  A     *)
(* parameter takes only values of its declared type, and reading one that  *)
(* is not declared answers with an empty list.                             *)

Declared(r) == r.arg \in DOMAIN DeclaredType

Outcomes(r) ==
  CASE r.topic = "get_param_request" /\ ~Declared(r) -> {"empty"}
    [] r.topic = "set_param_request" /\
         ~(Declared(r) /\ CreateParameterValue(r).type = DeclaredType[r.arg]) -> {"failure"}
    [] OTHER -> {"success"} \cup {o \in {"failure"} : r \in Refusable}

ServiceResponse(id) ==
  /\ Starts
  /\ mqtt = [at |-> "waiting", req |-> id] /\ call.at = "sent"
  /\ \E outcome \in Outcomes(asked[id]) :
       /\ call' = [at |-> "answered", outcome |-> outcome]
       /\ served' = Append(served, [req |-> id, ok |-> outcome = "success"])
  /\ UNCHANGED <<executor, replies, unanswered>>

-----------------------------------------------------------------------------
(* From the future to the reply.                                           *)

\* The reply to get_device_info has no success field; that to a hardware
\* reset always says success.
ReplySuccess(id) ==
  CASE asked[id].topic = "get_device_info_request" -> None
    [] asked[id].topic = "send_hw_reset_request" -> TRUE
    [] OTHER -> call.outcome = "success"

\* wait_for_future polls until the future is done, without a timeout.
WaitForFutureOnce(id) == call.at \in {"sent", "answered"}

WaitForFuture(id) == call.at = "answered"

\* The reply to get_param takes the first of the values, and raises when
\* there is none.
ServiceReply(id) ==
  /\ Proceeds("waiting", id)
  /\ WaitForFuture(id)
  /\ call' = NoCall
  /\ \/ /\ call.outcome = "empty"
        /\ MqttGoes("dead", id) /\ Drop(id)
        /\ UNCHANGED replies
     \/ /\ call.outcome # "empty"
        /\ MqttIdle
        /\ Answer(id, ReplySuccess(id))
        /\ UNCHANGED unanswered
  /\ UNCHANGED served

\* The camera's node goes away with the call unanswered.
LoseCall ==
  call' = IF mqtt.at = "waiting" /\ call.at = "sent" THEN [call EXCEPT !.at = "lost"]
          ELSE call
=============================================================================
