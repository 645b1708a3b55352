----------------------------- MODULE DemoClient -----------------------------
(* The example client of the bridge, minimal_mqtt_client.py: its main      *)
(* program sends a fixed list of requests and, but for the first and the   *)
(* last, spins on self.locked after each until its network thread has      *)
(* received a message, whichever it is.                                    *)
EXTENDS MqttBridge, FiniteSets

CONSTANT Robot  \* the camera the program talks to
ASSUME RobotAssumption == Robot \in Camera

VARIABLES
  at,        \* where the main program is
  locked,    \* self.locked
  tc_done,   \* self.tc_done
  read       \* how many of the bridge's messages have come in

clientVars == <<at, locked, tc_done, read>>
vars == <<bridgeVars, clientVars>>

-----------------------------------------------------------------------------
(* The request methods: the topic, the fields and what they carry.         *)

Asking(topic, fields, arg, ptype, value) ==
  [topic |-> topic, fields |-> fields, cam |-> Robot, arg |-> arg,
   ptype |-> ptype, value |-> value]
AboutCamera(topic, fields, arg, value) ==
  Asking(topic, {"camera_namespace", "camera_name"} \cup fields, arg, None, value)
String(t) == [json |-> "string", text |-> t]
Number(t) == [json |-> "number", text |-> t]
Table == String("table")  \* the text of one of the example JSON files

enumerate_devices ==
  Asking("enumerate_devices_request",
         {"camera_namespace_prefix", "camera_name_prefix"}, None, None, None)
get_transformation ==
  Asking("get_transformation_request", {"source", "destination"}, None, None, None)
send_hw_reset_request == AboutCamera("send_hw_reset_request", {}, None, None)
send_hwm_command(opcode) ==
  AboutCamera("send_hwm_command_request",
              {"opcode", "param1", "param2", "param3", "param4", "data"}, None, opcode)
get_device_info == AboutCamera("get_device_info_request", {}, None, None)

set_param_untyped(name, text, type) ==
  Asking("set_param_request",
         {"camera_namespace", "camera_name", "parameter_name", "parameter_value"},
         name, type, String(text))
set_param(name, text, type) ==
  Asking("set_param_request",
         {"camera_namespace", "camera_name", "parameter_name", "parameter_value",
          "parameter_type"}, name, type, String(text))
get_param(name) == AboutCamera("get_param_request", {"parameter_name"}, name, None)

get_frame(stream) == AboutCamera("get_frame_request", {"stream_name"}, stream, None)

get_safety_preset(index) ==
  AboutCamera("get_safety_preset_request", {"index"}, None, index)
set_safety_preset(sp) ==
  AboutCamera("set_safety_preset_request", {"safety_preset", "index"}, None, sp)
get_safety_interface_config(location) ==
  AboutCamera("get_safety_interface_config_request", {"calib_location"}, None, location)
set_safety_interface_config(sic) ==
  AboutCamera("set_safety_interface_config_request", {"safety_interface_config"}, None, sic)
get_calib_config == AboutCamera("get_calib_config_request", {}, None, None)
set_calib_config(config) ==
  AboutCamera("set_calib_config_request", {"calib_config"}, None, config)
get_application_config == AboutCamera("get_application_config_request", {}, None, None)
set_application_config(config) ==
  AboutCamera("set_application_config_request", {"application_config"}, None, config)

triggered_calibration ==
  AboutCamera("triggered_calibration_request", {"json"}, "calib run", None)

-----------------------------------------------------------------------------
(* The main program.                                                       *)

Queries ==
  <<enumerate_devices, send_hw_reset_request, get_device_info, get_transformation,
    send_hwm_command(Number("16")),
    set_param("safety_camera.safety_mode", "2", "int"),
    set_param("rgb_camera.exposure", "6012", "int"),
    get_param("rgb_camera.exposure"), get_frame("color")>>

Tables ==
  <<get_safety_preset(Number("1")), set_safety_preset(Table),
    get_safety_interface_config(Number("2")), set_safety_interface_config(Table),
    get_calib_config, set_calib_config(Table),
    get_application_config, set_application_config(Table)>>

Off(name) == set_param(name, "false", "bool")

Calibration ==
  <<set_param("depth_module.visual_preset", "1", "int"),
    set_param("depth_module.emitter_enabled", "true", "bool"),
    set_param("depth_module.enable_auto_exposure", "true", "bool"),
    Off("enable_depth"), Off("enable_infra1"), Off("enable_infra2"),
    Off("enable_safety"), Off("enable_occupancy"), Off("enable_labeled_point_cloud"),
    triggered_calibration>>

Script == Queries \o Tables \o Calibration
ScriptRequest == {Script[i] : i \in DOMAIN Script}
ScriptRequests == [i \in DOMAIN Script |-> {Script[i]}]

\* No other client publishes.
ASSUME ScriptAssumption == Requests = ScriptRequests /\ MaxRequests = Len(Script)

\* enumerate_devices and triggered_calibration do not lock.
Locks(r) == r \notin {enumerate_devices, triggered_calibration}

\* The response topics start_client subscribes to, by request topic.
Subscribed == RequestTopics \ {"hwm_command_send_request"}

DemoInit ==
  /\ Init
  /\ at = "ready" /\ locked = FALSE /\ tc_done = FALSE /\ read = 0

NextRequest == Script[Len(asked) + 1]

\* self.locked = True, or the reset of tc_done, before the request goes out.
LockForgotten ==
  /\ at = "ready" /\ Len(asked) < Len(Script)
  /\ at' = "publishing"
  /\ tc_done' = (tc_done /\ NextRequest # triggered_calibration)
  /\ UNCHANGED <<bridgeVars, locked, read>>

Lock ==
  /\ at = "ready" /\ Len(asked) < Len(Script)
  /\ at' = "publishing"
  /\ locked' = (locked \/ Locks(NextRequest))
  /\ tc_done' = (tc_done /\ NextRequest # triggered_calibration)
  /\ UNCHANGED <<bridgeVars, read>>

Publish ==
  /\ at = "publishing"
  /\ Ask
  /\ at' = IF Locks(NextRequest) THEN "waiting" ELSE "ready"
  /\ UNCHANGED <<locked, tc_done, read>>

\* The end of the spin on self.locked.
Unlocked ==
  /\ at = "waiting" /\ ~locked
  /\ at' = "ready"
  /\ UNCHANGED <<bridgeVars, locked, tc_done, read>>

\* After the last request, the program sleeps until tc_done and stops.
Stop ==
  /\ at = "ready" /\ Len(asked) = Len(Script)
  /\ tc_done
  /\ at' = "stopped"
  /\ UNCHANGED <<bridgeVars, locked, tc_done, read>>

\* What the bridge publishes inside a callback of paho's thread, or during
\* one, goes out when the callback has returned.
Delivered == /\ at # "stopped" /\ connected
             /\ read < Len(replies) /\ mqtt.at \in {"idle", "dead"}

IsDone(m) == asked[m.req] = triggered_calibration /\ m.progress = 100

OnMessageIndented ==
  /\ Delivered
  /\ read' = read + 1
  /\ LET m == replies[read + 1] IN
     /\ locked' = (locked /\ asked[m.req].topic \notin Subscribed \ {"get_frame_request"})
     /\ tc_done' = (tc_done \/ IsDone(m))
  /\ UNCHANGED <<bridgeVars, at>>

\* on_message: any message it is subscribed to unlocks.
OnMessage ==
  /\ Delivered
  /\ read' = read + 1
  /\ LET m == replies[read + 1] IN
     /\ locked' = (locked /\ asked[m.req].topic \notin Subscribed)
     /\ tc_done' = (tc_done \/ IsDone(m))
  /\ UNCHANGED <<bridgeVars, at>>

Client == Lock \/ Publish \/ Unlocked \/ Stop \/ OnMessage

DemoNext == Client \/ (Bridge /\ UNCHANGED clientVars)

\* The program, its network thread and the bridge's work go on.
DemoSpec ==
  /\ DemoInit /\ [][DemoNext]_vars
  /\ WF_vars(Client)
  /\ WF_vars(Work /\ UNCHANGED clientVars)

-----------------------------------------------------------------------------
\* Because any message unlocks, and the first request does not lock, the
\* program may run ahead of its replies, but never by more than one request
\* before the calibration, which it does not wait for.
Unheard == (1 .. Len(asked)) \ {replies[i].req : i \in 1 .. read}

AtMostOneBehind ==
  at = "ready" /\ Len(asked) < Len(Script) => Cardinality(Unheard) <= 1

\* Though it may run ahead, the calibration starts only when the camera has
\* served every parameter the program set before, or the bridge gave it up.
CalibratesAfterSetup ==
  \A g \in Id : goals[g].at # "none" =>
    \A id \in 1 .. g : asked[id].topic = "set_param_request" =>
      id \in unanswered \/ \E k \in DOMAIN served : served[k].req = id

\* The program comes to its end, unless a request was dropped or the bridge
\* is left waiting or without a thread, and stays so: nothing in the program
\* times out.
ClientFinishes ==
  <>[](at = "stopped" \/ unanswered # {} \/ \E id \in Id : Stuck(id))
=============================================================================
