---------------------------- MODULE MCMqttBridge ----------------------------
(* Model-checking instance of the bridge: requests of every kind of        *)
(* handler, with the ways each can go wrong.                               *)
EXTENDS MqttBridge

CONSTANTS c1

Asks(topic, fields, arg, ptype, value) ==
  [topic |-> topic, fields |-> fields, cam |-> c1, arg |-> arg,
   ptype |-> ptype, value |-> value]
Full(topic, arg) == Asks(topic, Required[topic], arg, None, None)
Text(t) == [json |-> "string", text |-> t]
JSONNumber(t) == [json |-> "number", text |-> t]

Set(name, ptype, value) ==
  Asks("set_param_request", Required.set_param_request, name, ptype, value)

\* The texts of two, of two and seven tenths, and of minus that.
MCIntegral == {"2"}
MCNumeral == [t \in {"2", "2.7", "-2.7"} |->
  CASE t = "2" -> [whole |-> 2, tenths |-> 0]
    [] t = "2.7" -> [whole |-> 2, tenths |-> 7]
    [] t = "-2.7" -> [whole |-> -2, tenths |-> -7]]

MCDeclaredType == [exposure |-> "integer", gamma |-> "double", emitter |-> "bool"]

Calibrate(json) ==
  Asks("triggered_calibration_request", InCamera \cup {"json"}, json, None, None)

Run == Calibrate("calib run")
Abort == Calibrate("calib abort")
Frame == Full("get_frame_request", "color")
Reset == Full("send_hw_reset_request", None)
SetEmitter == Set("emitter", "bool", Text("false"))

\* Requests that fail on their way, each at a different place.
Failing ==
  {Asks("get_device_info_request", {"camera_name"}, None, None, None),
   Asks("get_frame_request", None, None, None, None),
   Full("get_frame_request", "safety"), Full("get_param_request", "gain"),
   Set("exposure", "int", Text("fast")), Set("exposure", "int", Text("2.7")),
   Set("exposure", "double", Text("2"))}

\* Numbers, whole and not, as the text of one and as a JSON number.
Numbers ==
  {Set("exposure", "int", JSONNumber("2.7")), Set("exposure", "integer", JSONNumber("-2.7")),
   Set("exposure", "int", Text("2")), Set("gamma", "float", Text("2.7"))}

MCRequests == <<{Run, Frame, SetEmitter, Reset} \cup Failing \cup Numbers,
                {Run, Abort, Frame, SetEmitter},
                {Run, Abort, Frame}>>
MCRefusable == {SetEmitter}
MCRequest == UNION {MCRequests[i] : i \in 1 .. 3}

MCDocumented ==
  {Set("exposure", "integer", Text("2")), Set("emitter", "boolean", Text("true")),
   Set("emitter", "bool", Text("true"))}
MCDocumentedTwice == <<MCDocumented, MCDocumented>>
=============================================================================
