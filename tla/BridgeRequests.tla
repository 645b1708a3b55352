--------------------------- MODULE BridgeRequests ---------------------------
(* What the ROS-MQTT bridge expects in a request, and what it makes of a   *)
(* parameter's type and value on the way to the camera.                    *)
(*                                                                         *)
(* A request is a record: its topic; the set of fields of its JSON payload *)
(* (None when the payload is not JSON); the camera it names; arg, which is *)
(* the parameter's name, the stream, or the json field of a calibration;   *)
(* and, where they matter, the parameter's type and value.  A JSON value   *)
(* is its kind and its text, texts being compared in lower case.           *)
EXTENDS Integers

CONSTANTS
  Camera,        \* the cameras requests name, by namespace and name
  None,          \* Python's None, and a payload that is not JSON
  Request,       \* the requests clients may publish
  DeclaredType,  \* the parameters the camera declares, with their ROS types
  Numeral,       \* the texts that are numbers, with the number each one is:
                 \* its whole part and its tenths, both of the number's sign
  Integral       \* those of them that are written without a point

ASSUME NumeralAssumption ==
  /\ Integral \subseteq DOMAIN Numeral
  /\ \A t \in DOMAIN Numeral : Numeral[t] \in [whole : Int, tenths : -9 .. 9]
  /\ \A t \in Integral : Numeral[t].tenths = 0

\* The fields without which a request is refused, by topic.  The default
\* values of calib_location and json make those two optional.
InCamera == {"camera_namespace", "camera_name"}

Required ==
  [enumerate_devices_request |-> {"camera_namespace_prefix", "camera_name_prefix"},
   send_hw_reset_request |-> InCamera,
   send_hwm_command_request |-> InCamera \cup {"opcode"},
   get_device_info_request |-> InCamera,
   get_transformation_request |-> {"source", "destination"},
   get_param_request |-> InCamera \cup {"parameter_name"},
   set_param_request |-> InCamera \cup
     {"parameter_name", "parameter_value", "parameter_type"},
   get_frame_request |-> InCamera \cup {"stream_name"},
   get_safety_preset_request |-> InCamera \cup {"index"},
   set_safety_preset_request |-> InCamera \cup {"index", "safety_preset"},
   get_safety_interface_config_request |-> InCamera,
   set_safety_interface_config_request |-> InCamera \cup {"safety_interface_config"},
   get_calib_config_request |-> InCamera,
   set_calib_config_request |-> InCamera \cup {"calib_config"},
   get_application_config_request |-> InCamera,
   set_application_config_request |-> InCamera \cup {"application_config"},
   hwm_command_send_request |-> InCamera,
   triggered_calibration_request |-> InCamera]

RequestTopics == DOMAIN Required

\* hwm_command_send_request is subscribed to, and no branch handles it.
Supported(r) == r.topic # "hwm_command_send_request"

Accepted(r) == Supported(r) /\ Required[r.topic] \subseteq r.fields

\* A calibration request is a run unless it asks for an abort.
IsAbort(r) == "json" \in r.fields /\ r.arg = "calib abort"

SupportedStream == {"color", "depth", "infra1", "infra2"}

-----------------------------------------------------------------------------
(* Parameters.                                                             *)

ParameterTypeMap ==
  [float |-> "double", int |-> "integer", integer |-> "integer",
   string |-> "string", bool |-> "bool", boolean |-> "bool"]

KnownType(r) == r.ptype \in DOMAIN ParameterTypeMap

Truth == {"true", "false"}
IntegerType == {"int", "integer"}

\* float() takes a number, the text of one or a JSON boolean.  int() does
\* too, but of texts only those of integers.
FloatTakes(v) ==
  \/ v.json = "boolean"
  \/ v.json \in {"number", "string"} /\ v.text \in DOMAIN Numeral
IntTakes(v) == FloatTakes(v) /\ (v.json = "string" => v.text \in Integral)

\* A ROS field of an integer type takes an integer and nothing else; True
\* and False are integers to Python.
FieldTakes(v) ==
  \/ v.json = "boolean"
  \/ v.json = "number" /\ v.text \in Integral

\* lower() and the string field of the message take a string.  Anything
\* else raises.
Converts(r) ==
  CASE r.ptype = "float" -> FloatTakes(r.value)
    [] r.ptype \in IntegerType -> IntTakes(r.value)
    [] r.ptype \in {"string", "bool"} -> r.value.json = "string"
    [] OTHER -> TRUE

Whole(n) == [whole |-> n, tenths |-> 0]

NumberOf(v) == IF v.json # "boolean" THEN Numeral[v.text]
               ELSE Whole(IF v.text = "true" THEN 1 ELSE 0)

\* What is sent to the camera: None for a type that is not in the map.  int()
\* cuts a number to its whole part.  The field of 'boolean' is never assigned
\* and keeps its default.
CreateParameterValueAlwaysTrue(r) ==
  IF ~KnownType(r) THEN None
  ELSE [type |-> ParameterTypeMap[r.ptype],
        value |-> CASE r.ptype = "float" -> NumberOf(r.value)
                    [] r.ptype \in IntegerType -> Whole(NumberOf(r.value).whole)
                    [] r.ptype = "string" -> r.value.text
                    [] r.ptype = "bool" -> "true"
                    [] OTHER -> "false"]

CreateParameterValue(r) ==
  IF ~KnownType(r) THEN None
  ELSE [type |-> ParameterTypeMap[r.ptype],
        value |-> CASE r.ptype = "float" -> NumberOf(r.value)
                    [] r.ptype \in IntegerType -> Whole(NumberOf(r.value).whole)
                    [] r.ptype = "string" -> r.value.text
                    [] r.ptype = "bool" ->
                         IF r.value.text = "true" THEN "true" ELSE "false"
                    [] OTHER -> "false"]

\* What a client means by a value of a type: the number it wrote, or its text.
Meant(r) == IF ParameterTypeMap[r.ptype] \in {"double", "integer"}
            THEN NumberOf(r.value) ELSE r.value.text

\* A number with a fraction for an integer parameter.
IsCut(r) ==
  r.ptype \in IntegerType /\ r.value.json = "number" /\ NumberOf(r.value).tenths # 0
=============================================================================
