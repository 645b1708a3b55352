---------------------------- MODULE MCDemoClient ----------------------------
(* Model-checking instance of the example client and the bridge: the       *)
(* parameters the camera declares, with their types, and the numbers the   *)
(* client writes.                                                          *)
EXTENDS DemoClient

MCIntegral == {"1", "2", "16", "6012"}
MCNumeral == [t \in MCIntegral |->
  Whole(CASE t = "1" -> 1 [] t = "2" -> 2 [] t = "16" -> 16 [] t = "6012" -> 6012)]

MCDeclaredType ==
  [p \in {r.arg : r \in {s \in ScriptRequest : s.topic = "set_param_request"}} |->
     IF p \in {"safety_camera.safety_mode", "rgb_camera.exposure",
               "depth_module.visual_preset"} THEN "integer" ELSE "bool"]
=============================================================================
