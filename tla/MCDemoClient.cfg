CONSTANTS
  Camera = {c1}
  Robot = c1
  None = None
  Absent = Absent
  Request <- ScriptRequest
  Requests <- ScriptRequests
  Refusable = {}
  DeclaredType <- MCDeclaredType
  Numeral <- MCNumeral
  Integral <- MCIntegral
  Progress = {50, 100}
  MaxRequests = 27
  MaxFaults = 1
SPECIFICATION DemoSpec
INVARIANTS
  AtMostOneBehind
  CalibratesAfterSetup
PROPERTIES
  ClientFinishes
CHECK_DEADLOCK FALSE
