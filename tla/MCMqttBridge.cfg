CONSTANTS
  c1 = c1
  Camera = {c1}
  None = None
  Absent = Absent
  Request <- MCRequest
  Requests <- MCRequests
  Refusable <- MCRefusable
  DeclaredType <- MCDeclaredType
  Numeral <- MCNumeral
  Integral <- MCIntegral
  Progress = {50}
  MaxRequests = 3
  MaxFaults = 1
SPECIFICATION Spec
INVARIANTS
  TypeOK
  NothingAfterFinal
  FrameSlots
  CalibrationSlots
  ServedInOrder
  SetsTakeEffect
PROPERTIES
  RequestsSettle
CHECK_DEADLOCK FALSE
