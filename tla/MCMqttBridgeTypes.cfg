CONSTANTS
  c1 = c1
  Camera = {c1}
  None = None
  Absent = Absent
  Request <- MCDocumented
  Requests <- MCDocumentedTwice
  Refusable <- MCRefusable
  DeclaredType <- MCDeclaredType
  Numeral <- MCNumeral
  Integral <- MCIntegral
  Progress = {50}
  MaxRequests = 2
  MaxFaults = 1
SPECIFICATION Spec
INVARIANTS
  DocumentedTypesAreWritten
CHECK_DEADLOCK FALSE
