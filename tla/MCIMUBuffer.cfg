CONSTANTS
  Stream = {gyro}
  Stamp <- MCStamp
  MaxBuffer = 2
  MaxSamples = 3
  None = None
SPECIFICATION Spec
INVARIANTS
  TypeOK
  HandedAtMostOnce
  OnlyLateSamplesSkipped
  HandedInOrder
PROPERTIES
  ExpiredOnlyWhenStalled
  ImplementsDelivery
