CONSTANTS
  Horizon = 4
  MaxSamples = 2
  MaxFrames = 2
  None = None
SPECIFICATION Spec
INVARIANTS
  TimeIsIntegratedWithoutGaps
CHECK_DEADLOCK FALSE
