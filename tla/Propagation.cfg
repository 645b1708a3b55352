CONSTANTS
  Horizon = 4
  MaxSamples = 3
  MaxFrames = 3
  None = None
SPECIFICATION Spec
INVARIANTS
  MergeComputesEvents
  EventsAreCausal
  IntegratedOnce
  HeldSamplesAreLatest
CHECK_DEADLOCK FALSE
