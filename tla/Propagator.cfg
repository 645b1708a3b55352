CONSTANTS
  Warmup = 12
  MaxWindow = 3
SPECIFICATION FairSpec
INVARIANTS
  IntegratesOnlyEstimated
PROPERTIES
  EventuallyInitialized
