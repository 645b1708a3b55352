CONSTANTS
  Keypoints = 3
  Candidates = 2
  Threshold = 1
  MaxDistance = 2
  None = None
SPECIFICATION Spec
INVARIANTS
  OneKeypointPerLandmark
  MissedOnlyWhenHidden
  LoopComputesIds
CHECK_DEADLOCK FALSE
