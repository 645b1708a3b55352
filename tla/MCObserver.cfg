CONSTANTS
  l1 = l1
  l2 = l2
  Landmark <- MCLandmark
  GroupSize = 145
  Warmup = 2
  MaxWindow = 2
  Stamp <- MCStamp
  MaxFrames = 4
  None = None
  Rate = 10
  Kp = 4
  Kx = 1
  InverseSafety = 5
  MaxSubsteps = 400
SPECIFICATION Spec
SYMMETRY MCSymmetry
INVARIANTS
  TypeOK
  CorrectedOnce
  CorrectsAlignedTime
  MarginUnlessCapped
CHECK_DEADLOCK FALSE
