CONSTANTS
  left = left
  right = right
  outside = outside
  Pixel <- MCPixel
  Visible <- MCVisible
  Near <- MCNear
  MinTracked = 1
  MinAge = 2
  StaleTimeout = 1
  MaxDetections = 1
  MaxId = 2
  None = None
SPECIFICATION Spec
INVARIANTS
  SurvivesLosingEveryFeature
