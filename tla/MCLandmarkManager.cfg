CONSTANTS
  left = left
  right = right
  outside = outside
  Pixel <- MCPixel
  Visible <- MCVisible
  Near <- MCNear
  MinTracked = 2
  MinAge = 2
  StaleTimeout = 1
  MaxDetections = 2
  MaxId = 2
  None = None
SPECIFICATION Spec
INVARIANTS
  TypeOK
  TracksMatchLandmarks
  ReportsAreFresh
  ActiveMeansReportable
PROPERTIES
  IdentityIsKept
  ReidentifiedNearby
