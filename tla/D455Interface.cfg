CONSTANTS
  MaxImages = 4
  MaxDepths = 3
  None = None
SPECIFICATION Spec
INVARIANTS
  TypeOK
  TablesJoin
  DepthRowsExplainLandmarks
  WindowsMatchIntervals
  EndsSaved
