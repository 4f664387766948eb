SPECIFICATION Spec
CONSTANTS
  NumBits = 2
  WordBits = 1
  Writers = {w1}
  MaxWrites = 2
  MaxFailures = 1
  Source = "snapshot"
INVARIANTS TypeOK LostOnlyIfRaced PointInTime
PROPERTIES IsMirror ActiveHalfKept ResyncCompletes
