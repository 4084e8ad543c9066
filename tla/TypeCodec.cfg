SPECIFICATION Spec
CONSTANTS
  Table <- AllTables
  Types <- AllTypes
  Faulty <- SolidTypes
  Depth = 1
  MaxMessages = 2
  MaxLost = 40
  NewTags = {200}
INVARIANTS RoundTrip TruncationDetected
CHECK_DEADLOCK FALSE
