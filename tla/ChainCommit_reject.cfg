SPECIFICATION Spec
CONSTANTS
  Blocks <- Long
  Trust <- ByHeight
  Bad <- OneBad
  StoreBatch = 1
  TipBatch = 1
  BatchAlways = FALSE
  ReplayBatch = 2
  MaxCrashes = 2
  MaxSwitches = 0
CHECK_DEADLOCK FALSE
INVARIANTS
  RejectedStaysOut
