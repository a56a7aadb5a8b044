SPECIFICATION Spec
CONSTANTS
  Blocks <- Line
  Trust <- ByHeight
  Bad = {}
  StoreBatch = 4
  TipBatch = 2
  BatchAlways = TRUE
  ReplayBatch = 2
  MaxCrashes = 3
  MaxSwitches = 0
CHECK_DEADLOCK FALSE
INVARIANTS
  StoreWithinIndex
  TipFollowsBest
