SPECIFICATION Spec
CONSTANTS
  Blocks <- Long
  Trust <- ByHeight
  Bad <- OneBad
  StoreBatch = 3
  TipBatch = 1
  BatchAlways = FALSE
  ReplayBatch = 2
  MaxCrashes = 0
  MaxSwitches = 0
CHECK_DEADLOCK FALSE
INVARIANTS
  CoinsFollowBest
