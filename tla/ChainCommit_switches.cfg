SPECIFICATION Spec
CONSTANTS
  Blocks <- Longer
  Trust <- Uneven
  Bad <- OneBad
  StoreBatch = 2
  TipBatch = 2
  BatchAlways = FALSE
  ReplayBatch = 2
  MaxCrashes = 2
  MaxSwitches = 1
CHECK_DEADLOCK FALSE
INVARIANTS
  TipResolvable
PROPERTIES
  
  CallsEnd
