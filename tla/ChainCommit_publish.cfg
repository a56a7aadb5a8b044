SPECIFICATION Spec
CONSTANTS
  Blocks <- Short
  Trust <- Uneven
  Bad = {}
  StoreBatch = 2
  TipBatch = 1
  BatchAlways = FALSE
  ReplayBatch = 2
  MaxCrashes = 3
  MaxSwitches = 0
CHECK_DEADLOCK FALSE
INVARIANTS
  StartAccepts
  CoinsFollowBest
  StoreWithinIndex
  TipNamesCoins
  TipFollowsBest
PROPERTIES
  TipGainsTrust
  ComesBack
