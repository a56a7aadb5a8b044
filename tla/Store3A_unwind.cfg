SPECIFICATION Spec
CONSTANTS
    Blocks = {b1, b2}
    Absent = Absent
    Torn = Torn
    MaxPage = 4
    MaxHeight = 2
    MaxGen = 3
    MaxBatch = 2
    MaxFaults = 0
    MaxCrashes = 0
    MaxDamage = 0
    UnwindWithOpenBatch = TRUE
    ReplayAfterFailure = FALSE
SYMMETRY BlockSymmetry
INVARIANTS
    StateFollowsTip
CHECK_DEADLOCK FALSE
