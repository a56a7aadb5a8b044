SPECIFICATION FairSpec
CONSTANTS
    Blocks = {b1}
    Absent = Absent
    Torn = Torn
    MaxPage = 4
    MaxHeight = 1
    MaxGen = 3
    MaxBatch = 1
    MaxFaults = 1
    MaxCrashes = 2
    MaxDamage = 1
    UnwindWithOpenBatch = FALSE
    ReplayAfterFailure = FALSE
INVARIANTS
    TypeOK
    BackupIsAcked
PROPERTIES
    NoRollback
    Completes
CHECK_DEADLOCK FALSE
