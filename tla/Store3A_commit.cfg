SPECIFICATION Spec
CONSTANTS
    Blocks = {b1, b2}
    Absent = Absent
    Torn = Torn
    MaxPage = 4
    MaxHeight = 2
    MaxGen = 3
    MaxBatch = 2
    MaxFaults = 1
    MaxCrashes = 1
    MaxDamage = 0
    UnwindWithOpenBatch = FALSE
    ReplayAfterFailure = FALSE
SYMMETRY BlockSymmetry
INVARIANTS
    CommittedIntact
    OldOrNew
    Restartable
    RetainedBelowWriteOffset
    ReadsSeeBatch
    FreeUnreferenced
PROPERTIES
    ImplementsLedger
CHECK_DEADLOCK FALSE
