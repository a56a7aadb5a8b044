SPECIFICATION Spec
CONSTANTS
    S = 2
    Window = 2
    Lengths = {1, 2}
    Absent = Absent
    Torn = Torn
    MaxBytes = 6
    MaxBatch = 2
    MaxFaults = 1
    MaxCrashes = 1
    MaxDamage = 1
    LateFaults = FALSE
INVARIANTS
    Parity
    DisconnectServed
    IndexDecodes
    NotBehind
    RefusedOnlyDamaged
