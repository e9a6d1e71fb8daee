SPECIFICATION Spec
CONSTANTS
    Quantum = 4
    Prealloc = 1
    InitialFrames = 3
    MaxBuffers = 14
    Builds <- MCBuilds
INVARIANTS
    TypeOK
    NothingLost
    NoUnderrun
    OrderKept
    ArraysOwnedOnce
CHECK_DEADLOCK FALSE
