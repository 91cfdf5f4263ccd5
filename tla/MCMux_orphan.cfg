SPECIFICATION Spec
CONSTANTS
    StreamIds = {2}
    InitialWindow = 1
    MaxStreams = 1
    MaxPending = 4
    MaxBody = 1
    Quantum = 1
    MultiThread = TRUE
    MayClose = FALSE
    MayAbandon = FALSE
    MaxBytes <- Unit
INVARIANTS NeverOrphaned
CHECK_DEADLOCK FALSE
