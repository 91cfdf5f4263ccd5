SPECIFICATION Spec
CONSTANTS
    StreamIds = {1, 2}
    InitialWindow = 1
    MaxStreams = 1
    MaxPending = 8
    MaxBody = 1
    Quantum = 1
    MultiThread = FALSE
    MayClose = FALSE
    MayAbandon = FALSE
    MaxBytes <- Unit
INVARIANTS NeverOrphaned
PROPERTIES HalfClosePropagates OpenAnswered
CHECK_DEADLOCK FALSE
