SPECIFICATION DrainSpec
CONSTANTS
    StreamIds = {1, 2, 4}
    InitialWindow = 1
    MaxStreams = 3
    MaxPending = 9
    MaxBody = 3
    Quantum = 2
    MaxQueued = 4
INVARIANTS
    StreamOrderKept
    FairShare
PROPERTY DrainEnds
CHECK_DEADLOCK FALSE
