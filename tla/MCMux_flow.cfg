SPECIFICATION Spec
CONSTANTS
    StreamIds = {2}
    InitialWindow = 2
    MaxStreams = 1
    MaxPending = 2
    MaxBody = 2
    Quantum = 1
    MultiThread = TRUE
    MayClose = TRUE
    MayAbandon = TRUE
    MaxBytes <- OneWay
INVARIANTS
    NoOverSend
    WindowBoundsMemory
    DeliveredInOrder
    NoOpenAfterClose
PROPERTIES
    ImplementsPipes
CHECK_DEADLOCK FALSE
