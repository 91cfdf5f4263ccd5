SPECIFICATION FairSpec
CONSTANTS
    Circs = {c1, c2}
    Outs = {o1, o2}
    MaxCircuits = 2
    MaxPending = 1
    Sids = {s1}
    Slots = {g1}
    MaxStreams = 1
    FwdCap = 1
    EvCap = 1
    UpCap = 1
    InCap = 1
INVARIANTS
    TokenGate
    OutInverse
    RespondersExact
    NextLinkBacked
PROPERTIES
    LoopComesBack
CHECK_DEADLOCK FALSE
