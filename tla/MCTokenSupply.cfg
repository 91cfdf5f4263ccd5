SPECIFICATION Spec
CONSTANTS
    f1 = f1
    l1 = l1
    Clients = {a}
    FsTokens <- FsPool
    LegacyTokens <- LegacyPool
    RefreshIds = {r1, r2}
    Claims = {k1}
    ClaimsOf <- SameInvite
    Fsync = FALSE
    MaxRestarts = 1
    Watermark = 1
    PerRootCap = 1
    PerRequest = 2
    TableCap = 1
    Capacity = 2
SYMMETRY Symmetry
INVARIANTS ClaimedOnce LineageBound NeverReplayed
