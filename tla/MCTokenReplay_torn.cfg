SPECIFICATION Spec
CONSTANTS
    t1 = t1
    t2 = t2
    t3 = t3
    Tokens = {t1, t2, t3}
    ExpiresAt <- MCExpiresAt
    Grace = 1
    MaxEntries = 2
    IngestTtl = 1
    Handshakes = {h1}
    HandshakeTimeout = 1
    Fsync = TRUE
    PowerLoss = TRUE
    Faults = {"write"}
    MaxClock = 3
    MaxRecords = 3
INVARIANTS
    DurableBurn
