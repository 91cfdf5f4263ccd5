SPECIFICATION FairSpec
CONSTANTS
    SeqSpace = 8
    MaxReorder = 2
    MaxAhead = 4
    MaxWrite <- Writes
    UpMtu = 2
    DownMtus <- MtuChoice
    DuplexCap = 1
    NetCap <- Caps
INVARIANTS
    InOrder KeptUntilTaken
PROPERTIES
    EverythingArrives
