CONSTANTS
    PromptCarrier = FALSE
    MaxSendLead = 2
    MaxEpoch = 3
    MaxClock = 4
    MaxFrames = 3
SPECIFICATION RatchetSpec
INVARIANTS
    NonceFresh
    GraceWindow
    LeadOverPeer
PROPERTY PeerFollows
CHECK_DEADLOCK FALSE
