SPECIFICATION Spec
CONSTANTS
    Classes = {interactive}
    MaxPerClass <- MCPerClass
    MaxPendingBuilds = 2
    MinPoolSize <- MCOne
    MaxStreams <- MCPerClass
    Streams = {s1, s2}
    StreamClass <- MCClass
    HopCount <- MCPerClass
    MaxIds = 2
INVARIANTS
    EveryBuildHasItsEntry StreamsCounted
    HandedOutIsRegistered NoHopLeaks NoLostWakeup
PROPERTIES
    NeverRetiredInUse FailedIsDestroyed

