SPECIFICATION RouterSpec
CONSTANTS
    s1 = s1
    s2 = s2
    NoCircuit = NoCircuit
    Sessions <- MCSessions
    CircIds <- MCCircIds
    Circuits <- MCCircuits
    Keys = {k1}
    Cookies = {c1, c2}
    MaxIntros = 2
    MaxCookies = 1
    DELIVERY_QUEUE = 1
INVARIANTS PartnersAgree RolesBacked GoneHoldsNoRegistration
PROPERTIES PairStable ExpiredSwept
CHECK_DEADLOCK FALSE
