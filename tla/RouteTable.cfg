SPECIFICATION TableSpec
CONSTANTS
    None = None
    Ids = {c1, c2}
    Keys = {k1, k2}
    TcpKeys = {k1}
    c1 = c1
    c2 = c2
    k1 = k1
    k2 = k2
    Links <- MCLinks
    Rtts = {5, 15}
    DEFAULT_RTT = 10
INVARIANTS TableInv
PROPERTIES SilentRouteGoes
CHECK_DEADLOCK FALSE
