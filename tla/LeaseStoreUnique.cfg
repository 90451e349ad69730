SPECIFICATION StoreSpec
CONSTANTS
    d1 = d1
    None = None
    Devices = {d1, d2}
    Sessions = {s1, s2}
    Network = 0
    Broadcast = 4
    Requested = {2}
    InitRows <- MCInitRows
    MaxRestarts = 1
INVARIANT UniqueLease
CHECK_DEADLOCK FALSE
