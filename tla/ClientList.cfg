SPECIFICATION Spec
CONSTANTS
    None = None
    Devices = {d1, d2}
    Addresses = {i1, i2}
    Servers = {v1}
    MaxVersion = 3
    MaxUnderWay = 2
    MaxDrops = 1
    MaxRestarts = 1
INVARIANTS ListInv
PROPERTIES ClientCatchesUp
CHECK_DEADLOCK FALSE
