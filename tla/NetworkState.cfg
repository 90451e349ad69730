SPECIFICATION Spec
CONSTANTS
    d1 = d1
    d2 = d2
    None = None
    Devices = {d1, d2}
    Sessions = {s1, s2, s3}
    Network = 0
    Broadcast = 4
    Requested = {1, 3}
    InitRows <- MCInitRows
SYMMETRY Symmetry
VIEW WithoutVersions
INVARIANTS TypeOK UniqueLease SenderIsLessee ConnectedHasSession LeaseInNet
PROPERTIES ImplementsDeviceList
CHECK_DEADLOCK FALSE
