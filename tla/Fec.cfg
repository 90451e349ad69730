SPECIFICATION Spec
CONSTANTS
    None = None
    BATCH_SIZE = 2
    ChannelSize = 1
    Lens = {1, 2}
    Compression = TRUE
    MaxPackets = 3
    MaxGroups = 2
    MaxFaults = 2
INVARIANTS GroupInv DeliveredOnce NothingInvented
PROPERTIES LossIsRepaired
CHECK_DEADLOCK FALSE
