CONSTANTS
    c1 = c1
    c2 = c2
    c3 = c3
    s1 = s1
    s2 = s2
    Clients <- MCClients
    Servers <- MCServers
    P2pOnly <- MCP2pOnly
    MaxTtl = 5
    MaxDirect = 1
    MaxEvents = 1
    Everybody = Everybody
    Gateway = Gateway
    None = None
SPECIFICATION Spec
INVARIANTS TypeOK DeliveredOnce BroadcastIsComplete
PROPERTY FrameEnds
CHECK_DEADLOCK FALSE
