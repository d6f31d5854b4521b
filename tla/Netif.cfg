CONSTANTS
    gw = gw
    far = far
    near = near
    all = all
    IPs = {far, near, all}
    Hops = {gw, near, all}
    Via <- MCVia
    Bcast = all
    Peers = {gw, near}
    Packets <- MCPackets
    NBuf = 4
    CacheSize = 1
    Retry = 1
    MaxSend = 2
    MaxInput = 2
SPECIFICATION FairSpec
INVARIANTS BuffersOwned SomebodyComes RightHop
PROPERTY PacketsLeave
CHECK_DEADLOCK FALSE
