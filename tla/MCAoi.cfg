SPECIFICATION FairSpec
CONSTANTS
    None = None
    Peer <- MCPeer
    Boat <- MCBoat
    Cell <- MCCell
    LegacyBoats <- MCLegacyBoats
    Radius = 1
    CellsPerUpdate = 3
    ScanPerWork = 1
    EntitiesPerPacket = 1
    MaxChanges = 3
    MaxMoors = 1
    MaxFailures = 1
INVARIANTS
    WorkIsScheduled
    DeliveredWhole
PROPERTIES
    AreaDelivered
CHECK_DEADLOCK FALSE
