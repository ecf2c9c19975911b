SPECIFICATION Spec
CONSTANTS
    None = None
    SNAPSHOT_PACKETS_PER_TICK = 2
    SNAPSHOT_ENTITIES_PER_PACKET = 2
    SNAPSHOT_VISIBILITY_CEILING = 3
    SNAPSHOT_CLIENT_EXPIRY_SECS = 3
    MAX_TRANSPORT_PEERS = 6
    TickModulus = 8
    MaxChanges = 2
    Peer <- MCPeer
    Player <- MCPlayer
    Logins <- MCLogins
    Cell <- MCCell
    Configs <- MCConfigs
INVARIANTS
    RecurrenceBounded
PROPERTIES
    LongestWaitFirst
