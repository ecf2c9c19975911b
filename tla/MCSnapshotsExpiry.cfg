SPECIFICATION Spec
CONSTANTS
    None = None
    SNAPSHOT_PACKETS_PER_TICK = 2
    SNAPSHOT_ENTITIES_PER_PACKET = 1
    SNAPSHOT_VISIBILITY_CEILING = 2
    SNAPSHOT_CLIENT_EXPIRY_SECS = 3
    MAX_TRANSPORT_PEERS = 6
    TickModulus = 16
    MaxChanges = 0
    Peer <- MCExpiryPeer
    Player <- MCExpiryPlayer
    Logins <- MCExpiryLogins
    Cell <- MCExpiryCell
    Configs <- MCExpiryConfigs
INVARIANTS
    ShownBeforeExpiry
