SPECIFICATION FairSpec
CONSTANTS
    None = None
    Cell = {0, 1}
    AoiRadius = 0
    MaxPeers = 2
    ChatItems = 2
    MaxPayload = 1
    MaxGeneration = 3
    MaxSessions = 4
INVARIANTS
    RecipientMeansItsSession
    PendingNotDelivered
    BytesAccounted
    AudiencesFit
PROPERTIES
    DeliveredAsMeant
    ChatWorkedOff
