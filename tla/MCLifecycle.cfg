SPECIFICATION FairSpec
CONSTANTS
    Player <- MCPlayer
    UpdatesPerTick = 1
    MinTicksPerFlush = 2
    MaxTicksPerFlush = 3
    FlushAttempts = 3
    MaxBoots = 2
CHECK_DEADLOCK FALSE
INVARIANTS
    ActivityTracked
    LossBounded
    CleanShutdown
    WorldStable
PROPERTIES
    ActivityPersisted
