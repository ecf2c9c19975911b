SPECIFICATION FairSpec
CONSTANTS
    Player <- MCPair
    UpdatesPerTick = 1
    MinTicksPerFlush = 2
    MaxTicksPerFlush = 2
    FlushAttempts = 3
    MaxBoots = 1
CHECK_DEADLOCK FALSE
INVARIANTS
    LossWithinInterval
