SPECIFICATION Spec
CONSTANTS
    None = None
    NameLengths <- MCNameLengths
    MooringLengths <- MCMooringLengths
    WireStringLen = 4096
    Batch = 5
    CellsPerUpdate = 32
INVARIANTS
    ReadAsSent
    PacketsFit
CHECK_DEADLOCK FALSE
