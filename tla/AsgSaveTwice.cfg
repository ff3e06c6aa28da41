\* Two snapshots.
CONSTANTS
    BufferSize = 4
    FlushInterval = 2
    RingEntries = 2
    Capacity = 2
    MaxSpins = 1
    MaxUnavailableReads = 1
    ReplySize = 2
    MaxUnits = 1
    MaxSize = 1
    MaxWanted = 1
    MaxSaves = 2
    MayCrash = FALSE
SPECIFICATION Spec
PROPERTIES SaveCompletes
CHECK_DEADLOCK FALSE
