\* The VM is stopped in the middle of anything.
CONSTANTS
    BufferSize = 4
    FlushInterval = 2
    RingEntries = 2
    Capacity = 2
    MaxSpins = 1
    MaxUnavailableReads = 1
    ReplySize = 2
    MaxUnits = 2
    MaxSize = 2
    MaxWanted = 1
    MaxSaves = 1
    MayCrash = FALSE
SPECIFICATION Spec
PROPERTIES SaveAlwaysCompletes
CHECK_DEADLOCK FALSE
