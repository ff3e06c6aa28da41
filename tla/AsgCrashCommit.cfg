\* The guest is killed while the host has a reply to send.
CONSTANTS
    BufferSize = 4
    FlushInterval = 2
    RingEntries = 2
    Capacity = 2
    MaxSpins = 1
    MaxUnavailableReads = 1
    ReplySize = 4
    MaxUnits = 2
    MaxSize = 2
    MaxWanted = 1
    MaxSaves = 0
    MayCrash = TRUE
SPECIFICATION Spec
PROPERTIES CrashUnblocksCommit
CHECK_DEADLOCK FALSE
