\* A snapshot and the end of the guest, in the middle of anything.  A host that
\* needs a guest that is stopped or dead may really stop.
CONSTANTS
    BufferSize = 4
    FlushInterval = 2
    RingEntries = 2
    Capacity = 2
    MaxSpins = 1
    MaxUnavailableReads = 1
    ReplySize = 4
    MaxUnits = 2
    MaxSize = 2
    MaxWanted = 1
    MaxSaves = 1
    MayCrash = TRUE
SPECIFICATION Spec
INVARIANT SnapshotHoldsAll
PROPERTIES SaveCompletes ConsumerExits
CHECK_DEADLOCK FALSE
