\* Two slots; commands of up to four units fill the large ring (three units).
CONSTANTS
    BufferSize = 4
    FlushInterval = 2
    RingEntries = 2
    Capacity = 2
    MaxSpins = 1
    MaxUnavailableReads = 1
    ReplySize = 4
    MaxUnits = 4
    MaxSize = 4
    MaxWanted = 1
    MaxSaves = 0
    MayCrash = FALSE
SPECIFICATION Spec
INVARIANTS ProtocolInv StreamInOrder RepliesInOrder TransferConsistent NoLostWakeup
PROPERTIES GuestReturns AllConsumed
