CONSTANTS
    FromCapacity = 2
    ToCapacity = 2
    PacketSize = 2
    ReplyBuffers = 3
    ReplyUnits = 2
    RecvModes = {"Android"}
    MaxUnits = 3
    SendSizes = {1, 3}
    RecvSizes = {3}
    MaxWanted = 2
    MaxSaves = 1
    MayStop = FALSE
SPECIFICATION Safety
INVARIANT SnapshotExact
CHECK_DEADLOCK FALSE
