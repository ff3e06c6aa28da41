CONSTANTS
    FromCapacity = 2
    ToCapacity = 2
    PacketSize = 2
    ReplyBuffers = 3
    ReplyUnits = 2
    RecvModes = {"Android", "Fuchsia", "VirtioGpu"}
    MaxUnits = 5
    SendSizes = {1, 3}
    RecvSizes = {3}
    MaxWanted = 3
    MaxSaves = 2
    MayStop = TRUE
SPECIFICATION Spec
INVARIANTS ChannelInv StreamExact RepliesExact GuestNotForgotten WaitsForReason NoCommandMissed
PROPERTIES GuestReturns SaveCompletes ThreadExits
CHECK_DEADLOCK FALSE
