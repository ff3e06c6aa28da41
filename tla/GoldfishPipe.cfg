\* Two pipes and a buffer for one signalled pipe: the interrupt handler comes twice.
\* When every pipe is closed and no more are opened, nothing is left to do.
CONSTANTS
    o1 = o1
    o2 = o2
    Objects = {o1, o2}
    MaxId = 1
    Usages <- MCUsages
    BufferSize = 1
    MaxCalls = 2
    MaxPending = 2
SPECIFICATION Spec
INVARIANTS PipeInv NoStalePipe NoLostWakeup ClosedIsReal
PROPERTIES CallsReturn CloseReported
CHECK_DEADLOCK FALSE
