\* Two rings; with and without asynchronous callbacks.
CONSTANTS
  global = global
  ctx1 = ctx1
  Rings = {global, ctx1}
  NoRing = NoRing
  MaxTasks = 3
  MaxFences = 3
  Modes = {TRUE, FALSE}
SPECIFICATION Spec
INVARIANTS NeverAborts TaskMapExact AsyncDrained TimelineInv
PROPERTY ImplementsTimeline
CHECK_DEADLOCK FALSE
