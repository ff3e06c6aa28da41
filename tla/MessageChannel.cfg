CONSTANTS
  s1 = s1
  s2 = s2
  r1 = r1
  r2 = r2
  Threads = {s1, s2, r1, r2}
  Capacity = 2
  Usages <- MCUsages
  MaxMessages = 5
  MayStop = TRUE
SPECIFICATION Spec
INVARIANT NoLostWakeup
PROPERTIES ImplementsQueue CallsReturn AllReceived
