CONSTANTS
  Size = 4
  Wraps = 2
  MaxBytes = 11
  MaxCall = 5
  Outside = Outside
SPECIFICATION Spec
INVARIANTS Fifo NoRace NeverBothBlocked CopyViewExact RingInv
PROPERTY AllDelivered
CHECK_DEADLOCK FALSE
