CONSTANTS
  Size = 4
  Wraps = 2
  MaxBytes = 8
  MaxCall = 3
  Outside = Outside
SPECIFICATION Safety
INVARIANT CopyStaticExact
CHECK_DEADLOCK FALSE
