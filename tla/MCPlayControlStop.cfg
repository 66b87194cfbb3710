SPECIFICATION Spec
CONSTANTS
  N = 1
  Tries = 2
  MaxEvents = 1
CHECK_DEADLOCK FALSE
INVARIANTS StoppedOnce
