SPECIFICATION FairSpec
CONSTANTS
  Cameras = {c1, c2}
CHECK_DEADLOCK FALSE
INVARIANTS ControlInv TurningIsHeld
PROPERTIES ReleaseStops LeavingStops
