SPECIFICATION FairSpec
CONSTANTS
  N = 1
  Tries = 2
  MaxEvents = 3
CHECK_DEADLOCK FALSE
INVARIANTS ScreenInv NothingLeftOpen
PROPERTIES FailureIsRetried ExitReturns
