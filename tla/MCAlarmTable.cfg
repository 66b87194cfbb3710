SPECIFICATION FairSpec
CONSTANTS
  Devices = {1, 2, 3}
  MAX_ALARM_COUNT = 2
  Rows = 1
  Seconds = 2
  MaxLinks = 1
  MaxCount = 2
  Turns = 2
CHECK_DEADLOCK FALSE
INVARIANTS AlarmInv ReadsClaimed
PROPERTIES ReportIsShown
