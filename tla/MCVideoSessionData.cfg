SPECIFICATION FairSpec
CONSTANTS
  KeepSleeps = 3
  Epoch <- MCEpoch
  IntMax = 7
  Limit = 2
  MaxGlitch = 2
CHECK_DEADLOCK FALSE
PROPERTIES DataRecovers
