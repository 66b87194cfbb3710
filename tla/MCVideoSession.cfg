SPECIFICATION FairSpec
CONSTANTS
  KeepSleeps = 3
  Epoch <- MCEpoch
  IntMax = 7
  Limit = 2
  MaxGlitch = 3
INVARIANTS CameraInv NoUseAfterFree
PROPERTIES StopCompletes CtlRecovers
CHECK_DEADLOCK FALSE
