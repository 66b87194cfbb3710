SPECIFICATION FairSpec
CONSTANTS
  MAX_FRAME_LIST_NUM = 2
  LOST_FRAME_NUM = 1
  Want = 2
  Nos <- MCNos
  MaxIn = 5
CHECK_DEADLOCK FALSE
INVARIANTS ListsInv GapEndsAtKey
PROPERTIES VideoIsQueue AudioIsQueue Drains
