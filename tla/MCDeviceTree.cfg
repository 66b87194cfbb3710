SPECIFICATION TreeSpec
CONSTANTS
  Trees <- MCTrees
  AREA_GROUP_NUM = 4
  CHILD_NODE_NUM = 2
  MAX_OPEN_COUNT = 2
  MaxTaps = 3
CHECK_DEADLOCK FALSE
INVARIANTS TreeInv GroupShowsItsCameras ChosenIsPlayed
