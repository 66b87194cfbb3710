SPECIFICATION QueueSpec
CONSTANTS
  Threads <- MCThreads
  Cmds <- MCCmds
  CmdOf <- MCCmdOf
  Day = 6
  Keep = 2
  Wait = 1
  MaxRequests = 3
  MaxTime = 7
  Crowded = FALSE
CHECK_DEADLOCK FALSE
INVARIANTS QueueInv
PROPERTIES IsExchange
