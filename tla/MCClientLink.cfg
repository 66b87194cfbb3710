SPECIFICATION FairSpec
CONSTANTS
  MaxFails = 3
  Polls = 2
  InboxCap = 2
  MaxGlitch = 4
INVARIANTS LinkInv NoUseAfterFree LinkFlagTruth
PROPERTIES LogoutCompletes LinkRecovers DeadPeerNoticed
