SPECIFICATION Spec
CONSTANTS
  SeqMod = 6
  BufPackets = 2
  MaxParts = 3
  MaxFrames = 3
CHECK_DEADLOCK FALSE
INVARIANTS BufferInv OnlyWholeFrames FramesInOrder NoFrameDropped
