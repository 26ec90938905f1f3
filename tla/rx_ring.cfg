SPECIFICATION FairSpec
CONSTANTS
  RXSIZE = 12
  HdrLen = 2
  CrcLen = 1
  BufLen = 4
  MinPlen = 2
  MaxPktCnt = 2
  FrameLens = {2, 5}
  MaxFrames = 6
  EarlyFrames = FALSE
  BadFrames = FALSE
INVARIANTS TypeOK UnreadIntact FrameIsWhole NoLostWakeup
PROPERTIES DropOnlyWhenBehind ServedInOrder EveryFrameTaken
CHECK_DEADLOCK FALSE
