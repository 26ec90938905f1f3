SPECIFICATION FairSpec
CONSTANTS
  RXSIZE = 12
  HdrLen = 2
  CrcLen = 1
  BufLen = 4
  MinPlen = 2
  MaxPktCnt = 2
  FrameLens = {2}
  MaxFrames = 2
  EarlyFrames = TRUE
  BadFrames = FALSE
PROPERTIES EveryFrameTaken
CHECK_DEADLOCK FALSE
