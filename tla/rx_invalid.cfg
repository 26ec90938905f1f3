SPECIFICATION Spec
CONSTANTS
  RXSIZE = 12
  HdrLen = 2
  CrcLen = 1
  BufLen = 4
  MinPlen = 2
  MaxPktCnt = 2
  FrameLens = {5}
  MaxFrames = 2
  EarlyFrames = FALSE
  BadFrames = TRUE
INVARIANTS InvalidIgnored
CHECK_DEADLOCK FALSE
