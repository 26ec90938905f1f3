SPECIFICATION BoardSpec
CONSTANTS
  Chars <- MCChars
  Password <- MCPassword
  CheckLen = 2
  ScanLimit = 4
  LenMod = 16
  LenArgMod = 256
  Byte = 256
  Mac <- MCMac
  MyMac <- MCMyMac
  MyIp <- MCMyIp
  WwwPort = 80
  UdpPort = 1200
  BufferSize = 1500
  SeqnumBound = 12
  MaxRestarts = 1
  Received <- MCReceived
  BadTotals = {39}
INVARIANTS
  ReadyWhenReceiving
  DuplexAgrees
  AnswersFitController
  GoesBack
  LengthsAgree
  PageTellsLed
  ReplyTellsLed
  UrlAsDocumented
  DatagramCommandIsInPayload
PROPERTIES
  WritesArrive
  ComesUp
  LedFollowsCommand
