SPECIFICATION Spec
CONSTANTS
  Byte = 16
  PageLen <- MCShortPageLen
  GetLen = 3
  ClientIsns <- MCClientIsns
  FirstSeqnum = 10
  Reorder = {"client"}
  MaxConns = 2
  MaxLoss = 1
  MaxQueue = 3
  MaxSyns = 2
INVARIANTS TypeOK AcknowledgesWhatWasSent PageIsForThisConnection
PROPERTIES ServedUnlessPageLost FallsSilent LampSpec
CHECK_DEADLOCK FALSE
