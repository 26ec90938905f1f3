SPECIFICATION Spec
CONSTANTS
  Byte = 16
  PageLen <- MCPageLen
  GetLen = 3
  ClientIsns <- MCClientIsns
  FirstSeqnum = 10
  Reorder = {}
  MaxConns = 2
  MaxLoss = 1
  MaxQueue = 3
  MaxSyns = 3
INVARIANT SessionHasItsOwnNumbers
CHECK_DEADLOCK FALSE
