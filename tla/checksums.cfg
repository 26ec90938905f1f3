SPECIFICATION Spec
CONSTANTS
  Base = 4
  EchoType = 2
  UdpProto = 3
  TcpProto = 1
  Ttl = 2
  MyIp = 3
  WwwPort = 1
  SynAck = 1
  Ack = 2
  AckPushFin = 3
  MssOption <- MCMssOption
  MinUdpData = 3
  Datas <- MCDatas
INVARIANTS SentVerifies PongVerifiesUnlessCarry RoutinesAgree
