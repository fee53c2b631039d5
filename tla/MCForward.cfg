CONSTANTS
  ReqLen = 7
  RespLen = 3
  Window = 2
  Buffered = 1
  TcpBuffer = 1
SPECIFICATION FairSpec
INVARIANTS
  TypeOK
  InOrder
  WholeIsWhole
PROPERTIES
  ImplementsExchange
  EveryStepCounts
  RequestEnds
  HandlerEnds
CHECK_DEADLOCK FALSE
