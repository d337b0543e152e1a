SPECIFICATION Spec
CONSTANTS
  DefaultMode = "udp"
  MultiTransport = TRUE
  MaxFailures = 4
CHECK_DEADLOCK FALSE
INVARIANTS
  TypeOK
  EngineConsistent
  TcpAnswersInStep
PROPERTIES
  LeavesUdpOnlyAfterTcpFailed
  ReturnsToUdp
  StopsWhenCancelled
