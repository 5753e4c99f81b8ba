SPECIFICATION FairSpec
CONSTANTS
  c1 = c1
  c2 = c2
  c3 = c3
  Conns = {c1, c2}
  NoConn = NoConn
  Requests <- SlowOrBad
  Faults <- NoFaults
  MaxRetries = 1
  TcpInitRetries = 3
INVARIANTS
  OkOnlyIfServableButEcho
PROPERTIES
  EveryClientServed
  ImplementsFairService
