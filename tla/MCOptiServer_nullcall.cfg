SPECIFICATION Spec
CONSTANTS
  c1 = c1
  c2 = c2
  c3 = c3
  Conns = {c1}
  NoConn = NoConn
  Requests <- OnePost
  Faults <- TcpInitFault
  MaxRetries = 1
  TcpInitRetries = 3
INVARIANTS
  NoNullCall
