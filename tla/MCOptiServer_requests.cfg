SPECIFICATION Spec
CONSTANTS
  c1 = c1
  c2 = c2
  c3 = c3
  Conns = {c1, c2}
  NoConn = NoConn
  Requests <- ServedKinds
  Faults <- RequestFaults
  MaxRetries = 1
  TcpInitRetries = 3
SYMMETRY Symmetry
INVARIANTS
  TasksOwnLiveObjects
  OkOnlyIfServableButEcho
PROPERTIES
  ImplementsService
