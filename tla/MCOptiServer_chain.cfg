SPECIFICATION Spec
CONSTANTS
  c1 = c1
  c2 = c2
  c3 = c3
  Conns = {c1, c2, c3}
  NoConn = NoConn
  Requests <- OneGet
  Faults <- ChainFaults
  MaxRetries = 1
  TcpInitRetries = 3
SYMMETRY Symmetry
INVARIANTS
  TypeInv
  TasksOwnLiveObjects
  NoLostClient
  NoNullCall
  HandOverInv
  WaiterHasWorker
PROPERTIES
  StopsTaking
