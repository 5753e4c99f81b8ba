SPECIFICATION FairSpec
CONSTANTS
  v1 = v1
  v2 = v2
  Configs = {v1, v2}
  NoConfig = NoConfig
  Backlog = 1
  Faults <- EveryFault
INVARIANTS
  TypeOK
  ConfigIsOnItsWay
  RunIsOnItsWay
PROPERTIES
  SavedIsReported
