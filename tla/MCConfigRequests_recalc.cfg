SPECIFICATION Spec
CONSTANTS
  v1 = v1
  v2 = v2
  Configs = {v1}
  NoConfig = NoConfig
  Backlog = 5
  Faults <- NoFaults
INVARIANTS
  RecalcTriggersRun
