SPECIFICATION Spec
CONSTANTS
  w1 = w1
  w2 = w2
  k1 = k1
  k2 = k2
  k3 = k3
  se3 = se3
  Workers = {w1, w2}
  NoWorker = NoWorker
  NoTask = NoTask
  Classes = {se3}
  Keys = {k1, k2}
  Forecasts <- OneForecast
  Near <- Apart
  Horizon = 1
  Retention = 1
  Faults <- NoFaults
  MaxRuns = 1
  Configured <- Same
  RunsPerDay = 2
SYMMETRY Symmetry
INVARIANTS
  FetchedIsStored
