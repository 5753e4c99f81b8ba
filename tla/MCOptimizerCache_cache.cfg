SPECIFICATION FairSpec
CONSTANTS
  w1 = w1
  w2 = w2
  k1 = k1
  k2 = k2
  k3 = k3
  se3 = se3
  Workers = {w1, w2}
  NoWorker = NoWorker
  NoTask = NoTask
  Classes = {se3}
  Keys = {k1, k2, k3}
  Forecasts <- TwoForecasts
  Near <- Neighbours
  Horizon = 1
  Retention = 1
  Faults <- FaultKinds
  MaxRuns = 3
  Configured <- Exchanged
  RunsPerDay = 2
INVARIANTS
  TypeOK
  TablesConsistent
  RowsOfTheirFacility
  LatestFetchWhole
  LatestTimesFresh
  StoredStays
PROPERTIES
  RunEnds
