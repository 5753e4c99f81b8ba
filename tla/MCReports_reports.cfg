\* A run of tasks and analyses, day and night, with every fault.
CONSTANTS
  f1 = f1
  NoFile = NoFile
  Broken = Broken
  Hours = 3
  PerHour = 2
  Window = 2
  Near = 2
  Facilities <- OneFacility
  Panels = {f1}
  Patterns <- DayPatterns
  Calendars <- Changes
  Pasts <- SomePasts
  Trends <- SomeTrends
  Garbage <- SomeGarbage
  Faults <- FaultKinds
  MaxDay = 1
  MaxFaults = 1
SPECIFICATION Spec
INVARIANTS
  TypeOK
  FreshAfterRun
  MarksAgree
  WindowIsBest
  EstimateKeepsLevel
  ShowsRightPrices
PROPERTIES
  RunEnds
