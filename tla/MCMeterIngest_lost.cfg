SPECIFICATION Spec
CONSTANTS
  Absent = Absent
  NoReading = NoReading
  Faults <- EveryFault
  Watts = {1}
  Uses = {2}
  Day = 2
  LoadDays = 2
  HistoryDays = 1
  MaxGap = 2
  MaxStep = 3
  MaxClock = 4
  MaxReadings = 3
INVARIANT
  AcceptedStays
