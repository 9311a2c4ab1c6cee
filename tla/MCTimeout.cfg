SPECIFICATION BothSpec
CONSTANTS
  MaxTime = 3
  MaxSets = 2
  Delays = {0, 1, 2}
  MaxSends = 5
  MaxOpens = 2
INVARIANTS NeverEarly OnSchedule Conserved
PROPERTIES SilentAfterClear Alerts Reported
CHECK_DEADLOCK FALSE
