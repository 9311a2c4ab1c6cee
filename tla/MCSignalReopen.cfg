SPECIFICATION SignalSpec
CONSTANTS
  MaxSends = 4
  MaxOpens = 2
INVARIANTS ReadsCounter
CHECK_DEADLOCK FALSE
