SPECIFICATION FairSpec
CONSTANTS
  Numeric = {"127.0.0.1"}
  Names = {"host"}
  MaxTasks = 3
  Expiration = 1
  MaxTime = 2
INVARIANTS FreedInTime Truthful
PROPERTIES ToldOnce Resolved
CHECK_DEADLOCK FALSE
