SPECIFICATION FairSpec
CONSTANTS
  Hash <- MCHash
  MinCapacity = 4
  Paths = {1, 2, 3}
  MaxWatches = 3
  MaxEvents = 2
INVARIANTS TablesAgree AbortsOnlyOnDeleted
PROPERTIES Settles Reported
CONSTRAINT Few
CHECK_DEADLOCK FALSE
