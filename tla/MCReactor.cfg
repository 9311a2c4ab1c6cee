CONSTANTS
  ChunkSize = 2
  RingSize = 1
  Requests = {"once", "multi", "zc"}
  MaxOps = 3
  MaxShots = 1
SPECIFICATION FairSpec
INVARIANTS
  PoolExact
  CancelHitsItsTarget
  NeverSleepsOnNothing
  NextInOrder
PROPERTIES
  KeepsPromise
  CallsCome
