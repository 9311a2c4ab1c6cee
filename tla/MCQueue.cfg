SPECIFICATION FairQueueSpec
CONSTANTS
  Producers = {p1}
  Consumers = {c1, c2}
  p1 = p1
  c1 = c1
  c2 = c2
  ElementSize = 3
  WriteMax = 2
  BatchSize = 2
  PipeSize = 6
  PipeBuf = 3
  MaxPush = 4
  MaxInterrupts = 1
PROPERTIES KeepsChannel Flows
CONSTRAINT Few
CHECK_DEADLOCK FALSE
