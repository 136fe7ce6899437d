SPECIFICATION Spec
CONSTANTS
  Workers = {w1, w2, w3}
  NoWorker = NoWorker
  MaxThreads = 3
  MaxIdle = 1
INVARIANTS
  PoolCounts
  JoinsOwn
  SomeoneReads
PROPERTIES
  UnmountEnds
  SignalEnds
CHECK_DEADLOCK FALSE
