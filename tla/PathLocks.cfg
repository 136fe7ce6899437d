SPECIFICATION Spec
CONSTANTS
  d = d
  a = a
  Names <- NamesDA
  Nodes <- NodesDA
  Threads = {t1, t2, t3}
INVARIANTS
  TypeOK
  LockWords
  ChainsIntact
  NoMissedWakeup
PROPERTIES
  ImplementsTreeLock
  Served
