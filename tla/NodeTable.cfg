SPECIFICATION Spec
CONSTANTS
  MaxId = 3
  Names = {a}
  NoName = NoName
  Threads = {t1, t2}
  MaxLookups = 1
  MaxOpen = 1
  MaxForgets = 2
INVARIANTS
  NodesThere
  RefCounts
  LookupsBalance
  NamesUnique
PROPERTIES
  ForgetsEnd
