SPECIFICATION Spec
CONSTANTS
  d = d
  a = a
  b = b
  c = c
  Junk = Junk
  Names <- NamesDABC
  Paths <- PathsOneDir
  Bytes <- ByteValues
  Chunks <- TwoChunks
  Ranges <- TwoRanges
  Faults <- NoFaults
  MkdirDepth = 1
  MaxUploads = 2
INVARIANTS
  ChannelMatchesTable
PROPERTIES
  ImplementsStore
SYMMETRY FileSymmetry
