SPECIFICATION Spec
CONSTANTS
  d = d
  a = a
  b = b
  c = c
  Junk = Junk
  Names <- NamesDABC
  Paths <- PathsOneDir
  Bytes <- ByteValues
  Chunks <- OneChunk
  Ranges <- OneRange
  Faults <- Split
  MkdirDepth = 1
  MaxUploads = 1
INVARIANTS
  NeverDies
SYMMETRY FileSymmetry
