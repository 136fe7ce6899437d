SPECIFICATION Spec
CONSTANTS
  d = d
  a = a
  b = b
  c = c
  Junk = Junk
  Names <- NamesDABC
  Paths <- PathsOneDir
  Bytes <- ByteValues
  Chunks <- OneChunk
  Ranges <- OneRange
  Faults <- NoFaults
  MkdirDepth = 1
  MaxUploads = 2
PROPERTIES
  RmdirClearsTag
SYMMETRY FileSymmetry
