SPECIFICATION Spec
CONSTANTS
  d = d
  a = a
  b = b
  c = c
  Junk = Junk
  Names <- NamesDABC
  Paths <- PathsOneDir
  Bytes <- ByteValues
  Chunks <- OneChunk
  Ranges <- OneRange
  Faults <- AllFaults
  MkdirDepth = 1
  MaxUploads = 2
INVARIANTS
  TypeOK
  StorageSound
  HandlesBacked
  DocumentsHaveMessages
PROPERTIES
  FilesIndependent
  MessageStaysKnown
  EarlierMountsKept
SYMMETRY FileSymmetry
VIEW WithoutReply
