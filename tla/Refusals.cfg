SPECIFICATION Spec
CONSTANTS
  d = d
  a = a
  b = b
  c = c
  Junk = Junk
  Names <- NamesDABC
  Paths <- PathsThreeDir
  Bytes <- ByteValues
  Chunks <- OneChunk
  Ranges <- OneRange
  Faults <- Refused
  MkdirDepth = 1
  MaxUploads = 2
INVARIANTS
  NoSharedMessage
  OnlyStraysKill
PROPERTIES
  MessagesIndependent
  WriteAllOrNothing
  RmdirShrinks
SYMMETRY ThreeSymmetry
VIEW WithoutGoodReply
