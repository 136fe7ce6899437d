SPECIFICATION OneSpec
CONSTANTS
  d = d
  a = a
  b = b
  c = c
  Names <- NamesDABC
  Paths <- PathsDA
  Bytes <- ByteValues
  Junk = Junk
  Chunks <- OneChunk
  Ranges <- OneRange
  MkdirDepth = 1
  MaxUploads = 2
  Faults <- AllFaults
  Threads = {t1}
PROPERTIES
  HandlersAtomic
VIEW OneView
