SPECIFICATION ThreadedSpec
CONSTANTS
  d = d
  a = a
  b = b
  c = c
  Names <- NamesDABC
  Paths <- PathsBeside
  Bytes <- ByteValues
  Junk = Junk
  Chunks <- OneChunk
  Ranges <- OneRange
  MkdirDepth = 1
  MaxUploads = 1
  Faults <- NoFaults
  Threads = {t1, t2}
PROPERTIES
  WriteRecorded
