SPECIFICATION Spec
CONSTANTS
  Junk = Junk
  Bytes <- ByteValues
  Strings <- ShortStrings
  Positions <- LowPositions
  InitialCapacity = 2
  MaxLength = 6
INVARIANTS
  InsideBlock
  TailUnwritten
PROPERTIES
  ImplementsString
