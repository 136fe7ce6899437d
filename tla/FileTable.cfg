SPECIFICATION Spec
CONSTANTS
  Junk = Junk
  Bytes = {1}
  a = a
  b = b
  Names <- TwoNames
  Paths <- TwoPaths
  Entries <- ThreeEntries
  Nobody = Nobody
  Unset = Unset
  MaxEntries = 6
INVARIANTS
  RecordsInBlock
PROPERTIES
  ImplementsList
