SPECIFICATION Spec
CONSTANTS
  Values <- MCValues
  MAX_TEXT_LENGTH = 2
  Chunk = 4
  Slice = 3
  MaxHandles = 2
  MaxRows = 2
INVARIANTS
  ParamsAreInFormat
