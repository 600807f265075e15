SPECIFICATION Spec
CONSTANTS
  Bits = 16
  MaxLength = 6
  Sessions <- MCSessions
  Cols = 3
  Rows = 2
  Message = 2
  Forever = 1
INVARIANT ReadsToNewline
