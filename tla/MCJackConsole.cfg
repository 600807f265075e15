SPECIFICATION Spec
CONSTANTS
  Bits = 16
  MaxLength = 6
  Sessions <- MCSessions
  Cols = 3
  Rows = 2
  Message = 2
  Forever = 65535
INVARIANTS CursorAtRest LineRead KeysRead MathRight NumbersRoundTrip
PROPERTIES LineReturns
