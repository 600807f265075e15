SPECIFICATION Spec
CONSTANTS
  Inputs <- MCInputs
  MAX_REQUEST_BODY_LENGTH = 2
  Blocks = 2
  MaxTouch = 1
CHECK_DEADLOCK FALSE
INVARIANTS HeapBalanced AnsweredWhole ReadsItsBody
PROPERTY RequestEnds
