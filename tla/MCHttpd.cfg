SPECIFICATION Spec
CONSTANTS
  c1 = c1
  c2 = c2
  i1 = i1
  Client = {c1, c2}
  None = None
  MAX_BACKLOG = 1
  BLOCK_BUF_SIZE = 2
  MaxProc = 1
  Ino = {i1}
  MaxSize = 2
  MaxChanges = 1
  AcceptMayFail = TRUE
CHECK_DEADLOCK FALSE
INVARIANTS ServerHoldsOne HonestLength
PROPERTIES ServerStaysUp EndsOnceSent QueueServed
