SPECIFICATION Spec
CONSTANTS
  UserSymbol <- MCUserSymbol
  Sources <- CommentSources
  BUFFER = 28
  Garbage <- MCGarbage
CHECK_DEADLOCK FALSE
INVARIANT BlankWritesNothing
