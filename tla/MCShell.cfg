SPECIFICATION Spec
CONSTANTS
  Sessions <- MCSessions
  Paths <- MCPaths
  ChangedKinds = {"reg", "dir", "closed"}
  MaxChanges = 2
  MaxOpen = 2
  LINE_BUF_SIZE = 7
  INIT_CAPA = 3
  MaxFds = 10
  Program = "walk"
  Roots = {"top", "b"}
INVARIANTS TypeOK PathKept WalkedWhole WordsRight RunsWhileRoom
PROPERTY SessionEnds
