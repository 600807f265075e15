SPECIFICATION Spec
CONSTANTS
  Half = 64
  And <- MCAnd
  Or <- MCOr
  Point <- MCPoint
  Boot = "boot"
  SysInit = "sys"
  Program <- FramesText
  NextPoint <- MCNextPoint
  RomAddr <- MCRomAddr
  Static = {"A.0"}
  StaticAddr <- MCStaticAddr
  StackBase = 17
  StackTop = 33
  MaxLocals = 1
  MaxArgs = 2
  MaxIndex = 1
  InitialRam <- MCInitialRam
  Leftover <- MCLeftover
INVARIANTS TypeOK SavedWordsIntact FramesNested
PROPERTIES CallerUntouched ReturnRestores ImplementsVM
