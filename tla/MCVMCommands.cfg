SPECIFICATION Spec
CONSTANTS
  Half = 32
  And <- MCAnd
  Or <- MCOr
  Point <- CommandPoint
  Boot = "boot"
  SysInit = "sys"
  Program <- CommandText
  NextPoint <- CommandNextPoint
  RomAddr <- CommandRomAddr
  Static = {"A.0"}
  StaticAddr <- MCStaticAddr
  StackBase = 17
  StackTop = 25
  MaxLocals = 1
  MaxArgs = 2
  MaxIndex = 27
  InitialRam <- MCZeroRam
  Leftover <- MCLeftover
INVARIANT CodeComputes
PROPERTY ImplementsVM
