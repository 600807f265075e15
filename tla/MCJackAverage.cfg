SPECIFICATION Spec
CONSTANTS
  Half = 32
  And <- MCAnd
  Or <- MCOr
  Fuel = 4
  Sources <- AverageSources
INVARIANTS AveragePrinted
