SPECIFICATION Spec
CONSTANTS
  UserSymbol <- MCUserSymbol
  Sources <- MCSources
  BUFFER = 28
  Garbage <- MCGarbage
CHECK_DEADLOCK FALSE
INVARIANTS LabelsPointAtOutput VariablesApart Assembled
