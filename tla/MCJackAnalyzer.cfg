SPECIFICATION FairSpec
CONSTANTS
  Sources <- MCSources
INVARIANTS TypeOK TokensRight TreeRight
PROPERTIES TreeFinished
