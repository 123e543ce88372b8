CONSTANTS
  Programs <- EndlessPrograms
  MaxDepth = 3
  StringVars = {"S"}
  Signals = TRUE
SPECIFICATION FairSpec
PROPERTIES InterruptStops
