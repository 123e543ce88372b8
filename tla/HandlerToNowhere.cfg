CONSTANTS
  Programs <- HandlerToNowhere
  MaxDepth = 2
  StringVars = {"S"}
  Signals = TRUE
SPECIFICATION FairSpec
PROPERTIES InterruptStops
