CONSTANTS
  Programs <- LocalAfterError
  MaxDepth = 2
  StringVars = {"S"}
  Signals = FALSE
SPECIFICATION Spec
PROPERTY LocalOnlyInside
