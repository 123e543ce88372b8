CONSTANTS
  Programs <- FnThenError
  MaxDepth = 2
  StringVars = {"S"}
  Signals = FALSE
SPECIFICATION Spec
PROPERTIES ErrorAtItsLine
