CONSTANTS
  Programs <- SilentFailures
  MaxDepth = 2
  StringVars = {"S"}
  Signals = FALSE
SPECIFICATION Spec
INVARIANTS ErrorReported
