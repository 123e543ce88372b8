CONSTANTS
  Programs <- EndInFn
  MaxDepth = 2
  StringVars = {"S"}
  Signals = FALSE
SPECIFICATION Spec
INVARIANTS ValueIsThere
