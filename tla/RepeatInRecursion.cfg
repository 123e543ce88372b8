CONSTANTS
  Programs <- RepeatInRecursion
  MaxDepth = 4
  StringVars = {"S"}
  Signals = FALSE
SPECIFICATION Spec
INVARIANTS LoopsMatch
