CONSTANTS
  Programs <- NestedLoopPrograms
  MaxDepth = 4
  StringVars = {"S"}
  Signals = FALSE
SPECIFICATION Spec
INVARIANTS LoopStacksAreLexical LoopsMatch
