CONSTANTS
  Programs <- UnwindPrograms
  MaxDepth = 4
  StringVars = {"S"}
  Signals = FALSE
SPECIFICATION Spec
INVARIANTS FrameIsThere
