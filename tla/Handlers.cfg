CONSTANTS
  Programs <- HandlerPrograms
  MaxDepth = 4
  StringVars = {"S"}
  Signals = TRUE
SPECIFICATION Spec
INVARIANTS FrameBalance HandlerLinked ValueHandedOver
PROPERTIES InterruptWins
