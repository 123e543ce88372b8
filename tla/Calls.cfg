CONSTANTS
  Programs <- UnhandledPrograms
  MaxDepth = 3
  StringVars = {"S"}
  Signals = TRUE
SPECIFICATION Spec
INVARIANTS TypeOK FnDepth FnReturnFindsFrame ValueHandedOver ErrorNeverLost
PROPERTIES FramePoppedByOwner FnReturnRestoresPc
