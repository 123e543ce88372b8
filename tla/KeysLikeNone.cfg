SPECIFICATION Spec
CONSTANTS
  Keys <- SmallKeys
  MaxTyped = 1
  MaxSignals = 0
  MaxFaults = 0
INVARIANT OnlyWithoutInput
CHECK_DEADLOCK FALSE
