SPECIFICATION Spec
CONSTANTS
  Keys <- SmallKeys
  MaxTyped = 1
  MaxSignals = 1
  MaxFaults = 0
INVARIANT NeverEchoed
CHECK_DEADLOCK FALSE
