SPECIFICATION Spec
CONSTANTS
  Keys <- SmallKeys
  MaxTyped = 1
  MaxSignals = 0
  MaxFaults = 2
INVARIANT AlreadyCanonical
CHECK_DEADLOCK FALSE
