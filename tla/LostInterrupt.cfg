SPECIFICATION Spec
CONSTANTS
  Keys <- SmallKeys
  MaxTyped = 1
  MaxSignals = 1
  MaxFaults = 0
PROPERTY TimedWaitEnds
CHECK_DEADLOCK FALSE
