SPECIFICATION Spec
CONSTANTS
  Keys <- SmallKeys
  MaxTyped = 1
  MaxSignals = 2
  MaxFaults = 2
INVARIANTS TypeOK RawIsKnown NotEchoed NoValueIsExplained
PROPERTIES InterruptEndsWait WaitEnds
CHECK_DEADLOCK FALSE
