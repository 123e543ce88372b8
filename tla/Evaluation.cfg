SPECIFICATION Spec
CONSTANTS
  IntMax = 15
  SingleMax = 8
  DoubleMax = 64
  Byte = 4
  SizeMod = 64
  Cases <- SmallCases
INVARIANTS TypeOK DivisionAgrees OperatorsAgree StringsAgree
CHECK_DEADLOCK FALSE
