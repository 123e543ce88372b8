SPECIFICATION Spec
CONSTANTS
  IntMax = 15
  SingleMax = 8
  DoubleMax = 64
  Byte = 4
  SizeMod = 64
  Cases <- SmallCases
INVARIANT CopiesAreLimited
CHECK_DEADLOCK FALSE
