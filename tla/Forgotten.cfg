CONSTANTS
  Files = {"A"}
  Modes = {"up", "out"}
  MaxFd = 4
  MaxSize = 4
  MaxNested = 2
  MaxItems = 2
  IntSize = 1
  FloatSize = 2
  Values <- SmallValues
  Bytes = {64}
  Wanted <- SmallWanted
  Disks <- SmallDisks
SPECIFICATION Spec
INVARIANT OpenAreListed
