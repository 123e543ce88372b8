CONSTANTS
  IntMax = 4095
  SizeMod = 262144
  Memory = 1024
  Upper = {"A"}
  Lower = {"x", "s", "n"}
  Variables <- SmallVariables
  Arrays <- SmallArrays
  Buckets = {1, 2}
  Hash <- SmallHash
  Defs <- SmallDefs
  Called <- SmallCalled
  Assigned <- SmallAssigned
  ArgLists <- SmallArgs
  LocalLists <- SmallLocals
  DimLists <- SmallDims
  IndexLists <- SmallIndices
  Elapsed = {0}
  Columns = {0}
  MaxFrames = 3
SPECIFICATION Spec
VIEW State
CHECK_DEADLOCK FALSE
INVARIANT LocalIsSafe
