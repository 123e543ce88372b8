CONSTANTS
  Texts <- SmallTexts
  Buckets = {1, 2}
  Hash <- SmallHash
  ReadLists <- SmallReads
  RestoreTo = {20, 30}
  MaxNested = 2
  MaxGiven = 4
SPECIFICATION DataSpec
CHECK_DEADLOCK FALSE
INVARIANTS DataTypeOK LinesAreNumbered LinksFollowTheText DataInLineOrder FreedOnce ItemsInOrder
