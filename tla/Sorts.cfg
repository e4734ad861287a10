SPECIFICATION SortsSpec
CONSTANTS
  Keys = {1, 2, 3}
  SlotMem = 1
  TupleMem = 3
  InitialSize = 2
  TapeOverhead = 3
  MergeBuffer = 1
  MinOrder = 2
  MaxOrder = 3
  AbbrevFirst = 2
  Skips = {0, 2}
  Calls <- SomeCalls
  Workers = {w1, w2}
  Leader = leader
  Tuples = {1, 2}
  Value <- Values
  Tables <- SomeTables
INVARIANTS
  TuplesKept
  MemoryKept
  IdentifiersGapless
  TapesFinishedWhenTaken
  EveryTupleLoaded
PROPERTIES
  CursorSpec
  BuildEnds
CHECK_DEADLOCK FALSE
