SPECIFICATION DataSpec
CONSTANTS
  TidSize = 1
  LowestSize = 1
  PageSize = 15
  UpperFull = 9
  MaxPosting = 4
  Null = Null
CONSTANTS
  KeySize <- Sizes
  Builds <- SomeBuilds
INVARIANTS
  TreeSound
  ComparisonsAgree
  SortedByAllKeys
  ListsKept
  VectorKept
  WalkInOrder
  QueryUnderstood
  CatalogKept
  RegexKept
  ScannerKept
CHECK_DEADLOCK FALSE
