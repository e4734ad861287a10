SPECIFICATION DocumentsSpec
CONSTANTS
  TidSize = 1
  LowestSize = 1
  PageSize = 15
  UpperFull = 9
  MaxPosting = 4
  Null = Null
CONSTANTS
  KeySize <- Sizes
  Builds <- SomeBuilds
INVARIANT
  HigherWeightRetained
CHECK_DEADLOCK FALSE
