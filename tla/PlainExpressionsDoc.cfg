SPECIFICATION ExpressionsSpec
CONSTANTS
  TidSize = 1
  LowestSize = 1
  PageSize = 15
  UpperFull = 9
  MaxPosting = 4
  Null = Null
CONSTANTS
  KeySize <- Sizes
  Builds <- SomeBuilds
INVARIANT
  PlainExpressions
CHECK_DEADLOCK FALSE
