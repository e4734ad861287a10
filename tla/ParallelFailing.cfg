CONSTANTS
  crypto = crypto
  jwt = jwt
  tle = tle
  citus = citus
  check = check
  drift = drift
  raw = raw
  plpgsql = plpgsql
  ssl = ssl
  icu = icu
  Names <- AllNames
  Extns <- Described
  Entry <- Database
  DirName <- InjectiveName
  Mode = "parallel"
  FileExtns <- FailingExtns
  Pairs <- FailingList
  ExitFlag = TRUE
  MaxRuns = 2
SPECIFICATION FairSpec
INVARIANTS
  IsolatedPair
PROPERTIES
  ExitFlagStopsAtSuite
  EveryRunEnds
