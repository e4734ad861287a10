CONSTANTS
  crypto = crypto
  jwt = jwt
  tle = tle
  citus = citus
  check = check
  drift = drift
  raw = raw
  plpgsql = plpgsql
  ssl = ssl
  icu = icu
  Names <- AllNames
  Extns <- Described
  Entry <- Database
  DirName <- InjectiveName
  Mode = "pairwise"
  FileExtns <- ThreeExtns
  Pairs <- ThreeExtnsPairs
  ExitFlag = FALSE
  MaxRuns = 2
SPECIFICATION Spec
INVARIANTS
  ServesCurrentPair
  BuiltForPair
  BenchHasOnlyPairExtns
  EvidenceKept
PROPERTIES
  TrueMeansPreloaded
  CampaignSpec
CONSTRAINT
  OldReportAllTrue
