CONSTANTS
  crypto = crypto
  jwt = jwt
  tle = tle
  citus = citus
  check = check
  drift = drift
  raw = raw
  plpgsql = plpgsql
  ssl = ssl
  icu = icu
  Names <- AllNames
  Extns <- Described
  Entry <- Database
  Lists <- RunLists
  MaxRuns = 2
  CampaignLists <- ShortLists
  MaxEnded = 4
  ExtnsList <- MCExtns
  Sources <- MCSources
  FileLen = 4
  MaxErrs = 2
  a = a
  b = b
  c = c
  d = d
SPECIFICATION CampaignOnlySpec
CHECK_DEADLOCK FALSE
PROPERTIES
  LooksLikePairwise
