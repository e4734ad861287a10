CONSTANTS
  FileLen = 5
  MaxErrs = 2
SPECIFICATION CpdSpec
CHECK_DEADLOCK FALSE
INVARIANTS
  PostgresCountExact
