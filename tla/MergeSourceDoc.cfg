CONSTANTS
  Tables <- MCTables
  Columns <- MCColumns
  Queries <- MCQueries
  OuterNames <- MCOuterNames
  NewNames <- MCNewNames
  NewRelNames <- MCNewRelNames
  MaxAlters = 2
  NoRow = NoRow
SPECIFICATION MergeSpec
CHECK_DEADLOCK FALSE
INVARIANT
  SourceReferencesRead
