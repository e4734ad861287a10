CONSTANTS
  Tables <- MCTables
  Columns <- MCColumns
  Queries <- MCQueries
  OuterNames <- MCOuterNames
  NewNames <- MCNewNames
  NewRelNames <- MCNewRelNames
  MaxAlters = 2
  NoRow = NoRow
SPECIFICATION QueriesSpec
CHECK_DEADLOCK FALSE
INVARIANTS
  NamesUnambiguous
  FromReadsBack
  JoinFound
  PathsAgree
  TextReadsBack
  ReferencesRead
