CONSTANTS
  Tables <- MCTables
  Columns <- MCColumns
  Queries <- MCQueries
  OuterNames <- MCOuterNames
  NewNames <- MCNewNames
  NewRelNames <- MCNewRelNames
  MaxAlters = 2
  NoRow = NoRow
SPECIFICATION SublinkSpec
CHECK_DEADLOCK FALSE
INVARIANT
  OperandsEmbraced
