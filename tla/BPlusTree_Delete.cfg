SPECIFICATION TSpec
CONSTANTS
  Rows <- MCUniqueRows
  LeafOrder = 2
  InternalOrder = 3
  MaxNodes = 8
  AtSeparator = TRUE
  RightLends = TRUE
INVARIANT
  PointQueriesExact
