SPECIFICATION Spec
CONSTANTS
  PageSize = 2
  HashTableSize = 2
  MinData <- LeastInt
  MaxData = 3
  Rows <- QueryRows
  MaxRows = 3
  MaxVars = 4
  MaxSums = 1
  Null = NULL
  Ranges <- QueryRanges
INVARIANTS
  TypeOK
  ChainsExact
  AggregatesExact
  NestedJoinExact
  HashJoinExact
