SPECIFICATION Spec
CONSTANTS
  NodeSize = 4
  MinData = 0
  MaxData = 2
  MaxRecords = 10
INVARIANTS
  TypeOK
  SearchTree
  Balanced
  Chained
  SelectExact
PROPERTY
  RefinesOrderedIndex
