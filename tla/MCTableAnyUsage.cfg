\* Clients that create columns late, declare a second primary column and load
\* after an index was built.
SPECIFICATION Spec
CONSTANTS
  MinData = 0
  MaxData = 1
  MaxCols = 2
  MaxRows = 3
  MaxBatch = 2
  Usage <- AnyUsage
INVARIANTS
  PrimarySorted
  LateColumnsBehind
  IndexInBounds
