\* The upper bound of a select, on every access path.
SPECIFICATION Spec
CONSTANTS
  MinData = 0
  MaxData = 1
  MaxCols = 2
  MaxRows = 2
  MaxBatch = 2
  Usage <- Documented
INVARIANT
  SelectHalfOpen
