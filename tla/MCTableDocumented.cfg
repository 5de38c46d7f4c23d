\* Clients that keep to the order of commands of the project's scripts.
SPECIFICATION Spec
CONSTANTS
  MinData = 0
  MaxData = 1
  MaxCols = 2
  MaxRows = 3
  MaxBatch = 2
  Usage <- Documented
INVARIANTS
  TypeOK
  Aligned
  RowIntegrity
  RowsComplete
  PrimarySorted
  IndexFresh
  QuerySound
PROPERTY
  RefinesRowStore
