\* An insert into a table whose column has an index.
SPECIFICATION Spec
CONSTANTS
  MinData = 0
  MaxData = 1
  MaxCols = 2
  MaxRows = 2
  MaxBatch = 2
  Usage <- Documented
PROPERTY
  InsertKeepsServer
