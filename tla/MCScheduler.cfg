\* Two selects at a time on the columns of a table of up to three rows, in
\* blocks of two elements.
SPECIFICATION Spec
CONSTANTS
  Cols = {c1, c2}
  Primary = {c2}
  Names = {s1, s2}
  MinData = 0
  MaxData = 1
  Ranges <- SomeRanges
  MinLen = 1
  MaxLen = 3
  Block = 2
  MaxIndexed = 2
  MaxNodes = 2
  MaxPool = 2
INVARIANTS
  TypeOK
  OneWriter
  NoOrphanThread
  BlocksExact
  ResultsAreVectors
PROPERTIES
  ExecuteReturns
  RefinesBatchSelect
