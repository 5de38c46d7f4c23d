\* A shared scan over a column without elements.
SPECIFICATION Spec
CONSTANTS
  Cols = {c1}
  Primary = {}
  Names = {s1}
  MinData = 0
  MaxData = 1
  Ranges <- SomeRanges
  MinLen = 0
  MaxLen = 1
  Block = 2
  MaxIndexed = 1
  MaxNodes = 1
  MaxPool = 1
INVARIANT
  ResultsAreVectors
