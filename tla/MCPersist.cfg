SPECIFICATION Spec
CONSTANTS
  DbNames = {"db", "inventory"}
  TblNames = {"t"}
  ColNames = {"c", "d"}
  Values = {0, 1}
  MaxRows = 1
  ToAllocate = 2
  Unwritable <- LongPaths
  MaxCommands = 7
INVARIANTS
  TypeOK
  Allocated
  WholeStore
  Startable
PROPERTIES
  SaveEnds
  RefinesArchive
