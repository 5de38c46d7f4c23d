\* Two clients with three commands between them, one of which may have text after
\* its end.  Each of the clients and the server may be killed.  Clients may all
\* have ended, so behaviours may stop.
SPECIFICATION Spec
CONSTANTS
  Clients = {c1, c2}
  MaxCommands = 3
  Rows = 2
  Usage <- Killed
INVARIANTS
  TypeOK
  InStep
  SavedWhole
  LedgerKept
PROPERTY
  Answered
CHECK_DEADLOCK FALSE
