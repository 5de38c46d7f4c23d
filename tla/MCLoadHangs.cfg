\* One client whose file has no newline at its end.
SPECIFICATION Spec
CONSTANTS
  Clients = {c1}
  MaxCommands = 1
  Rows = 2
  Usage <- OpenEnd
PROPERTY
  Answered
CHECK_DEADLOCK FALSE
