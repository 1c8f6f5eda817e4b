CONSTANTS
  Base = 1
  Limit = 4
  Pure = TRUE
  Width = 1
  Requests = {}
  MaxPending = 0
  Programs <- JumpPair
SPECIFICATION Spec
PROPERTY Terminates
CHECK_DEADLOCK FALSE
