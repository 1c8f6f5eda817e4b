CONSTANTS
  Base = 1
  Limit = 4
  Pure = TRUE
  Width = 1
  Requests = {"bounds"}
  MaxPending = 0
  Programs <- Settling
SPECIFICATION FairHistorySpec
INVARIANT CodeIsInstruction
INVARIANT Explored
PROPERTY FunctionsStandAlone
PROPERTY Terminates
CHECK_DEADLOCK FALSE
