CONSTANTS
  Base = 1
  Limit = 4
  Pure = TRUE
  Width = 1
  Requests = {"bounds", "enqueue", "user", "sweep", "label", "data", "function"}
  MaxPending = 1
  Programs <- Samples
SPECIFICATION WorkingSpec
INVARIANT LinksHaveBothEnds
CHECK_DEADLOCK FALSE
