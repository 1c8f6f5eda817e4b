CONSTANTS
  Segments <- Neighbours
  Top = 11
  Width = 2
  Radix = 4
  Images <- Fitting
  Requests <- Various
  MaxRequests = 2
SPECIFICATION WorkingSpec
INVARIANT NoAddressTwice
INVARIANT PointersLead
PROPERTY CallerRefers
PROPERTY Terminates
CHECK_DEADLOCK FALSE
