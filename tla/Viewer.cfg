CONSTANTS
  Documents <- AllDocuments
  Addresses <- AllAddresses
  Sizes <- AllSizes
  Ranges <- AllRanges
  Rows <- AllRows
  Turns <- AllTurns
  FlagSets <- AllFlagSets
  MaxCalls = 5
SPECIFICATION Spec
INVARIANT RowsFollowDocument
INVARIANT CursorOnCurrent
INVARIANT PathsCurrent
PROPERTY RowsStay
PROPERTY BackAndForth
CHECK_DEADLOCK FALSE
