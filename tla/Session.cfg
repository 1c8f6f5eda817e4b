CONSTANTS
  c1 = c1
  c2 = c2
  Contexts <- Both
  Listings <- Lists
  Library <- LibraryOf
  Entries <- RegisteredBy
  Bare = {"Other"}
  Builtins <- Own
  Verdicts <- Answers
  Asked = {"x86", "pe", "dump", "none"}
  Order <- Orders
  Once = {"strings", "names"}
  Preselected = {"functions", "names"}
  MaxCalls = 6
SPECIFICATION SessionSpec
INVARIANT LibrariesCounted
INVARIANT EntriesCallable
INVARIANT OffersBind
INVARIANT AnalyzersAsWanted
SYMMETRY Same
CHECK_DEADLOCK FALSE
