CONSTANTS
  Addrs <- A
  Mapped <- Inside
  Prefixes <- Used
  Chosen <- Handed
  Mangled <- Demangling
  Types <- AllTypes
  Leads <- Pointing
  Looks <- Contents
  FlagSets <- Sets
  MaxCalls = 3
SPECIFICATION Spec
INVARIANT EveryNameFound
INVARIANT IndexAgrees
PROPERTY RenameIsUnique
PROPERTY EntryKeepsName
CHECK_DEADLOCK FALSE
