SPECIFICATION Spec
CONSTANTS
  Base = 1
  Limit = 5
  Infos = {0, 1}
  MinSize = 1
INVARIANT Partition
PROPERTIES ItemsAsMarked MapSpec
