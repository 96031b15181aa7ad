SPECIFICATION FairSpec
CONSTANTS
  Archives <- SmallArchives
  MaxItems = 2
  MaxBytes = 2
  MaxLength = 4
  Sizes = {0, 1, 3}
INVARIANTS MemoryBounded
PROPERTIES SequentialSpec Terminates
CHECK_DEADLOCK FALSE
