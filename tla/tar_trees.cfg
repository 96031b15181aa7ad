SPECIFICATION Spec
CONSTANTS
  LongNames = {"long"}
  MaxTreeDepth = 2
  Items <- AnItem
  MaxItems = 3
  NameOrder <- NameSeq
  Queries <- APath
INVARIANTS LastEntryWins StoreClosed FindSound NarIsTree DumpReaches
CHECK_DEADLOCK FALSE
