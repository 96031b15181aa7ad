SPECIFICATION FairSpec
CONSTANTS
  Procs = {"p", "q"}
  MaxVersion = 1
  MaxFaults = 1
  Faults = {"rot","kill"}

PROPERTY CacheHeals
