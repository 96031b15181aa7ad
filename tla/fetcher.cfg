SPECIFICATION FairSpec
CONSTANTS
  Procs = {"p", "q"}
  MaxVersion = 2
  MaxFaults = 1
  Faults = {"rot", "network", "kill", "power", "pass"}
INVARIANTS TypeOK   EntryRooted
PROPERTY Heals
