SPECIFICATION FairSpec
CONSTANTS
  Threads = {"t1", "t2", "u"}
  NoThread = NoThread
  ProcOf <- Eval
  Paths = {"a", "b", "c"}
  Object <- SharedObject
  MaxCalls = 3
  Faults = {"fail", "kill", "power"}
CHECK_DEADLOCK FALSE
INVARIANTS TypeOK RecordsRooted
PROPERTIES RecordsKept EveryCallReturns
