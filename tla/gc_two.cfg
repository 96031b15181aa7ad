SPECIFICATION Spec
CONSTANTS
  Procs = {p1, p2}
  NoProc = NoProc
  p1 = p1
  p2 = p2
  Objects = {"t1", "f1", "f2"}
  Trees = {"t1"}
  Children <- OneTree
  Jobs <- FlatJobs
  Ttl = 1
  GcInterval = 0
  TouchInterval = 1
  MaxTime = 2
  Word = 16
  Races = {"gcInBatch", "twoGcs", "rot", "kill"}
CHECK_DEADLOCK FALSE
INVARIANTS TypeOK RootsWhole
PROPERTIES RootSpec
