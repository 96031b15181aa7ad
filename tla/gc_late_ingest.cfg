SPECIFICATION Spec
CONSTANTS
  Procs = {p1, p2}
  NoProc = NoProc
  p1 = p1
  p2 = p2
  Objects = {"t1", "f1"}
  Trees = {"t1"}
  Children <- OneTree
  Jobs <- OneJob
  Ttl = 2
  GcInterval = 1
  TouchInterval = 1
  MaxTime = 4
  Word = 16
  Races = {"ingestInGc"}
CHECK_DEADLOCK FALSE
INVARIANTS RootsWhole
