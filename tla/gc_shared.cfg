SPECIFICATION Spec
CONSTANTS
  Procs = {p1}
  NoProc = NoProc
  p1 = p1
  p2 = p2
  Objects = {"t1", "t2", "s", "f1", "f2"}
  Trees = {"t1", "t2", "s"}
  Children <- Shared
  Jobs <- SharedJobs
  Ttl = 2
  GcInterval = 1
  TouchInterval = 1
  MaxTime = 4
  Word = 16
  Races = {"kill", "fail"}
CHECK_DEADLOCK FALSE
INVARIANTS RootsWhole
PROPERTIES SweptClean UsedRootsKept GcRate RootSpec
