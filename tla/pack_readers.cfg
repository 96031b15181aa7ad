SPECIFICATION Spec
CONSTANTS
  Procs = {p1, p2, p3}
  Writers = {p1}
  Compactors = {p1}
  Readers = {p2}
  Blobs = {b1}
  AutoSync = 2
  MaxRetries = 2
  MaxGen = 3
  MaxFiles = 5
  MaxCells = 1
  Faults = {"kill", "killSwitch"}
  Torn = Torn
  NoProc = NoProc
  b1 = b1
  p1 = p1
  p2 = p2
  p3 = p3
SYMMETRY Symmetry
VIEW View
INVARIANTS ReaderSound 
PROPERTIES StoreSpec
CHECK_DEADLOCK FALSE
