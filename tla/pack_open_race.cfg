SPECIFICATION Spec
CONSTANTS
  Procs = {p1, p2}
  Writers = {p1}
  Compactors = {p1}
  Readers = {}
  Blobs = {b1}
  AutoSync = 2
  MaxRetries = 2
  MaxGen = 1
  MaxFiles = 4
  MaxCells = 2
  Faults = {"openRace"}
  Torn = Torn
  NoProc = NoProc
  b1 = b1
  p1 = p1
  p2 = p2
SYMMETRY Symmetry
VIEW View
INVARIANTS IndexSound
CHECK_DEADLOCK FALSE
