SPECIFICATION Spec
CONSTANTS
  Procs = {p1, p2}
  Writers = {p1, p2}
  Compactors = {p2}
  Readers = {p1}
  Blobs = {b1}
  AutoSync = 2
  MaxRetries = 1
  MaxGen = 1
  MaxFiles = 4
  MaxCells = 1
  Faults = {"kill", "killSwitch", "shortWrite", "abandon", "power", "syncError", "openRace", "mapRace", "switchError"}
  Torn = Torn
  NoProc = NoProc
  b1 = b1
  p1 = p1
  p2 = p2
SYMMETRY Symmetry
VIEW View
INVARIANTS TypeOK OneWriter WriterOnCurrent
CHECK_DEADLOCK FALSE
