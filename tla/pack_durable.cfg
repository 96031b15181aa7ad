SPECIFICATION Spec
CONSTANTS
  Procs = {p1, p2}
  Writers = {p1, p2}
  Compactors = {p1, p2}
  Readers = {}
  Blobs = {b1, b2}
  AutoSync = 2
  MaxRetries = 2
  MaxGen = 1
  MaxFiles = 3
  MaxCells = 2
  Faults = {"kill", "abandon", "mapRace", "power", "shortWrite", "syncError"}
  Torn = Torn
  NoProc = NoProc
  b1 = b1
  b2 = b2
  p1 = p1
  p2 = p2
SYMMETRY Symmetry
VIEW View
INVARIANTS IndexSound DurableSound
PROPERTIES StoreSpec BlobsSurvive
CHECK_DEADLOCK FALSE
