SPECIFICATION HistorySpec
CONSTANTS
  HistoryLast = 1
  Doc = {"text", "list", "index", "zip"}
  Frames <- MCFrames
  Outside = {"zip"}
  Absent = Absent
  Bare = Bare
  Careless = {}
  Long = {"text"}
  MaxLoads = 2
  MaxVisits = 4
  MaxFails = 1
INVARIANTS Entries InHistory
PROPERTIES Remembers RefinesBrowsing
CHECK_DEADLOCK FALSE
