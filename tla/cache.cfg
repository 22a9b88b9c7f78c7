SPECIFICATION Spec
CONSTANTS
  a = a  b = b
  Loc = {a, b}
  MaxItems = 3
  MaxFid = 2
  MaxHeld = 1
  Idents = {1}
  LocalId = 2
  Sizes = {1}
  Dates <- MCDates
  MemMax = 2
  DskMax = 2
  DskLim = 2
  Nil = Nil
CONSTRAINT Small
SYMMETRY Symmetry
INVARIANTS Counters Files
PROPERTIES InUseStays LeastRecentlyUsed Reservations
CHECK_DEADLOCK FALSE
