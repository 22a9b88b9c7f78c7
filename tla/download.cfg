SPECIFICATION Spec
CONSTANTS
  d1 = d1  d2 = d2  d3 = d3  d4 = d4
  Load = {d1, d2, d3, d4}
  Remote = {d1, d2, d3}
  NSlots = 3
  Hasty = FALSE
  Nil = Nil
SYMMETRY RemoteSymmetry
INVARIANTS OwnSlot Owned
PROPERTIES StaysShown
CHECK_DEADLOCK FALSE
