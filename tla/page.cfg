SPECIFICATION Spec
CONSTANTS
  A = A  B = B  about = about  a = a  a2 = a2  b = b  c = c  d = d
  Cont = {c, d}
  Doc = {A, B, about}
  Img = {a, a2, b}
  DocOf <- MCDocOf
  Nil = Nil
  Intern = {about}
  Sheets = {"net"}
  ReloadBusy = FALSE
  MaxParked = 1
SYMMETRY MCSymmetry
INVARIANTS Balanced Live LayoutOwed
CHECK_DEADLOCK FALSE
