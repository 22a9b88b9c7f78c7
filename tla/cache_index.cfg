SPECIFICATION Spec
CONSTANTS
  Hosts = 2
  Addr = {p1, p2, p3}
  MaxLines = 3
  Nil = Nil
INVARIANTS RoundTrip
