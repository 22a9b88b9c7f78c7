SPECIFICATION Spec
CONSTANTS
  h1 = h1  h2 = h2  dom = dom  a = a  n1 = n1  n2 = n2
  Host = {h1, h2}
  Domain = {dom}
  Members <- MCMembers
  Paths <- MCPaths
  Name = {n1, n2}
  JarSize = 2
  SetSize = 2
  MaxValue = 2
  MaxTime = 2
  Expiries = {0, 2}
  Contents <- MCContents
  MaxSets = 3
  Refusable = {h1, h2}
  Careless = {}
  Nil = Nil
SYMMETRY Alike
INVARIANTS Jars Sent Stored
