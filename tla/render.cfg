SPECIFICATION Spec
CONSTANTS
  GroupTags = {"DIV", "CENTER", "BLOCKQUOTE"}
  ListTags = {"UL", "OL"}
  Shapes <- MCShapes
  Stray = FALSE
  Nodes = 8
  DeepNodes = 10
  Texts = 2
  RowCount = 3
  CellCount = 4
INVARIANTS Nested Ordered Grids
CHECK_DEADLOCK FALSE
