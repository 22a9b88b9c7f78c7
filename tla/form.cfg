SPECIFICATION FormSpec
CONSTANTS
  Space = "_"
  Chars <- MCChars
  Inputs <- MCInputs
  Documents <- MCDocuments
  Within = {"h"}
  Paths = {"p", "q"}
  Strays = FALSE
  Again = FALSE
  PTR = 2
  GROW = 3
  VisibleX = 2
  VisibleY = 2
  MaxText = 5
INVARIANTS Field Controls
PROPERTIES Refines Submitted
CHECK_DEADLOCK FALSE
