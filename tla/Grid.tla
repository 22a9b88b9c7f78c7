-------------------------------- MODULE Grid --------------------------------
(***************************************************************************)
(* The grid of a table while its rows and cells come (src/src/Table.c:     *)
(* table_row(), table_cell(), table_finish()).                             *)
(*                                                                         *)
(* Each row is a list of cells, and a cell is linked to the one below it.  *)
(* Here a row is a sequence, and the cell below has the same place in the  *)
(* next row: what the debug code of table_finish() (BOINK, PLONK) would    *)
(* check is that all these lists have the same length, Rectangular here.   *)
(*                                                                         *)
(* A place that another cell extends to has a dummy, with a reference to   *)
(* that cell or to another dummy of it.  The RowSpan of a cell of n rows   *)
(* is n, that of the dummies below it 2 - n, 3 - n, .., 0.                 *)
(***************************************************************************)
EXTENDS Integers, Sequences, FiniteSets, SequencesExt

ALL == 32000         \* RowSpan of a cell that reaches to the last row

\* new_cell(); box is the box for the contents, 0 for a cell without.
NewCell == [box |-> 0, DummyFor |-> <<>>, ColSpan |-> 1, RowSpan |-> 1]

\* table_start().  working is WorkRow # NULL, WorkCell the column of the cell
\* (0 is NULL), and overlap says that the author let two cells overlap.
NoRows == [rows |-> <<>>, NumRows |-> 0, NumCols |-> 0, working |-> FALSE,
           NumCells |-> 0, WorkCell |-> 0, overlap |-> FALSE]

\* The row that PrevRow points to, 0 for NULL.
PrevRow(g) == IF g.working THEN Len(g.rows) - 1 ELSE Len(g.rows)

-----------------------------------------------------------------------------
(***************************************************************************)
(* table_row(): the row before ends.  One without cells is dropped, or     *)
(* used for the new row, and the cells that reach into it get shorter.     *)
(***************************************************************************)
Shorter(rows, last, c) ==
  LET cell == rows[last][c]
      top  == cell.DummyFor
  IN  IF cell.RowSpan > 1
      THEN [rows EXCEPT ![last][c].RowSpan = @ - 1]
      ELSE IF cell.RowSpan < 0 /\ top # <<>>
      THEN [r \in DOMAIN rows |->
              IF r = top[1]
              THEN [rows[r] EXCEPT ![top[2]].RowSpan = @ - 1]
              ELSE IF r > top[1] /\ r <= last
              THEN [rows[r] EXCEPT ![top[2]].RowSpan = @ + 1]
              ELSE rows[r]]
      ELSE rows

Shortened(rows, last) ==
  IF last = 0 THEN rows
  ELSE FoldLeft(LAMBDA rs, c : Shorter(rs, last, c), rows,
                [c \in DOMAIN rows[last] |-> c])

RowEnds(g, begin) ==
  IF ~g.working THEN g
  ELSE IF g.NumCells > 0 THEN [g EXCEPT !.working = FALSE, !.NumCells = 0]
  ELSE LET rows == Shortened(g.rows, PrevRow(g))
       IN  IF begin THEN [g EXCEPT !.rows = rows]
           ELSE [g EXCEPT !.rows = SubSeq(rows, 1, Len(rows) - 1),
                          !.NumRows = IF PrevRow(g) > 0 THEN @ - 1 ELSE 0,
                          !.working = FALSE]

TableRow(g, begin) ==
  LET ended == RowEnds(g, begin)
  IN  IF ~begin \/ ended.working THEN ended
      ELSE [ended EXCEPT !.rows = Append(@, <<>>), !.NumRows = @ + 1,
                         !.working = TRUE]

-----------------------------------------------------------------------------
(***************************************************************************)
(* table_cell(): a cell of rs rows and cs columns, 0 means all of them.    *)
(***************************************************************************)
\* Mutant: a cell that extends to the last row but one is continued.
BelowLonger(cell, r, c) ==
  IF cell.RowSpan > 1
  THEN [NewCell EXCEPT !.DummyFor = <<r, c>>, !.RowSpan = 2 - cell.RowSpan,
                       !.ColSpan = cell.ColSpan]
  ELSE IF cell.RowSpan <= 0
  THEN [NewCell EXCEPT !.DummyFor = cell.DummyFor, !.RowSpan = 1 + cell.RowSpan,
                       !.ColSpan = cell.ColSpan]
  ELSE NewCell

\* The first cell of a row: the row gets a cell for each of the row above.
Below(cell, r, c) ==
  IF cell.RowSpan > 1
  THEN [NewCell EXCEPT !.DummyFor = <<r, c>>, !.RowSpan = 2 - cell.RowSpan,
                       !.ColSpan = cell.ColSpan]
  ELSE IF cell.RowSpan < 0
  THEN [NewCell EXCEPT !.DummyFor = cell.DummyFor, !.RowSpan = 1 + cell.RowSpan,
                       !.ColSpan = cell.ColSpan]
  ELSE NewCell

Copied(rows, r) == [c \in DOMAIN rows[r] |-> Below(rows[r][c], r, c)]

\* The row is filled up to column n.
Padded(row, n) == [c \in 1 .. n |-> IF c \in DOMAIN row THEN row[c] ELSE NewCell]

Longer(row, n) == IF n > Len(row) THEN Padded(row, n) ELSE row

\* The place of the new cell: the next one that has no dummy.
Place(row, from) ==
  CHOOSE c \in from .. Len(row) + 1 :
    /\ c > Len(row) \/ row[c].DummyFor = <<>>
    /\ \A d \in from .. c - 1 : row[d].DummyFor # <<>>

\* The dummies to the right of a cell with cs columns
Spread(row, r, c, cs) ==
  [d \in DOMAIN row |->
     IF d \notin c + 1 .. c + cs - 1 THEN row[d]
     ELSE IF row[d].DummyFor # <<>>
     THEN [row[d] EXCEPT !.RowSpan = row[c].RowSpan]
     ELSE [row[d] EXCEPT !.RowSpan = row[c].RowSpan, !.DummyFor = <<r, c>>,
                         !.ColSpan = 1 - cs + d - c]]

\* Each row gets as many cells as the longest one.
Expanded(rows, n) == [r \in DOMAIN rows |-> Longer(rows[r], n)]

\* The working row before the cell comes, and the first place to look at
WorkRow(g) ==
  LET r == Len(g.rows)
  IN  IF g.NumCells > 0 THEN g.rows[r]
      ELSE IF r > 1 THEN Copied(g.rows, r - 1) ELSE <<>>

From(g) == IF g.NumCells = 0 THEN 1 ELSE g.WorkCell + 1

\* The cell is in column c of row, which ends at column n for all it knows.
SetCell(g, row, c, cell, n) ==
  LET r    == Len(g.rows)
      cols == IF r = 1 \/ g.NumCols < n THEN n ELSE g.NumCols
  IN  [g EXCEPT !.rows = Expanded([@ EXCEPT ![r] = Spread(row, r, c, cell.ColSpan)],
                                  cols),
                !.NumCols = cols, !.WorkCell = c, !.NumCells = n - cell.ColSpan + 1,
                !.overlap = @ \/ \E d \in c + 1 .. c + cell.ColSpan - 1 :
                                   row[d].DummyFor # <<>>]

PutCell(g, row, c, cell) ==
  SetCell(g, [Longer(row, c + cell.ColSpan - 1) EXCEPT ![c] = cell], c, cell,
          g.NumCells + (c - From(g)) + cell.ColSpan)

Cell(g, box, rs, cs) ==
  LET span == IF cs = 0 THEN g.NumCols ELSE cs
  IN  [box |-> box, DummyFor |-> <<>>, ColSpan |-> IF span > 1 THEN span ELSE 1,
       RowSpan |-> IF rs = 0 THEN ALL ELSE rs]

AddCell(g, box, rs, cs) ==
  PutCell(g, WorkRow(g), Place(WorkRow(g), From(g)), Cell(g, box, rs, cs))

TableCell(g, box, rs, cs) ==
  AddCell(IF g.working THEN g ELSE TableRow(g, TRUE), box, rs, cs)

-----------------------------------------------------------------------------
(***************************************************************************)
(* table_finish(): no cell reaches below the last row.                     *)
(***************************************************************************)
AdjustColumn(rows, r, c, left) ==
  IF rows[r][c].RowSpan <= left THEN rows
  ELSE [k \in DOMAIN rows |->
          IF k = r THEN [rows[k] EXCEPT ![c].RowSpan = left]
          ELSE IF k \in r + 1 .. r + left - 1
          THEN [rows[k] EXCEPT ![c].RowSpan = 1 + (k - r) - left]
          ELSE rows[k]]

\* adjust_rowspans(), for row r of which, with itself, left rows remain
AdjustRowspans(rows, r, left) ==
  FoldLeft(LAMBDA rs, c : AdjustColumn(rs, r, c, left), rows,
           [c \in DOMAIN rows[r] |-> c])

TableFinish(g) ==
  LET ended == TableRow(g, FALSE)
  IN  IF ended.rows = <<>> \/ ended.NumCols = 0 THEN ended
      ELSE [ended EXCEPT
              !.rows = FoldLeft(LAMBDA rs, r :
                                  AdjustRowspans(rs, r, ended.NumRows - r + 1),
                                @, [r \in DOMAIN @ |-> r])]

-----------------------------------------------------------------------------
(***************************************************************************)
(* What a grid should be.                                                  *)
(***************************************************************************)
Places(g) == {<<r, c>> : r \in DOMAIN g.rows, c \in 1 .. g.NumCols}

\* Every row that has cells has one in each column, and the rows are counted.
Rectangular(g) ==
  /\ g.NumRows = Len(g.rows)
  /\ \A r \in DOMAIN g.rows :
       Len(g.rows[r]) = g.NumCols
         \/ (g.working /\ g.NumCells = 0 /\ r = Len(g.rows) /\ g.rows[r] = <<>>)

\* The cell that a place belongs to, over one dummy or two
RECURSIVE CellAt(_, _)
CellAt(g, p) ==
  LET d == g.rows[p[1]][p[2]].DummyFor IN IF d = <<>> THEN p ELSE CellAt(g, d)

\* The places that a cell with contents extends to
Extent(g, p) ==
  LET cell == g.rows[p[1]][p[2]]
  IN  {<<r, c>> : r \in p[1] .. p[1] + cell.RowSpan - 1,
                  c \in p[2] .. p[2] + cell.ColSpan - 1}

Cells(g) == {p \in Places(g) : g.rows[p[1]][p[2]].box # 0}

\* Each cell lies within the grid.  Unless the author lets two cells overlap,
\* none does, and the dummies are the places that a cell extends to: they
\* refer to it.
Covered(g) ==
  /\ \A p \in Cells(g) :
       g.rows[p[1]][p[2]].DummyFor = <<>> /\ Extent(g, p) \subseteq Places(g)
  /\ ~g.overlap =>
       \A p \in Cells(g), q \in Places(g) : q \in Extent(g, p) <=> CellAt(g, q) = p
=============================================================================
