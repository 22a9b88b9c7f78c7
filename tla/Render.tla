------------------------------- MODULE Render -------------------------------
(***************************************************************************)
(* How the tags of a page become a tree of boxes (src/src/render.c, with   *)
(* list.c, Table.c, Paragrph.c and the links between boxes in DomBox.c).   *)
(*                                                                         *)
(* The parser reads a tag at a time and appends to the tree.  What is open *)
(* is known from the current box, a stack of lists and a stack of tables;  *)
(* each table saves where the text around it goes on, and within its cells *)
(* text starts anew.  Nothing of this looks ahead, and the author may      *)
(* leave out or misplace any end tag.                                      *)
(*                                                                         *)
(* A node is a box or a paragraph, its identity its place in tree; node 1  *)
(* is the page.  The words of a paragraph are numbers in the order of the  *)
(* text, 0 for the marker of a list item.  Fonts, colours, sizes and forms *)
(* are left out, and memory suffices.                                      *)
(***************************************************************************)
EXTENDS Grid

CONSTANTS
  GroupTags,    \* of DIV, BLOCKQUOTE, CENTER
  ListTags,     \* of UL, OL, MENU, DIR, DL
  Shapes,       \* what the documents of a run may have, see TypeOK
  Stray         \* blocks begin and end between <table> and the first cell

VARIABLES
  tree,         \* the boxes and paragraphs
  cur,          \* parser->Current: box is parentbox; the first k words of par
                \* are complete, so prev_wrd # NULL is k > 0; prev is prev_par;
                \* lst has the types of open lists, tbl the open tables
  text,         \* pieces of text so far (ghost: numbers the words)
  lost,         \* those of them in tables without any cell (ghost)
  pc,           \* parse, finish (frame_finish), done; hang: in an endless loop
  shape         \* the kind of this document

vars == <<tree, cur, text, lost, pc, shape>>

Node(tag, parent) == [tag |-> tag, parent |-> parent, kids |-> <<>>,
                      words |-> <<>>, grid |-> NoRows]

-----------------------------------------------------------------------------
(***************************************************************************)
(* The tree: dombox_ctor(), dombox_adopt(), dombox_reorder(), Delete().    *)
(***************************************************************************)
Born(t, tag, parent) ==
  Append([t EXCEPT ![parent].kids = Append(@, Len(t) + 1)], Node(tag, parent))

Orphaned(t, n) ==
  [t EXCEPT ![t[n].parent].kids = SelectSeq(@, LAMBDA m : m # n)]

Adopted(t, box, n) ==
  [Orphaned(t, n) EXCEPT ![box].kids = Append(@, n), ![n].parent = box]

\* Mutant: the paragraph stays where it is.
ReorderedNot(t, n, behind) == t

\* An error is printed if the parents differ, and nothing done.
Reordered(t, n, behind) ==
  IF t[n].parent # t[behind].parent THEN t
  ELSE LET alone == Orphaned(t, n)
           box   == t[n].parent
       IN  [alone EXCEPT ![box].kids =
              InsertAt(@, 1 + CHOOSE i \in DOMAIN @ : @[i] = behind, n)]

-----------------------------------------------------------------------------
(***************************************************************************)
(* Paragraphs and boxes.  A document d has the fields tree and cur.        *)
(***************************************************************************)
NewParagraph(d) ==
  [tree |-> Born(d.tree, "P", d.cur.box),
   cur  |-> [d.cur EXCEPT !.par = Len(d.tree) + 1, !.k = 0, !.prev = 0]]

\* An empty paragraph is used again.
AddParagraph(d) ==
  IF d.cur.k = 0 THEN d
  ELSE [NewParagraph(d) EXCEPT !.cur.prev = d.cur.par]

CreateBox(d, tag) ==
  LET box == Len(d.tree) + 1
      new == AddParagraph([d EXCEPT !.tree = Born(@, tag, d.cur.box)])
  IN  [tree |-> Adopted(new.tree, box, new.cur.par),
       cur  |-> [new.cur EXCEPT !.box = box]]

\* Only the innermost box can be left.
LeaveBox(d, tag) ==
  IF d.tree[d.cur.box].tag # tag THEN d
  ELSE LET new == AddParagraph(d)
           up  == new.tree[d.cur.box].parent
       IN  [tree |-> Adopted(new.tree, up, new.cur.par),
            cur  |-> [new.cur EXCEPT !.box = up]]

-----------------------------------------------------------------------------
(***************************************************************************)
(* Lists.  list_finish() ends the innermost list, whatever the tag says,   *)
(* unless another box is open in it.                                       *)
(***************************************************************************)
ListStart(d, type) ==
  [CreateBox(d, type) EXCEPT !.cur.lst = Append(@, type)]

ListFinish(d) ==
  LET left == LeaveBox(d, Last(d.cur.lst))
  IN  IF left.cur.box = d.cur.box THEN d
      ELSE LET rest == [left EXCEPT !.cur.lst = Front(@)]
           IN  IF rest.cur.lst = <<>> THEN AddParagraph(rest) ELSE rest

\* list_marker(): the text of an item begins behind two words.
ListMarker(d) ==
  LET new == AddParagraph(d)
  IN  [new EXCEPT !.tree[new.cur.par].words = <<0, 0>>, !.cur.k = 2]

-----------------------------------------------------------------------------
(***************************************************************************)
(* paragrph_finish(): the text of a cell or of the page ends.  The loop    *)
(* over the open lists never ends if one of them cannot be finished.       *)
(***************************************************************************)
Unlisted(d) == FoldLeft(LAMBDA e, type : ListFinish(e), d, d.cur.lst)

Hangs(d) == Unlisted(d).cur.lst # <<>>

ParagrphFinish(d) ==
  LET e == Unlisted(d)
      empty == e.cur.k = 0 /\ e.cur.prev # 0
  IN  [tree |-> IF empty THEN Orphaned(e.tree, e.cur.par) ELSE e.tree,
       cur  |-> [e.cur EXCEPT !.par = 0, !.k = 0, !.prev = 0]]

-----------------------------------------------------------------------------
(***************************************************************************)
(* Tables                                                                  *)
(***************************************************************************)
Top(d)  == Last(d.cur.tbl)
Rows(d) == d.tree[Top(d).table].grid

\* Mutant: the lists around a table remain open in it.
TableStartIn(d) ==
  LET e == AddParagraph(d)
      n == Len(e.tree) + 1
  IN  [tree |-> Born(e.tree, "TABLE", e.cur.box),
       cur  |-> [e.cur EXCEPT
                   !.tbl = Append(@, [table |-> n, since |-> text, empty |-> 0, saved |-> e.cur])]]

TableStart(d) ==
  LET e == AddParagraph(d)
      n == Len(e.tree) + 1
  IN  [tree |-> Born(e.tree, "TABLE", e.cur.box),
       cur  |-> [e.cur EXCEPT !.lst = <<>>,
                   !.tbl = Append(@, [table |-> n, since |-> text, empty |-> 0, saved |-> e.cur])]]

\* For the first cell: text that stands between <table> and it belongs in
\* front of the table, and the text behind the table follows it.
KeepStray(d) ==
  LET depth == Len(d.cur.tbl)
      saved == Top(d).saved
  IN  IF <<saved.par, saved.k>> = <<d.cur.par, d.cur.k>> THEN d
      ELSE [d EXCEPT !.cur.tbl[depth].saved.par  = d.cur.par,
                     !.cur.tbl[depth].saved.k    = d.cur.k,
                     !.cur.tbl[depth].saved.prev = d.cur.prev]

BoxOfCell(d, span) ==
  LET n == Len(d.tree) + 1
  IN  [tree |-> [Born(d.tree, "TD", Top(d).table) EXCEPT
                   ![Top(d).table].grid = TableCell(@, n, span[1], span[2])],
       cur  |-> [d.cur EXCEPT !.box = n]]

CellStart(d, span) ==
  NewParagraph(BoxOfCell(IF Rows(d).NumCols = 0 THEN KeepStray(d)
                         ELSE IF Rows(d).WorkCell # 0 THEN ParagrphFinish(d)
                         ELSE d, span))

\* table_finish() and free_stack(): the text goes on behind the table.
TableEnd(d) ==
  LET e == IF Rows(d).WorkCell # 0 THEN ParagrphFinish(d) ELSE d
      f == AddParagraph(
             [tree |-> [e.tree EXCEPT ![Top(e).table].grid = TableFinish(@)],
              cur  |-> Top(e).saved])
  IN  [f EXCEPT !.tree = Reordered(@, f.cur.par, Top(d).table)]

-----------------------------------------------------------------------------
(***************************************************************************)
(* The tags of parse_html(), each as far as it changes the tree.           *)
(***************************************************************************)
doc == [tree |-> tree, cur |-> cur]

\* No cell has begun in the innermost table.
InTable == cur.tbl # <<>> /\ Rows(doc).NumCols = 0

Becomes(d) ==
  /\ tree' = d.tree
  /\ cur'  = d.cur
  /\ UNCHANGED <<pc, text, shape>>

Renders(d) == Becomes(d) /\ UNCHANGED lost

\* Blocks, unless they are misplaced, begin while there is room for more.
Placed == pc = "parse" /\ shape.groups # {} /\ (InTable => Stray)
Block  == Placed /\ Len(tree) < shape.nodes

InGroup(tag) == tag = "CENTER" => cur.lst = <<>>

Spaced(d, tag) == IF tag = "BLOCKQUOTE" THEN AddParagraph(d) ELSE d

GROUP_start(tag) ==
  Block /\ InGroup(tag) /\ Renders(CreateBox(Spaced(doc, tag), tag))

GROUP_end(tag) ==
  Placed /\ InGroup(tag) /\ Renders(LeaveBox(Spaced(doc, tag), tag))

LIST_start(tag) == Block /\ Renders(ListStart(doc, tag))

LIST_end == Placed /\ cur.lst # <<>> /\ Renders(ListFinish(doc))

LI == Block /\ cur.lst # <<>> /\ Renders(ListMarker(doc))

\* Any tag, start or end, that only begins a paragraph: P, PRE, LISTING, ..
P == Block /\ Renders(AddParagraph(doc))

TABLE_start ==
  /\ pc = "parse" /\ (InTable => Stray)
  /\ Len(tree) < shape.nodes /\ Len(cur.tbl) < shape.depth
  /\ Renders(TableStart(doc))

TR(begin) ==
  /\ pc = "parse" /\ cur.tbl # <<>> /\ Top(doc).empty < shape.empty
  /\ begin => Len(Rows(doc).rows) < shape.rows
  /\ LET again == IF Rows(doc).working /\ Rows(doc).NumCells = 0 THEN 1 ELSE 0
     IN  Renders([doc EXCEPT !.tree[Top(doc).table].grid = TableRow(@, begin),
                             !.cur.tbl[Len(cur.tbl)].empty = @ + again])

\* The text of the cell before ends with its lists, or never.
Finishing(d) ==
  IF Rows(doc).WorkCell # 0 /\ Hangs(doc)
  THEN pc' = "hang" /\ UNCHANGED <<tree, cur, text, shape>>
  ELSE Becomes(d)

TD_start ==
  /\ pc = "parse" /\ cur.tbl # <<>> /\ Len(tree) < shape.nodes
  /\ Rows(doc).working \/ Len(Rows(doc).rows) < shape.rows
  /\ \E span \in shape.spans : Finishing(CellStart(doc, span))
  /\ UNCHANGED lost

TABLE_end ==
  /\ pc \in {"parse", "finish"} /\ cur.tbl # <<>>
  /\ Finishing(TableEnd(doc))
  /\ lost' = IF InTable THEN lost \cup (Top(doc).since + 1 .. text) ELSE lost

Text ==
  /\ pc = "parse" /\ text < shape.text
  /\ text'   = text + 1
  /\ tree'   = [tree EXCEPT ![cur.par].words =
                  Append(SubSeq(@, 1, cur.k), text + 1)]
  /\ cur'    = [cur EXCEPT !.k = @ + 1]
  /\ UNCHANGED <<pc, lost, shape>>

\* frame_finish(): all tables (TABLE_end), and the text of the page
EOF == pc = "parse" /\ pc' = "finish" /\ UNCHANGED <<tree, cur, text, lost, shape>>

FrameFinish ==
  /\ pc = "finish" /\ cur.tbl = <<>>
  /\ IF Hangs(doc)
     THEN pc' = "hang" /\ UNCHANGED <<tree, cur>>
     ELSE /\ pc' = "done"
          /\ tree' = ParagrphFinish(doc).tree
          /\ cur'  = ParagrphFinish(doc).cur
  /\ UNCHANGED <<text, lost, shape>>

Init ==
  /\ tree = <<[Node("BODY", 0) EXCEPT !.kids = <<2>>], Node("P", 1)>>
  /\ cur  = [box |-> 1, par |-> 2, k |-> 0, prev |-> 0, lst |-> <<>>,
             tbl |-> <<>>]
  /\ text = 0 /\ lost = {} /\ pc = "parse"
  /\ shape \in Shapes

Next ==
  \/ \E tag \in shape.groups : GROUP_start(tag) \/ GROUP_end(tag)
  \/ \E tag \in shape.lists : LIST_start(tag)
  \/ LIST_end \/ LI \/ P
  \/ TABLE_start \/ TD_start \/ TABLE_end
  \/ \E begin \in BOOLEAN : TR(begin)
  \/ Text \/ EOF \/ FrameFinish

Spec == Init /\ [][Next]_vars

-----------------------------------------------------------------------------
\* A shape has groups and lists or not, tables up to a depth, spans of cells,
\* rowspan and colspan, and bounds:
\* pieces of text, nodes, rows of a table, and empty rows of it (with 0 there
\* is no TR).
TypeOK ==
  /\ \A n \in DOMAIN tree :
       /\ tree[n].tag \in GroupTags \cup ListTags \cup {"BODY", "P", "TABLE", "TD"}
       /\ tree[n].parent \in 0 .. Len(tree)
       /\ ToSet(tree[n].kids) \subseteq DOMAIN tree
       /\ ToSet(tree[n].words) \subseteq 0 .. text
  /\ cur.box \in DOMAIN tree /\ cur.par \in 0 .. Len(tree)
  /\ ToSet(cur.lst) \subseteq ListTags
  /\ text \in 0 .. shape.text /\ lost \subseteq 1 .. text
  /\ pc \in {"parse", "finish", "done", "hang"} /\ shape \in Shapes

\* The boxes around n, from the cell or the page inwards
RECURSIVE Around(_)
Around(n) ==
  IF tree[n].tag \in {"BODY", "TD"} THEN <<>>
  ELSE Append(Around(tree[n].parent), tree[n].tag)

\* The stack of lists is that of the boxes (list_start() relies on it), the
\* paragraph that is filled is the last of its box, and no paragraph or box
\* hangs in two places: whatever tags are missing or misplaced.  The end of a
\* cell, a table or the page is in an endless loop only if a division is left
\* open in a list (paragrph_finish(), list_finish()).
Nested ==
  /\ TypeOK
  /\ \A n \in DOMAIN tree :
       /\ IsInjective(tree[n].kids)
       /\ \A i \in DOMAIN tree[n].kids : tree[tree[n].kids[i]].parent = n
  /\ pc # "done" /\ ~InTable =>
       /\ cur.lst = SelectSeq(Around(cur.box), LAMBDA tag : tag \in ListTags)
       /\ cur.par = Last(tree[cur.box].kids)
  /\ pc = "hang" =>
       LET around == Around(cur.box)
       IN  \E i, j \in DOMAIN around :
             i < j /\ around[i] \in ListTags /\ around[j] \in GroupTags

RECURSIVE Reading(_)
Reading(n) == tree[n].words \o FlattenSeq([i \in DOMAIN tree[n].kids |->
                                             Reading(tree[n].kids[i])])

\* Who reads the page from its begin reads the text in the order in which it
\* was written, and all of it; only text that stands in a table without any
\* cell is lost.
Ordered ==
  LET read == SelectSeq(Reading(1), LAMBDA w : w \in (1 .. text) \ lost)
  IN  /\ \A i \in 1 .. Len(read) - 1 : read[i] < read[i + 1]
      /\ (1 .. text) \ lost \subseteq ToSet(read)

\* The rows of a table always have the same number of cells, and when it is
\* complete its cells cover it: table_cell(), table_row(), table_finish().
Grids ==
  \A n \in DOMAIN tree :
    tree[n].tag = "TABLE" =>
      /\ Rectangular(tree[n].grid)
      /\ (\A i \in DOMAIN cur.tbl : cur.tbl[i].table # n) => Covered(tree[n].grid)
=============================================================================
