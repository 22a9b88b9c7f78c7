------------------------------ MODULE MCRender ------------------------------
(***************************************************************************)
(* Instances of Render for TLC: pages of nested blocks, lists and tables,  *)
(* with text and without, and tables of cells with rowspan and colspan.    *)
(***************************************************************************)
EXTENDS Render

CONSTANTS Nodes, DeepNodes, Texts, RowCount, CellCount

\* Without text there is room for a division in a list in a cell.
Nesting ==
  [groups |-> {"DIV"}, lists |-> {"UL"}, depth |-> 1, spans |-> {<<1, 1>>},
   text |-> 0, nodes |-> Nodes, rows |-> 1, empty |-> 0]

Telling == [Nesting EXCEPT !.text = Texts, !.nodes = @ - 2, !.depth = 2]

Grouping ==
  [Telling EXCEPT !.groups = GroupTags, !.lists = ListTags, !.nodes = @ - 1]

Deep ==
  [Telling EXCEPT !.groups = {}, !.nodes = DeepNodes, !.text = Texts + 1]

Spanning ==
  [groups |-> {}, lists |-> {}, depth |-> 1, text |-> 0, nodes |-> 3 + 2 * CellCount,
   rows |-> RowCount, empty |-> 2,
   spans |-> {<<1, 1>>, <<1, 2>>, <<2, 2>>, <<3, 1>>, <<0, 1>>, <<1, 0>>}]

MCShapes == {Nesting, Telling, Grouping, Deep, Spanning}

=============================================================================
