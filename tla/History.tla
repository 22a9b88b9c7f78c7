------------------------------ MODULE History -------------------------------
(***************************************************************************)
(* The pages a window has shown (hwWind.c: hist_append(),                  *)
(* hwWind_history(), wnd_hdlr()) and how Containr.c records the containers *)
(* of a page and builds them again (history_create(), history_update(),    *)
(* containr_process()).                                                    *)
(*                                                                         *)
(* The loaders are those of Fetch and Page.  Here a load waits until its   *)
(* document comes, then has a parser, then ends; any of them may be next.  *)
(* Every load that has started was notified to the window, so that the     *)
(* window's counter `loading' is the number of loads (Page!Balanced).      *)
(***************************************************************************)
EXTENDS Naturals, FiniteSets, Sequences, SequencesExt, Picks

CONSTANTS
  HistoryLast,       \* HISTORY_LAST
  Doc,        \* the documents
  Frames,     \* the documents that are framesets, with what is in the frames
  Outside,    \* the documents for which an application is started
  Absent,        \* no document, no entry
  Bare,       \* a frame that was never loaded: CNT_FRAME without a FRAME
  Careless,   \* what this code does not survive and the runs may include:
              \* "first" - the first load of a window ends without a page
              \* "memory" - no memory for an entry when the list is full
              \* "restore" - another entry is restored while a page is parsed
              \* "close" - the window is closed while a page is loaded
  Long,       \* the documents that are longer than the window: they scroll
  MaxLoads,   \* bound: the user starts a load only while there are less
  MaxVisits,  \* bound: how many loads the user starts
  MaxFails    \* bound: how often there is no memory for an entry

ASSUME HistoryAssumption ==
  /\ HistoryLast \in Nat \ {0}
  /\ DOMAIN Frames \subseteq Doc
  /\ \A d \in DOMAIN Frames :
       Frames[d] \in Seq(Doc \ (DOMAIN Frames \cup Outside)) \ {<<>>}
  /\ Outside \subseteq Doc \ DOMAIN Frames
  /\ Careless \subseteq {"first", "memory", "restore", "close"}
  /\ Long \subseteq Doc
  /\ MaxLoads \in Nat
  /\ MaxVisits \in Nat
  /\ MaxFails \in Nat

VARIABLES
  tree,       \* the containers of the window
  loads,      \* the loads for them
  hist,       \* History[], HistUsed, HistMenu, and the titles of the entries
  calm,       \* nobody interrupts a load, and memory suffices
  visits,     \* history: how many loads the user started
  fails,      \* history: how often there was no memory
  open,       \* whether there is the window
  faults      \* history: what the code has read although it was not there

historyVars == <<tree, loads, hist, calm, visits, fails, open, faults>>

(***************************************************************************)
(* Containers.  A window's base is empty, has a document, or is split into *)
(* frames; frames within frames are not modelled.  The container k is the  *)
(* k-th frame, the container 0 the base.                                   *)
(***************************************************************************)
Shown == [doc : Doc, scroll : BOOLEAN]

Widths == UNION {DOMAIN Frames[d] : d \in DOMAIN Frames}

Pane == [split : {FALSE}, frames : [{1} -> Shown \cup {Absent}]] \cup
        [split : {TRUE},
         frames : UNION {[1..n -> Shown \cup {Absent, Bare}] : n \in Widths}]

EmptyPane == [split |-> FALSE, frames |-> <<Absent>>]

Containers == {0} \cup (IF tree.split THEN DOMAIN tree.frames ELSE {})

\* the containers t with f in the container k
Fill(t, k, f) ==
  IF k = 0 THEN [split |-> FALSE, frames |-> <<f>>]
           ELSE [t EXCEPT !.frames[k] = f]

\* containr_fillup()
Split(n, f) == [split |-> TRUE, frames |-> [k \in 1..n |-> f]]

Load == [target : Nat, doc : Doc, scroll : BOOLEAN, parsing : BOOLEAN]

NewLoad(k, d, s) ==
  [target |-> k, doc |-> d, scroll |-> s, parsing |-> FALSE]

\* the document of a load, in its container
Content(l) == [doc |-> l.doc, scroll |-> l.scroll]

(***************************************************************************)
(* An entry of the history: the containers with their documents (List), a  *)
(* title that entries may share, and the mark in Text[0]: a blank, a dot   *)
(* while a frame of the page is loaded, a star while it is restored.       *)
(***************************************************************************)
Title == 1..(HistoryLast + 1)

Entry == [tree : Pane, title : Title, mark : {"blank", "dot", "star"}]

ASSUME AbsentAssumption ==
  /\ {Absent, Bare} \cap (Doc \cup Shown \cup Entry) = {}
  /\ Absent # Bare

NoEntries == [i \in 0..HistoryLast |-> Absent]

Marked(h, mark) == [h EXCEPT !.slot[h.menu].mark = mark]

\* create_r(): the documents, without their scroll bars
Recorded(t) ==
  [t EXCEPT !.frames = [k \in DOMAIN @ |->
     IF @[k] \in {Absent, Bare} THEN Absent ELSE [@[k] EXCEPT !.scroll = FALSE]]]

\* Mutant: called when the containers have been cleared.
UpdateLate(h, t) == h

\* history_update(): where the scroll bars are, up to the first container
\* that is not what the entry says
Update(h, t) ==
  LET e == h.slot[h.menu].tree
      Agrees(k) == \/ t.frames[k] = Absent
                   \/ t.frames[k] = Bare /\ e.frames[k] = Absent
                   \/ /\ Absent # e.frames[k]
                      /\ t.frames[k] \notin {Absent, Bare}
                      /\ t.frames[k].doc = e.frames[k].doc
      both == DOMAIN t.frames \cap DOMAIN e.frames
      seen == {k \in both : /\ t.split = e.split
                            /\ t.frames[k] \notin {Absent, Bare}
                            /\ \A j \in 1..k : Agrees(j)}
  IN [h EXCEPT !.slot[h.menu].tree.frames =
        [k \in DOMAIN @ |-> IF k \in seen THEN t.frames[k] ELSE @[k]]]

\* history_destroy() of the entries in I
Destroy(h, I) ==
  [h EXCEPT !.slot = [i \in 0..HistoryLast |-> IF i \in I THEN Absent ELSE @[i]],
            !.reffs = [t \in Title |->
              @[t] - Cardinality({i \in I : h.slot[i].title = t})]]

\* the entries hist_append() destroys
Outdated(h) ==
  IF h.used = 0 THEN {}
  ELSE IF h.menu + 1 < h.used THEN (h.menu + 1)..(h.used - 1)
  ELSE IF h.menu + 1 > HistoryLast THEN {0} ELSE {}

\* the list once they are gone: the new entry's place is behind the others
Cut(h) ==
  LET d == Destroy(h, Outdated(h)) IN
  IF h.used > 0 /\ h.menu + 1 > HistoryLast
  THEN [d EXCEPT !.used = HistoryLast,
                 !.slot = [i \in 0..HistoryLast |-> @[IF i < HistoryLast THEN i + 1 ELSE i]]]
  ELSE [d EXCEPT !.used = h.used - Cardinality(Outdated(h))]

\* Mutant: the entry that was shown before stays the current one.
HistAppendBehind(h, t, sub, ok) ==
  LET c == Cut(h)
      n == c.used
      title == CHOOSE i \in Title : c.reffs[i] = 0
      new == [tree |-> Recorded(t), title |-> title, mark |-> "blank"]
  IN [c EXCEPT !.slot[n] = new, !.used = n + 1, !.reffs[title] = @ + 1]

\* Mutant: a page in a frame takes the place of the page it belongs to.
HistAppendOver(h, t, sub, ok) ==
  LET c == IF sub THEN [Destroy(h, {h.used - 1}) EXCEPT !.used = @ - 1] ELSE Cut(h)
      n == c.used
      title == CHOOSE i \in Title : c.reffs[i] = 0
      new == [tree |-> Recorded(t), title |-> title, mark |-> "blank"]
  IN [c EXCEPT !.slot[n] = new, !.used = n + 1, !.menu = n,
               !.reffs[title] = @ + 1]

\* hist_append() with history_create(), which fails if not ok
HistAppend(h, t, sub, ok) ==
  LET c == Cut(h)
      n == c.used
      title == IF sub /\ n > 0 THEN c.slot[n - 1].title
               ELSE CHOOSE i \in Title : c.reffs[i] = 0
      new == [tree |-> Recorded(t), title |-> title, mark |-> "blank"]
  IN IF ok
     THEN [slot |-> [i \in 0..HistoryLast |->
                       IF i = n THEN new
                       ELSE IF i = n - 1 THEN [c.slot[i] EXCEPT !.mark = "blank"]
                       ELSE c.slot[i]],
           used |-> n + 1,
           menu |-> n,
           reffs |-> [c.reffs EXCEPT ![title] = @ + 1]]
     ELSE [c EXCEPT !.slot[n] = Absent]

(***************************************************************************)
(* wnd_hdlr(): HW_PageStarted and HW_PageFinished, for the first load that *)
(* starts and the last one that ends.                                      *)
(***************************************************************************)
NoEntry(h) == h.slot[h.menu] = Absent

Started(h, t, k) ==
  IF h.used = 0 \/ h.slot[h.menu].mark # "blank" THEN h
  ELSE Marked(Update(h, t), IF k # 0 THEN "dot" ELSE "blank")

Mark(h) == IF h.used = 0 THEN "blank" ELSE h.slot[h.menu].mark

\* page: whether the load ends with a page that is shown
Adds(h, page) == page /\ Mark(h) # "star"

\* Mutant: an entry that was restored stays marked.
FinishedMarked(h, t, page, ok) ==
  IF Adds(h, page) THEN HistAppend(h, t, Mark(h) # "blank", ok) ELSE h

Finished(h, t, page, ok) ==
  IF Adds(h, page) THEN HistAppend(h, t, Mark(h) # "blank", ok)
                   ELSE Marked(h, "blank")

\* what it reads that is not there
Reads(h, page) ==
  IF IF h.used = 0 THEN ~page ELSE NoEntry(h) THEN {"null"} ELSE {}

\* the last load ends: the containers are t
Ending(t, page) ==
  IF Reads(hist, page) # {}
  THEN /\ faults' = Reads(hist, page)
       /\ UNCHANGED <<hist, fails>>
  ELSE \E ok \in BOOLEAN :
         /\ ok \/ /\ Adds(hist, page)
                  /\ ~calm
                  /\ fails < MaxFails
                  /\ hist.menu < HistoryLast \/ "memory" \in Careless
         /\ hist' = Finished(hist, t, page, ok)
         /\ fails' = IF ok THEN fails ELSE fails + 1
         /\ UNCHANGED faults

HistoryTypeOK ==
  /\ tree \in Pane
  /\ loads \in Seq(Load)
  /\ hist \in [slot : [0..HistoryLast -> Entry \cup {Absent}],
               used : 0..(HistoryLast + 1),
               menu : 0..HistoryLast,
               reffs : [Title -> Nat]]
  /\ calm \in BOOLEAN
  /\ visits \in 0..MaxVisits
  /\ fails \in 0..MaxFails
  /\ open \in BOOLEAN
  /\ faults \subseteq {"null", "freed"}

NoHistory(reffs) ==
  [slot |-> NoEntries, used |-> 0, menu |-> 0, reffs |-> reffs]

HistoryInit ==
  /\ tree = EmptyPane
  /\ loads = <<>>
  /\ hist = NoHistory([t \in Title |-> 0])
  /\ calm \in BOOLEAN
  /\ visits = 0
  /\ fails = 0
  /\ open = TRUE
  /\ faults = {}

-----------------------------------------------------------------------------
(***************************************************************************)
(* The user.                                                               *)
(***************************************************************************)
Quiet == loads = <<>>

\* start_page_load() for a link, or for an address that was typed
Follow(k, d) ==
  /\ k \in Containers
  /\ k # 0 => d \notin DOMAIN Frames
  /\ d \in Outside /\ hist.used = 0 => "first" \in Careless
  /\ calm => Quiet
  /\ Len(loads) < MaxLoads
  /\ visits < MaxVisits
  /\ IF Quiet /\ hist.used > 0 /\ NoEntry(hist)
     THEN faults' = {"null"} /\ UNCHANGED hist
     ELSE /\ hist' = IF Quiet THEN Started(hist, tree, k) ELSE hist
          /\ UNCHANGED faults
  /\ loads' = Append(loads, NewLoad(k, d, FALSE))
  /\ visits' = visits + 1
  /\ UNCHANGED <<tree, calm, fails, open>>

\* the scroll bars of a frame
ScrollFrame(k) ==
  /\ tree.frames[k] \in Shown
  /\ tree.frames[k].doc \in Long
  /\ tree' = [tree EXCEPT !.frames[k].scroll = ~@]
  /\ UNCHANGED <<loads, hist, calm, visits, fails, open, faults>>

\* containr_escape() has sched_clear() for the base and then for every frame: a
\* document with a parser is shown as far as it has come.  The load that ends
\* last is one for the last of the containers that have loads
LastToEnd ==
  {i \in DOMAIN loads :
     \A j \in DOMAIN loads : loads[j].target <= loads[i].target}

Stop ==
  LET parsing(k) == {i \in DOMAIN loads :
                       loads[i].parsing /\ loads[i].target = k}
      Come(k, f) == IF parsing(k) = {} THEN f
                    ELSE Content(loads[CHOOSE i \in parsing(k) : TRUE])
      t == IF parsing(0) # {} THEN Fill(tree, 0, Come(0, Absent))
           ELSE [tree EXCEPT !.frames = [k \in DOMAIN @ |-> Come(k, @[k])]]
  IN /\ ~calm
     /\ ~Quiet
     /\ tree' = t
     /\ loads' = <<>>
     /\ \E i \in LastToEnd :
          /\ hist.used = 0 /\ ~loads[i].parsing => "first" \in Careless
          /\ Ending(t, loads[i].parsing)
     /\ UNCHANGED <<calm, visits, open>>

\* process_r(): the loads for the containers of an entry
LoadsFor(t) ==
  LET Of(k) == NewLoad(IF t.split THEN k ELSE 0,
                       t.frames[k].doc, t.frames[k].scroll)
      all == Picked([k \in DOMAIN t.frames |-> k],
                    {k \in DOMAIN t.frames : t.frames[k] # Absent})
  IN [i \in DOMAIN all |-> Of(all[i])]

\* containr_clear() goes through the frames first, and the base is the last
LastCleared ==
  LET base == {i \in DOMAIN loads : loads[i].target = 0}
  IN  IF base # {} THEN base ELSE LastToEnd

\* what is left of the containers when containr_clear() comes to the one of
\* the load i: the frames before it are gone
Remains(i) ==
  LET l == loads[i]
      t == IF l.parsing THEN Fill(tree, l.target, Content(l)) ELSE tree
  IN IF l.target = 0 THEN t
     ELSE [t EXCEPT !.frames = SubSeq(@, l.target, Len(@))]

\* hwWind_history(): the entry m is restored, or loaded again.  The loads end
\* as the containers are cleared, and a document that was being parsed gets an
\* entry, whose place may be the entry m's.  An entry has a document (Slots),
\* so that there is something to load; memory suffices here
Restore(m) ==
  LET h == Update(hist, tree)
      e == h.slot[m].tree
      late == {i \in LastCleared : loads[i].parsing /\ Adds(h, TRUE)}
      Restored(c) ==
        /\ tree' = IF e.split THEN Split(Len(e.frames), Absent) ELSE EmptyPane
        /\ loads' = LoadsFor(e)
        /\ hist' = Marked([c EXCEPT !.menu = m], "star")
        /\ UNCHANGED faults
  IN /\ m < hist.used
     /\ calm => Quiet
     /\ late # {} /\ (m \in Outdated(h) \/ h.menu = HistoryLast)
          => "restore" \in Careless
     /\ \/ Quiet /\ Restored(h)
        \/ \E i \in LastCleared :
             IF i \in late /\ m \in Outdated(h)
             THEN faults' = {"freed"} /\ UNCHANGED <<tree, loads, hist>>
             ELSE Restored(Finished(h, Remains(i), loads[i].parsing, TRUE))
     /\ UNCHANGED <<calm, visits, fails, open>>

\* vTab_destruct(): the entries are destroyed, then the containers, and the
\* loads that end there look for an entry
Close ==
  /\ Quiet \/ "close" \in Careless
  /\ open' = FALSE
  /\ tree' = EmptyPane
  /\ loads' = <<>>
  /\ hist' = NoHistory(Destroy(hist, 0..(hist.used - 1)).reffs)
  /\ faults' = IF Quiet THEN {} ELSE {"null"}
  /\ UNCHANGED <<calm, visits, fails>>

\* new_hwWind()
Open ==
  /\ ~open
  /\ open' = TRUE
  /\ UNCHANGED <<tree, loads, hist, calm, visits, fails, faults>>

-----------------------------------------------------------------------------
(***************************************************************************)
(* The loads.                                                              *)
(***************************************************************************)
\* new_parser(): the container is cleared, and with it end all other loads
\* for it and for its frames; this one is still to come
Begin(i) ==
  LET l == loads[i]
      others == {j \in DOMAIN loads : j # i /\ l.target # 0
                                      /\ loads[j].target # l.target}
  IN /\ ~l.parsing
     /\ l.doc \notin Outside
     /\ loads' = Append(Picked(loads, others), [l EXCEPT !.parsing = TRUE])
     /\ tree' = Fill(tree, l.target, Absent)
     /\ UNCHANGED <<hist, calm, visits, fails, open, faults>>

\* a load ends without a page
NoPage(i) ==
  /\ loads[i].doc \in Outside
  /\ loads' = RemoveAt(loads, i)
  /\ IF Len(loads) = 1 THEN Ending(tree, FALSE)
                       ELSE UNCHANGED <<hist, fails, faults>>
  /\ UNCHANGED <<tree, calm, visits, open>>

\* render_FRAMESET_tag(): the frames are made and their documents asked for,
\* before the parser ends, which has nothing to show
Divide(i) ==
  LET l == loads[i] IN
  /\ l.parsing
  /\ l.doc \in DOMAIN Frames
  /\ tree' = Split(Len(Frames[l.doc]), Bare)
  /\ loads' = RemoveAt(loads, i)
              \o [k \in DOMAIN Frames[l.doc] |->
                    NewLoad(k, Frames[l.doc][k], FALSE)]
  /\ UNCHANGED <<hist, calm, visits, fails, open, faults>>

\* delete_parser(): the document is shown
Done(i) ==
  LET l == loads[i]
      t == Fill(tree, l.target, Content(l))
  IN /\ l.parsing
     /\ l.doc \notin DOMAIN Frames
     /\ tree' = t
     /\ loads' = RemoveAt(loads, i)
     /\ IF Len(loads) = 1 THEN Ending(t, TRUE)
                          ELSE UNCHANGED <<hist, fails, faults>>
     /\ UNCHANGED <<calm, visits, open>>

User ==
  /\ open
  /\ \/ \E k \in Containers, d \in Doc : Follow(k, d)
     \/ \E k \in DOMAIN tree.frames : ScrollFrame(k)
     \/ Stop
     \/ \E m \in 0..HistoryLast : Restore(m)
     \/ Close

Loading ==
  \E i \in DOMAIN loads : Begin(i) \/ NoPage(i) \/ Divide(i) \/ Done(i)

\* what the code does after it read what was not there is not modelled
HistoryNext == faults = {} /\ (User \/ Open \/ Loading)

HistorySpec == HistoryInit /\ [][HistoryNext]_historyVars

-----------------------------------------------------------------------------
(***************************************************************************)
(* Properties.                                                             *)
(***************************************************************************)
\* The entries in use are there, each with a document to load, no slot behind
\* them holds one, and the entry that is shown is one of them: History[] is
\* never read outside of them, nor is an entry freed twice.
Slots ==
  /\ \A i \in 0..HistoryLast :
       IF i < hist.used
       THEN hist.slot[i] # Absent
            /\ \E k \in DOMAIN hist.slot[i].tree.frames :
                 hist.slot[i].tree.frames[k] # Absent
       ELSE hist.slot[i] = Absent
  /\ hist.used > 0 => hist.menu < hist.used
  /\ faults = {}

\* A title counts the entries that share it, so it is freed with the last one
\* and not before; only entries next to each other share one.
Titles ==
  LET Users(t) == {i \in 0..(hist.used - 1) : hist.slot[i].title = t} IN
  \A t \in Title :
    /\ hist.reffs[t] = Cardinality(Users(t))
    /\ \A i, j \in Users(t) : i..j \subseteq Users(t)

\* An entry is marked only while something is loaded, and it is the one that
\* is shown; the mark for a frame stays behind if there was no memory for the
\* entry that would have cleared it.
Marks ==
  \A i \in 0..(hist.used - 1) :
    /\ hist.slot[i].mark = "star" => i = hist.menu /\ ~Quiet
    /\ hist.slot[i].mark = "dot" => fails > 0 \/ (i = hist.menu /\ ~Quiet)

\* The entries that the menu shows, with their titles and their mark, are all
\* there and no others are.
Entries == HistoryTypeOK /\ Slots /\ Titles /\ Marks

\* When nobody interrupts a load and memory suffices, what the window shows is
\* what the history says it shows, as soon as nothing is loaded.
InHistory ==
  calm /\ Quiet /\ open /\ hist.used > 0
    => Recorded(tree) = Recorded(hist.slot[hist.menu].tree)

\* Whoever leaves a page for another entry finds the page as it was left, with
\* its scroll bars where they were.
Remembers ==
  [][calm /\ hist'.menu # hist.menu /\ Mark(hist') = "star"
       => hist'.slot[hist.menu].tree.frames = tree.frames]_historyVars

\* The list of entries is the list of pages visited (Browsing).
Visited == INSTANCE Browsing WITH
  Limit <- HistoryLast + 1,
  pages <- [i \in 1..hist.used |-> Recorded(hist.slot[i - 1].tree)],
  at <- IF hist.used = 0 THEN 0 ELSE hist.menu + 1

RefinesBrowsing == Visited!Spec
=============================================================================
