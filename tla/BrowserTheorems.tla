--------------------------- MODULE BrowserTheorems ---------------------------
(***************************************************************************)
(* Two parts of the browser that share no state: the history of a window,  *)
(* for any documents, framesets and length of the list; and the scheduler  *)
(* that runs every job of the program, for any number of jobs, functions,  *)
(* arguments and hashes, whatever the jobs and the callbacks call.         *)
(***************************************************************************)
EXTENDS History, JobQueue, BasicTheorems

-----------------------------------------------------------------------------
(***************************************************************************)
(* The invariant, for the containers t, the loads ls and the list h.       *)
(***************************************************************************)
ListOf ==
  [slot : [0..HistoryLast -> Entry \cup {Absent}],
   used : 0..(HistoryLast + 1),
   menu : 0..HistoryLast,
   reffs : [Title -> Nat]]

\* There is a document in the containers t.
HasDoc(t) == \E k \in DOMAIN t.frames : t.frames[k] \in Shown

\* What is shown was parsed, and a frame, or what was not stopped, is no
\* frameset.
Proper(t, whole) ==
  \A k \in DOMAIN t.frames :
    t.frames[k] \in Shown =>
      /\ t.frames[k].doc \in Doc \ Outside
      /\ whole \/ t.split => t.frames[k].doc \notin DOMAIN Frames

InUse(h) ==
  /\ \A i \in 0..HistoryLast :
       IF i < h.used THEN h.slot[i] \in Entry /\ HasDoc(h.slot[i].tree)
                     ELSE h.slot[i] = Absent
  /\ h.used > 0 => h.menu < h.used

\* An entry does not know of frames that were never loaded.
ProperEntries(h, whole) ==
  \A i \in 0..(h.used - 1) :
    /\ Proper(h.slot[i].tree, whole)
    /\ \A k \in DOMAIN h.slot[i].tree.frames : h.slot[i].tree.frames[k] # Bare

UsersOf(h, t) == {i \in 0..(h.used - 1) : h.slot[i].title = t}

Shared(h) ==
  \A t \in Title :
    /\ h.reffs[t] = Cardinality(UsersOf(h, t))
    /\ \A i, j \in UsersOf(h, t) : i..j \subseteq UsersOf(h, t)

Unmarked(h, m) == \A i \in 0..(h.used - 1) : h.slot[i].mark # m

\* Only the entry that is shown may have the mark m.
MarkedAtMost(h, m) == \A i \in 0..(h.used - 1) : h.slot[i].mark = m => i = h.menu

\* quiet: nothing is loaded; short: memory was short once
MarkedRight(h, quiet, short) ==
  IF quiet THEN Unmarked(h, "star") /\ (short \/ Unmarked(h, "dot"))
           ELSE MarkedAtMost(h, "star") /\ (short \/ MarkedAtMost(h, "dot"))

ListRight(h, whole) ==
  /\ h \in ListOf
  /\ InUse(h)
  /\ ProperEntries(h, whole)
  /\ Shared(h)

\* A load is for a container that there is, and a frameset is parsed for the
\* base, which is empty then.
Places(t) == {0} \cup (IF t.split THEN DOMAIN t.frames ELSE {})

LoadRight(l, t, used) ==
  /\ l.target \in Places(t)
  /\ l.doc \in DOMAIN Frames => l.target = 0
  /\ l.parsing => l.doc \notin Outside /\ (l.target = 0 => ~t.split)
  /\ used = 0 => l.doc \notin Outside

LoadsRight(ls, t, used) ==
  /\ ls \in Seq(Load)
  /\ \A i \in DOMAIN ls : LoadRight(ls[i], t, used)
  /\ \A i, j \in DOMAIN ls :
       i # j /\ ls[i].parsing /\ ls[j].parsing => ls[i].target # ls[j].target

(***************************************************************************)
(* ... and when nobody interrupts a load and memory suffices.              *)
(***************************************************************************)
SameDoc(f, g) ==
  \/ f = Absent /\ g = Absent
  \/ f \in Shown /\ g \in Shown /\ f.doc = g.doc

SameShape(t, e) == t.split = e.split /\ DOMAIN t.frames = DOMAIN e.frames

\* The containers t have what the entry's e say.
Agree(t, e) ==
  /\ SameShape(t, e)
  /\ \A k \in DOMAIN t.frames : SameDoc(t.frames[k], e.frames[k])

FrameOf(l) == IF l.target = 0 THEN 1 ELSE l.target

\* What t has not yet of the entry's e is loaded.
Restoring(t, ls, e) ==
  /\ SameShape(t, e)
  /\ \A i \in DOMAIN ls :
       /\ ls[i].target = 0 <=> ~e.split
       /\ FrameOf(ls[i]) \in DOMAIN e.frames
       /\ e.frames[FrameOf(ls[i])] \in Shown
       /\ ls[i].doc = e.frames[FrameOf(ls[i])].doc
  /\ \A i, j \in DOMAIN ls : i # j => ls[i].target # ls[j].target
  /\ \A k \in DOMAIN t.frames :
       \/ SameDoc(t.frames[k], e.frames[k])
       \/ \E i \in DOMAIN ls : FrameOf(ls[i]) = k

\* Only a document that follows a link may be none that is shown, and then
\* nothing else is loaded and the page is still there.
Following(t, ls, h) ==
  \/ \A i \in DOMAIN ls : ls[i].doc \notin Outside
  \/ Len(ls) = 1 /\ (h.used > 0 => Agree(t, h.slot[h.menu].tree))

Calmly(t, ls, h) ==
  /\ \A k \in DOMAIN t.frames :
       t.frames[k] = Bare => \E i \in DOMAIN ls : ls[i].target = k
  /\ IF ls = <<>> THEN h.used > 0 => Agree(t, h.slot[h.menu].tree)
     ELSE IF Mark(h) = "star" THEN Restoring(t, ls, h.slot[h.menu].tree)
     ELSE Following(t, ls, h)

HInv ==
  /\ tree \in Pane /\ Proper(tree, calm)
  /\ ListRight(hist, calm)
  /\ LoadsRight(loads, tree, hist.used)
  /\ MarkedRight(hist, Quiet, fails > 0)
  /\ calm => Calmly(tree, loads, hist) /\ fails = 0
  /\ calm \in BOOLEAN /\ open \in BOOLEAN
  /\ visits \in 0..MaxVisits /\ fails \in 0..MaxFails
  /\ faults = {}

-----------------------------------------------------------------------------
(***************************************************************************)
(* Containers.                                                             *)
(***************************************************************************)
Within == Shown \cup {Absent, Bare}

LEMMA Apart == Absent \notin Shown /\ Bare \notin Shown /\ Absent # Bare
               /\ Absent \notin Entry
BY AbsentAssumption

LEMMA WidthsDown ==
  ASSUME NEW n \in Widths
  PROVE  n \in Nat \ {0} /\ \A m \in 1..n : m \in Widths
<1>1. PICK d \in DOMAIN Frames : n \in DOMAIN Frames[d]
  BY DEF Widths
<1>2. Frames[d] \in Seq(Doc \ (DOMAIN Frames \cup Outside))
  BY HistoryAssumption
<1>3. DOMAIN Frames[d] = 1..Len(Frames[d]) /\ Len(Frames[d]) \in Nat
  BY <1>2
<1>4. \A m \in 1..n : m \in DOMAIN Frames[d]
  BY <1>1, <1>3
<1> QED
  BY <1>1, <1>3, <1>4 DEF Widths

LEMMA FramesOf ==
  ASSUME NEW d \in DOMAIN Frames
  PROVE  /\ Frames[d] \in Seq(Doc \ (DOMAIN Frames \cup Outside))
         /\ Len(Frames[d]) \in Widths
         /\ DOMAIN Frames[d] = 1..Len(Frames[d])
         /\ \A k \in DOMAIN Frames[d] :
              Frames[d][k] \in Doc \ (DOMAIN Frames \cup Outside)
<1>1. Frames[d] \in Seq(Doc \ (DOMAIN Frames \cup Outside)) \ {<<>>}
  BY HistoryAssumption
<1>2. DOMAIN Frames[d] = 1..Len(Frames[d]) /\ Len(Frames[d]) \in Nat \ {0}
  BY <1>1
<1> QED
  BY <1>1, <1>2 DEF Widths

LEMMA OnePane ==
  ASSUME NEW f \in Shown \cup {Absent}
  PROVE  /\ [split |-> FALSE, frames |-> <<f>>] \in Pane
         /\ DOMAIN <<f>> = {1} /\ <<f>>[1] = f
<1>1. <<f>> \in [{1} -> Shown \cup {Absent}] /\ DOMAIN <<f>> = {1} /\ <<f>>[1] = f
  OBVIOUS
<1> QED
  BY <1>1 DEF Pane

LEMMA PaneIs ==
  ASSUME NEW t \in Pane
  PROVE  /\ t = [split |-> t.split, frames |-> t.frames]
         /\ t.split \in BOOLEAN
         /\ \E n \in Nat \ {0} :
              /\ DOMAIN t.frames = 1..n
              /\ t.frames \in [1..n -> Within]
              /\ t.split => n \in Widths
              /\ ~t.split => n = 1 /\ t.frames[1] # Bare
<1>1. CASE t \in [split : {FALSE}, frames : [{1} -> Shown \cup {Absent}]]
  <2>1. t = [split |-> t.split, frames |-> t.frames] /\ t.split = FALSE
    BY <1>1
  <2>2. t.frames \in [{1} -> Shown \cup {Absent}]
    BY <1>1
  <2>3. 1..1 = {1} /\ 1 \in Nat \ {0}
    OBVIOUS
  <2>4. t.frames \in [1..1 -> Within] /\ t.frames[1] # Bare /\ DOMAIN t.frames = 1..1
    BY <2>2, <2>3, Apart DEF Within
  <2> QED
    BY <2>1, <2>3, <2>4
<1>2. CASE t \in [split : {TRUE},
              frames : UNION {[1..n -> Shown \cup {Absent, Bare}] : n \in Widths}]
  <2>1. PICK n \in Widths : t.frames \in [1..n -> Shown \cup {Absent, Bare}]
    BY <1>2
  <2>2. t = [split |-> t.split, frames |-> t.frames] /\ t.split = TRUE
    BY <1>2
  <2>3. n \in Nat \ {0} /\ DOMAIN t.frames = 1..n /\ t.frames \in [1..n -> Within]
    BY <2>1, WidthsDown DEF Within
  <2> QED
    BY <2>2, <2>3
<1> QED
  BY <1>1, <1>2 DEF Pane

LEMMA IsPane ==
  ASSUME NEW s \in BOOLEAN, NEW n \in Nat \ {0}, NEW f \in [1..n -> Within],
         s => n \in Widths,
         ~s => n = 1 /\ f[1] # Bare
  PROVE  [split |-> s, frames |-> f] \in Pane
<1>1. CASE s
  BY <1>1 DEF Pane, Within
<1>2. CASE ~s
  <2>1. f \in [{1} -> Shown \cup {Absent}]
    BY <1>2 DEF Within
  <2> QED
    BY <1>2, <2>1 DEF Pane
<1> QED
  BY <1>1, <1>2

\* The frames g with f in the place k
SameBut(h, g, k, f) ==
  /\ DOMAIN h = DOMAIN g
  /\ \A j \in DOMAIN g : h[j] = IF j = k THEN f ELSE g[j]

\* The containers t with f in one of them
LEMMA FillBase ==
  ASSUME NEW t, NEW f \in Shown \cup {Absent}
  PROVE  /\ Fill(t, 0, f) \in Pane
         /\ Fill(t, 0, f).split = FALSE
         /\ DOMAIN Fill(t, 0, f).frames = {1}
         /\ Fill(t, 0, f).frames[1] = f
BY OnePane DEF Fill

LEMMA FillFrame ==
  ASSUME NEW t \in Pane, NEW k \in Places(t), k # 0, NEW f \in Shown \cup {Absent}
  PROVE  /\ Fill(t, k, f) \in Pane
         /\ t.split = TRUE /\ Fill(t, k, f).split = TRUE
         /\ k \in DOMAIN t.frames
         /\ SameBut(Fill(t, k, f).frames, t.frames, k, f)
<1>1. t.split = TRUE /\ k \in DOMAIN t.frames
  <2>1. t.split \in BOOLEAN
    BY PaneIs
  <2> QED
    BY <2>1 DEF Places
<1>2. PICK n \in Nat \ {0} : /\ DOMAIN t.frames = 1..n
                             /\ t.frames \in [1..n -> Within]
                             /\ t.split => n \in Widths
  BY PaneIs
<1> DEFINE g == [t.frames EXCEPT ![k] = f]
<1>3. g \in [1..n -> Within] /\ SameBut(g, t.frames, k, f)
  BY <1>1, <1>2 DEF Within, SameBut
<1>4. Fill(t, k, f) = [split |-> TRUE, frames |-> g]
  <2>1. t = [split |-> t.split, frames |-> t.frames]
    BY PaneIs
  <2> QED
    BY <1>1, <2>1 DEF Fill
<1> HIDE DEF g
<1>5. Fill(t, k, f) \in Pane
  BY <1>1, <1>2, <1>3, <1>4, IsPane
<1> QED
  BY <1>1, <1>3, <1>4, <1>5

LEMMA SplitIs ==
  ASSUME NEW n \in Widths, NEW f \in {Absent, Bare}
  PROVE  /\ Split(n, f) \in Pane
         /\ Split(n, f).split = TRUE
         /\ DOMAIN Split(n, f).frames = 1..n
         /\ \A k \in 1..n : Split(n, f).frames[k] = f
<1> DEFINE g == [k \in 1..n |-> f]
<1>1. g \in [1..n -> Within] /\ n \in Nat \ {0}
  BY WidthsDown DEF Within
<1>2. Split(n, f) = [split |-> TRUE, frames |-> g]
  BY DEF Split
<1>3. [split |-> TRUE, frames |-> g] \in Pane
  BY ONLY <1>1, IsPane, n \in Widths
<1> QED
  BY <1>2, <1>3

LEMMA EmptyPaneIs ==
  /\ EmptyPane \in Pane
  /\ EmptyPane.split = FALSE
  /\ DOMAIN EmptyPane.frames = {1}
  /\ EmptyPane.frames[1] = Absent
BY OnePane DEF EmptyPane

LEMMA ShownIs ==
  ASSUME NEW r \in Shown
  PROVE  /\ r.doc \in Doc /\ r.scroll \in BOOLEAN
         /\ r = [doc |-> r.doc, scroll |-> r.scroll]
         /\ \A b \in BOOLEAN : /\ [r EXCEPT !.scroll = b] \in Shown
                              /\ [r EXCEPT !.scroll = b] = [doc |-> r.doc, scroll |-> b]
BY DEF Shown

\* What an entry keeps of the containers
LEMMA RecordedIs ==
  ASSUME NEW t \in Pane
  PROVE  /\ Recorded(t) \in Pane
         /\ Recorded(t).split = t.split
         /\ DOMAIN Recorded(t).frames = DOMAIN t.frames
         /\ \A k \in DOMAIN t.frames :
              IF t.frames[k] \in Shown
              THEN /\ Recorded(t).frames[k] \in Shown
                   /\ Recorded(t).frames[k] = [doc |-> t.frames[k].doc, scroll |-> FALSE]
              ELSE Recorded(t).frames[k] = Absent
<1>1. PICK n \in Nat \ {0} : /\ DOMAIN t.frames = 1..n
                             /\ t.frames \in [1..n -> Within]
                             /\ t.split => n \in Widths
                             /\ ~t.split => n = 1
  BY PaneIs
<1>2. /\ t = [split |-> t.split, frames |-> t.frames] /\ t.split \in BOOLEAN
  BY PaneIs
<1> DEFINE Of(k) == IF t.frames[k] \in {Absent, Bare} THEN Absent
                    ELSE [t.frames[k] EXCEPT !.scroll = FALSE]
           g == [k \in DOMAIN t.frames |-> Of(k)]
<1>3. \A k \in DOMAIN t.frames :
         IF t.frames[k] \in Shown
         THEN Of(k) \in Shown /\ Of(k) = [doc |-> t.frames[k].doc, scroll |-> FALSE]
         ELSE Of(k) = Absent
  <2> TAKE k \in DOMAIN t.frames
  <2>1. t.frames[k] \in Within
    BY <1>1
  <2>2. CASE t.frames[k] \in Shown
    <3>1. [t.frames[k] EXCEPT !.scroll = FALSE]
            = [doc |-> t.frames[k].doc, scroll |-> FALSE]
      BY <2>2, ShownIs
    <3>2. [doc |-> t.frames[k].doc, scroll |-> FALSE] \in Shown
      BY <2>2, ShownIs, <3>1
    <3> QED
      BY <2>2, <3>1, <3>2, Apart
  <2>3. CASE t.frames[k] \notin Shown
    BY <2>1, <2>3, Apart DEF Within
  <2> QED
    BY <2>2, <2>3
<1>4. Recorded(t) = [split |-> t.split, frames |-> g]
  <2>1. Recorded(t) = [t EXCEPT !.frames = g]
    BY DEF Recorded
  <2> HIDE DEF g
  <2> QED
    BY <1>2, <2>1
<1> HIDE DEF Of
<1>5. g \in [1..n -> Within] /\ \A k \in 1..n : g[k] # Bare
  <2>1. \A k \in 1..n : Of(k) \in Within /\ Of(k) # Bare
    BY <1>1, <1>3, Apart DEF Within
  <2> QED
    BY <1>1, <2>1
<1>6. DOMAIN g = DOMAIN t.frames /\ \A k \in DOMAIN t.frames : g[k] = Of(k)
  OBVIOUS
<1> HIDE DEF g
<1>7. Recorded(t) \in Pane
  <2>1. ~t.split => n = 1 /\ g[1] # Bare
    BY <1>1, <1>5
  <2>2. [split |-> t.split, frames |-> g] \in Pane
    BY <1>1, <1>2, <1>5, <2>1, IsPane
  <2> QED
    BY <1>4, <2>2
<1>8. Recorded(t).split = t.split /\ Recorded(t).frames = g
  BY <1>4
<1> QED
  BY <1>3, <1>6, <1>7, <1>8

LEMMA RecordedFrame ==
  ASSUME NEW t \in Pane, NEW k \in DOMAIN t.frames
  PROVE  /\ t.frames[k] \in Shown =>
              /\ Recorded(t).frames[k] \in Shown
              /\ Recorded(t).frames[k] = [doc |-> t.frames[k].doc, scroll |-> FALSE]
         /\ t.frames[k] \notin Shown => Recorded(t).frames[k] = Absent
BY RecordedIs

-----------------------------------------------------------------------------
(***************************************************************************)
(* Entries with other scroll bars, or with another mark.                   *)
(***************************************************************************)
LEMMA EntryIs ==
  ASSUME NEW e \in Entry
  PROVE  /\ e.tree \in Pane /\ e.title \in Title /\ e.mark \in {"blank", "dot", "star"}
         /\ e = [tree |-> e.tree, title |-> e.title, mark |-> e.mark]
BY DEF Entry

Signs == {"blank", "dot", "star"}

LEMMA MarkIs ==
  ASSUME NEW e \in Entry, NEW m
  PROVE  [e EXCEPT !.mark = m] = [tree |-> e.tree, title |-> e.title, mark |-> m]
<1>1. e \in [tree : Pane, title : Title, mark : Signs]
  BY DEF Entry, Signs
<1> QED
  BY ONLY <1>1

LEMMA IsEntry ==
  ASSUME NEW t \in Pane, NEW i \in Title, NEW m \in {"blank", "dot", "star"}
  PROVE  [tree |-> t, title |-> i, mark |-> m] \in Entry
BY DEF Entry

LEMMA ListIs ==
  ASSUME NEW h \in ListOf
  PROVE  /\ h = [slot |-> h.slot, used |-> h.used, menu |-> h.menu, reffs |-> h.reffs]
         /\ h.slot \in [0..HistoryLast -> Entry \cup {Absent}]
         /\ h.used \in 0..(HistoryLast + 1) /\ h.used \in Nat
         /\ h.menu \in 0..HistoryLast /\ h.menu \in Nat
         /\ h.reffs \in [Title -> Nat]
         /\ HistoryLast \in Nat \ {0}
BY HistoryAssumption DEF ListOf

LEMMA IsList ==
  ASSUME NEW s \in [0..HistoryLast -> Entry \cup {Absent}],
         NEW u \in 0..(HistoryLast + 1), NEW m \in 0..HistoryLast,
         NEW r \in [Title -> Nat]
  PROVE  [slot |-> s, used |-> u, menu |-> m, reffs |-> r] \in ListOf
BY DEF ListOf

SameEntry(e, f) ==
  /\ e \in Entry /\ f \in Entry
  /\ f.title = e.title
  /\ Agree(f.tree, e.tree)

\* g has the entries of h.
Alike(h, g) ==
  /\ g.used = h.used /\ g.reffs = h.reffs
  /\ \A i \in 0..HistoryLast :
       IF i < h.used THEN SameEntry(h.slot[i], g.slot[i]) ELSE g.slot[i] = h.slot[i]

LEMMA AgreeItself ==
  ASSUME NEW t \in Pane, \A k \in DOMAIN t.frames : t.frames[k] # Bare
  PROVE  Agree(t, t)
<1>1. \A k \in DOMAIN t.frames : t.frames[k] \in Within
  BY PaneIs
<1> QED
  BY <1>1 DEF Agree, SameShape, SameDoc, Within

LEMMA AgreeRecorded ==
  ASSUME NEW t \in Pane, NEW e \in Pane, Agree(t, e)
  PROVE  Recorded(t) = Recorded(e)
<1>1. /\ Recorded(t).split = Recorded(e).split
      /\ DOMAIN Recorded(t).frames = DOMAIN t.frames
      /\ DOMAIN Recorded(e).frames = DOMAIN t.frames
  BY RecordedIs DEF Agree, SameShape
<1>2. \A k \in DOMAIN t.frames : Recorded(t).frames[k] = Recorded(e).frames[k]
  <2> TAKE k \in DOMAIN t.frames
  <2>1. k \in DOMAIN e.frames
    BY DEF Agree, SameShape
  <2>2. CASE t.frames[k] = Absent /\ e.frames[k] = Absent
    BY <2>1, <2>2, RecordedFrame, Apart
  <2>3. CASE t.frames[k] \in Shown /\ e.frames[k] \in Shown /\ t.frames[k].doc = e.frames[k].doc
    BY <2>1, <2>3, RecordedFrame
  <2> QED
    BY <2>2, <2>3 DEF Agree, SameDoc
<1>3. Recorded(t) \in Pane /\ Recorded(e) \in Pane
  BY RecordedIs
<1>4. Recorded(t).frames = Recorded(e).frames
  <2>1. PICK n \in Nat : Recorded(t).frames \in [1..n -> Within] /\ DOMAIN Recorded(t).frames = 1..n
    BY <1>3, PaneIs
  <2>2. PICK m \in Nat : Recorded(e).frames \in [1..m -> Within] /\ DOMAIN Recorded(e).frames = 1..m
    BY <1>3, PaneIs
  <2>3. Recorded(e).frames \in [1..n -> Within] /\ DOMAIN t.frames = 1..n
    BY <1>1, <2>1, <2>2
  <2> QED
    BY <1>2, <2>1, <2>3
<1>5. /\ Recorded(t) = [split |-> Recorded(t).split, frames |-> Recorded(t).frames]
      /\ Recorded(e) = [split |-> Recorded(e).split, frames |-> Recorded(e).frames]
  BY <1>3, PaneIs
<1> QED
  BY <1>1, <1>4, <1>5

LEMMA RecordedTwice ==
  ASSUME NEW t \in Pane, \A k \in DOMAIN t.frames : t.frames[k] # Bare
  PROVE  Agree(t, Recorded(t))
<1>1. \A k \in DOMAIN t.frames : t.frames[k] \in Within
  BY PaneIs
<1>2. \A k \in DOMAIN t.frames : SameDoc(t.frames[k], Recorded(t).frames[k])
  <2> TAKE k \in DOMAIN t.frames
  <2>1. CASE t.frames[k] \in Shown
    <3>1. Recorded(t).frames[k] = [doc |-> t.frames[k].doc, scroll |-> FALSE]
          /\ Recorded(t).frames[k] \in Shown
      BY <2>1, RecordedFrame
    <3> QED
      BY <2>1, <3>1 DEF SameDoc
  <2>2. CASE t.frames[k] \notin Shown
    <3>1. Recorded(t).frames[k] = Absent
      BY <2>2, RecordedFrame
    <3> QED
      BY <1>1, <2>2, <3>1 DEF SameDoc, Within
  <2> QED
    BY <2>1, <2>2
<1> QED
  BY <1>2, RecordedIs DEF Agree, SameShape

LEMMA AlikeRight ==
  ASSUME NEW h, NEW g \in ListOf, NEW w,
         ListRight(h, w), Alike(h, g), g.used > 0 => g.menu < g.used
  PROVE  /\ ListRight(g, w)
         /\ \A i \in 0..(h.used - 1) :
              Recorded(g.slot[i].tree) = Recorded(h.slot[i].tree)
<1>0. h \in ListOf
  BY DEF ListRight
<1>1. \A i \in 0..(h.used - 1) :
        /\ i \in 0..HistoryLast /\ i < h.used
        /\ SameEntry(h.slot[i], g.slot[i])
        /\ h.slot[i].tree \in Pane /\ g.slot[i].tree \in Pane
        /\ HasDoc(h.slot[i].tree) /\ Proper(h.slot[i].tree, w)
        /\ \A k \in DOMAIN h.slot[i].tree.frames : h.slot[i].tree.frames[k] # Bare
  <2> TAKE i \in 0..(h.used - 1)
  <2>1. i \in 0..HistoryLast /\ i < h.used
    BY <1>0, ListIs
  <2>2. SameEntry(h.slot[i], g.slot[i]) /\ HasDoc(h.slot[i].tree)
    BY <2>1 DEF Alike, ListRight, InUse
  <2> QED
    BY <2>1, <2>2, EntryIs DEF SameEntry, ListRight, ProperEntries
<1>2. \A i \in 0..(h.used - 1) :
        /\ HasDoc(g.slot[i].tree) /\ Proper(g.slot[i].tree, w)
        /\ \A k \in DOMAIN g.slot[i].tree.frames : g.slot[i].tree.frames[k] # Bare
  <2> TAKE i \in 0..(h.used - 1)
  <2> DEFINE t == g.slot[i].tree
             e == h.slot[i].tree
  <2>1. Agree(t, e) /\ HasDoc(e) /\ Proper(e, w)
    BY <1>1 DEF SameEntry
  <2> HIDE DEF t, e
  <2>2. HasDoc(t)
    BY <2>1, Apart DEF HasDoc, Agree, SameShape, SameDoc
  <2>3. Proper(t, w)
    BY <2>1, Apart DEF Proper, Agree, SameShape, SameDoc
  <2>4. \A k \in DOMAIN t.frames : t.frames[k] # Bare
    BY <2>1, Apart DEF Agree, SameShape, SameDoc
  <2> QED
    BY <2>2, <2>3, <2>4 DEF t
<1>3. g.used = h.used /\ g.reffs = h.reffs
  BY DEF Alike
<1>4. InUse(g)
  <2> SUFFICES ASSUME NEW i \in 0..HistoryLast
               PROVE  IF i < g.used THEN g.slot[i] \in Entry /\ HasDoc(g.slot[i].tree)
                                    ELSE g.slot[i] = Absent
    BY DEF InUse
  <2>1. CASE i < h.used
    <3>1. i \in 0..(h.used - 1)
      BY <2>1, <1>0, ListIs
    <3> QED
      BY <2>1, <3>1, <1>1, <1>2, <1>3 DEF SameEntry
  <2>2. CASE ~(i < h.used)
    BY <2>2, <1>3 DEF Alike, ListRight, InUse
  <2> QED
    BY <2>1, <2>2
<1>5. \A t \in Title : UsersOf(g, t) = UsersOf(h, t)
  BY <1>1, <1>3 DEF UsersOf, SameEntry
<1>6. Shared(g)
  BY <1>3, <1>5 DEF Shared, ListRight
<1>7. ProperEntries(g, w)
  BY <1>2, <1>3 DEF ProperEntries
<1>8. \A i \in 0..(h.used - 1) : Recorded(g.slot[i].tree) = Recorded(h.slot[i].tree)
  BY <1>1, AgreeRecorded DEF SameEntry
<1> QED
  BY <1>4, <1>6, <1>7, <1>8 DEF ListRight

\* An entry that is in use, with all that is known of it
LEMMA EntryRight ==
  ASSUME NEW h, NEW w, ListRight(h, w), NEW i \in 0..(h.used - 1)
  PROVE  /\ i \in 0..HistoryLast /\ i < h.used
         /\ h.slot[i] \in Entry /\ h.slot[i] # Absent
         /\ HasDoc(h.slot[i].tree)
         /\ h.slot[i].tree \in Pane
         /\ Proper(h.slot[i].tree, w)
         /\ \A k \in DOMAIN h.slot[i].tree.frames :
              h.slot[i].tree.frames[k] \in Shown \cup {Absent}
         /\ SameEntry(h.slot[i], h.slot[i])
<1>1. h \in ListOf
  BY DEF ListRight
<1>2. i \in 0..HistoryLast /\ i < h.used
  BY <1>1, ListIs
<1>3. h.slot[i] \in Entry /\ HasDoc(h.slot[i].tree)
  BY <1>2 DEF ListRight, InUse
<1>4. /\ Proper(h.slot[i].tree, w)
      /\ \A k \in DOMAIN h.slot[i].tree.frames : h.slot[i].tree.frames[k] # Bare
  BY DEF ListRight, ProperEntries
<1>5. h.slot[i].tree \in Pane
  BY <1>3, EntryIs
<1>6. \A k \in DOMAIN h.slot[i].tree.frames : h.slot[i].tree.frames[k] \in Within
  BY <1>5, PaneIs
<1>7. SameEntry(h.slot[i], h.slot[i])
  BY <1>3, <1>4, <1>5, AgreeItself DEF SameEntry
<1> QED
  BY <1>2, <1>3, <1>4, <1>5, <1>6, <1>7, Apart DEF Within

-----------------------------------------------------------------------------
(***************************************************************************)
(* hist_append(): s entries go from the begin of the list, and those       *)
(* behind the one that is shown.                                           *)
(***************************************************************************)
\* The place of the entry that is shown, counted from 1
Current(h) == IF h.used = 0 THEN 0 ELSE h.menu + 1

\* How many go from the begin
Gone(h) == IF Current(h) > HistoryLast THEN 1 ELSE 0

TitleUsers(h, I, t) == {i \in I : h.slot[i].title = t}

LEMMA DestroyIs ==
  ASSUME NEW h \in ListOf, NEW I
  PROVE  /\ Destroy(h, I).slot = [i \in 0..HistoryLast |-> IF i \in I THEN Absent ELSE h.slot[i]]
         /\ Destroy(h, I).used = h.used
         /\ Destroy(h, I).menu = h.menu
         /\ Destroy(h, I).reffs =
              [t \in Title |-> h.reffs[t] - Cardinality(TitleUsers(h, I, t))]
         /\ Destroy(h, I) = [slot |-> Destroy(h, I).slot, used |-> h.used,
                             menu |-> h.menu, reffs |-> Destroy(h, I).reffs]
<1> DEFINE S == [i \in 0..HistoryLast |-> IF i \in I THEN Absent ELSE h.slot[i]]
           R == [t \in Title |-> h.reffs[t] - Cardinality(TitleUsers(h, I, t))]
<1>1. h = [slot |-> h.slot, used |-> h.used, menu |-> h.menu, reffs |-> h.reffs]
  BY ListIs
<1>2. Destroy(h, I) = [h EXCEPT !.slot = S, !.reffs = R]
  BY DEF Destroy, TitleUsers
<1> HIDE DEF S, R
<1>3. Destroy(h, I) = [slot |-> S, used |-> h.used, menu |-> h.menu, reffs |-> R]
  BY <1>1, <1>2
<1>4. /\ Destroy(h, I).slot = S /\ Destroy(h, I).used = h.used
      /\ Destroy(h, I).menu = h.menu /\ Destroy(h, I).reffs = R
  BY <1>3
<1> QED
  BY <1>3, <1>4 DEF S, R

LEMMA OutdatedIs ==
  ASSUME NEW h \in ListOf, h.used > 0 => h.menu < h.used
  PROVE  /\ Current(h) \in 0..(HistoryLast + 1) /\ Gone(h) \in {0, 1}
         /\ Current(h) - Gone(h) \in 0..HistoryLast
         /\ Current(h) <= h.used
         /\ Gone(h) = 1 => Current(h) = HistoryLast + 1 /\ h.used = HistoryLast + 1
                           /\ h.menu = HistoryLast
         /\ \A i : i \in Outdated(h) <=>
              i \in 0..(h.used - 1) /\ (i < Gone(h) \/ i >= Current(h))
         /\ IsFiniteSet(Outdated(h))
         /\ Cardinality(Outdated(h)) = h.used - (Current(h) - Gone(h))
<1>0. /\ h.used \in 0..(HistoryLast + 1) /\ h.used \in Nat
      /\ h.menu \in 0..HistoryLast /\ h.menu \in Nat /\ HistoryLast \in Nat \ {0}
  BY ListIs
<1>1. CASE h.used = 0
  <2>1. Outdated(h) = {}
    BY <1>1 DEF Outdated
  <2>2. Current(h) = 0 /\ Gone(h) = 0
    BY <1>0, <1>1 DEF Current, Gone
  <2> QED
    BY <1>0, <1>1, <2>1, <2>2, FS_EmptySet
<1>2. CASE h.used > 0 /\ h.menu + 1 < h.used
  <2>1. Outdated(h) = (h.menu + 1)..(h.used - 1)
    BY <1>0, <1>2 DEF Outdated
  <2>2. Current(h) = h.menu + 1 /\ Gone(h) = 0
    BY <1>0, <1>2 DEF Current, Gone
  <2>3. IsFiniteSet(Outdated(h)) /\ Cardinality(Outdated(h)) = h.used - (h.menu + 1)
    <3>1. h.menu + 1 \in Int /\ h.used - 1 \in Int
      BY <1>0
    <3>2. /\ IsFiniteSet((h.menu + 1)..(h.used - 1))
          /\ Cardinality((h.menu + 1)..(h.used - 1))
               = IF h.menu + 1 > h.used - 1 THEN 0 ELSE (h.used - 1) - (h.menu + 1) + 1
      BY <3>1, FS_Interval
    <3> QED
      BY <1>0, <1>2, <2>1, <3>2
  <2> QED
    BY <1>0, <1>2, <2>1, <2>2, <2>3
<1>3. CASE h.used > 0 /\ h.menu + 1 = h.used /\ h.menu + 1 <= HistoryLast
  <2>1. Outdated(h) = {}
    BY <1>0, <1>3 DEF Outdated
  <2>2. Current(h) = h.menu + 1 /\ Gone(h) = 0
    BY <1>0, <1>3 DEF Current, Gone
  <2> QED
    BY <1>0, <1>3, <2>1, <2>2, FS_EmptySet
<1>4. CASE h.used > 0 /\ h.menu + 1 = h.used /\ h.menu + 1 > HistoryLast
  <2>1. Outdated(h) = {0}
    BY <1>0, <1>4 DEF Outdated
  <2>2. Current(h) = h.menu + 1 /\ Gone(h) = 1 /\ h.menu = HistoryLast
    BY <1>0, <1>4 DEF Current, Gone
  <2>3. IsFiniteSet(Outdated(h)) /\ Cardinality(Outdated(h)) = 1
    BY <2>1, FS_Singleton
  <2> QED
    BY <1>0, <1>4, <2>1, <2>2, <2>3
<1> QED
  BY <1>0, <1>1, <1>2, <1>3, <1>4

\* What is left of the list
LEMMA CutIs ==
  ASSUME NEW h, NEW w, ListRight(h, w)
  PROVE  LET c == Cut(h)
             s == Gone(h)
         IN  /\ c.used = Current(h) - s /\ c.used \in 0..HistoryLast
             /\ c.menu = h.menu
             /\ c.slot \in [0..HistoryLast -> Entry \cup {Absent}]
             /\ c.reffs \in [Title -> Nat]
             /\ c = [slot |-> c.slot, used |-> c.used, menu |-> c.menu, reffs |-> c.reffs]
             /\ \A i \in 0..(c.used - 1) :
                  i + s \in 0..(h.used - 1) /\ c.slot[i] = h.slot[i + s]
             /\ \A i \in 0..HistoryLast : i > c.used => c.slot[i] = Absent
             /\ s = 0 => c.slot[c.used] = Absent
             /\ \A t \in Title : c.reffs[t] = Cardinality(UsersOf(c, t))
<1> DEFINE c == Cut(h)
           s == Gone(h)
           n == Current(h) - s
           D == Outdated(h)
           d == Destroy(h, D)
           moved == [i \in 0..HistoryLast |->
                       d.slot[IF i < HistoryLast THEN i + 1 ELSE i]]
<1>t. h \in ListOf /\ (h.used > 0 => h.menu < h.used)
  BY DEF ListRight, InUse
<1>0. /\ h.used \in 0..(HistoryLast + 1) /\ h.used \in Nat
      /\ h.menu \in 0..HistoryLast /\ h.menu \in Nat /\ HistoryLast \in Nat \ {0}
      /\ h.slot \in [0..HistoryLast -> Entry \cup {Absent}]
      /\ h.reffs \in [Title -> Nat]
  BY <1>t, ListIs
<1>1. /\ Current(h) \in 0..(HistoryLast + 1) /\ s \in {0, 1}
      /\ n \in 0..HistoryLast /\ Current(h) <= h.used
      /\ s = 1 => Current(h) = HistoryLast + 1 /\ h.used = HistoryLast + 1
                  /\ h.menu = HistoryLast
      /\ \A i : i \in D <=> i \in 0..(h.used - 1) /\ (i < s \/ i >= Current(h))
      /\ IsFiniteSet(D) /\ Cardinality(D) = h.used - n
  BY <1>t, OutdatedIs
<1>2. /\ d.slot = [i \in 0..HistoryLast |-> IF i \in D THEN Absent ELSE h.slot[i]]
      /\ d.used = h.used /\ d.menu = h.menu
      /\ d.reffs = [t \in Title |-> h.reffs[t] - Cardinality(TitleUsers(h, D, t))]
      /\ d = [slot |-> d.slot, used |-> d.used, menu |-> d.menu, reffs |-> d.reffs]
  BY <1>t, DestroyIs
<1> HIDE DEF d, D
<1>n. n = Current(h) - s /\ s = Gone(h) /\ n \in Nat
  BY <1>0, <1>1
<1> HIDE DEF n, s
<1>3. /\ c = [slot |-> c.slot, used |-> c.used, menu |-> c.menu, reffs |-> c.reffs]
      /\ c.used = n /\ c.menu = h.menu /\ c.reffs = d.reffs
      /\ s = 0 => c.slot = d.slot
      /\ s = 1 => c.slot = moved
  <2>1. CASE s = 1
    <3>0. /\ Current(h) = HistoryLast + 1 /\ h.used = HistoryLast + 1
          /\ h.menu = HistoryLast
      BY ONLY <2>1, <1>1
    <3>1. h.used > 0 /\ h.menu + 1 > HistoryLast /\ n = HistoryLast
      BY ONLY <2>1, <3>0, <1>0, <1>n
    <3>2. c = [d EXCEPT !.used = HistoryLast, !.slot = moved]
      BY <3>1 DEF Cut, d, D
    <3> HIDE DEF moved
    <3>3. c = [slot |-> moved, used |-> HistoryLast, menu |-> d.menu, reffs |-> d.reffs]
      BY <3>2, <1>2
    <3> HIDE DEF c
    <3> QED
      BY <2>1, <3>1, <3>3, <1>2
  <2>2. CASE s = 0
    <3>1. ~(h.used > 0 /\ h.menu + 1 > HistoryLast)
      BY <2>2, <1>0, <1>n DEF Gone, Current
    <3>2. c = [d EXCEPT !.used = h.used - Cardinality(D)]
      BY <3>1 DEF Cut, d, D
    <3>4. h.used - Cardinality(D) = n
      BY <1>0, <1>1, <1>n
    <3>5. c = [d EXCEPT !.used = n]
      BY <3>2, <3>4
    <3> HIDE DEF c
    <3>3. c = [slot |-> d.slot, used |-> n, menu |-> d.menu, reffs |-> d.reffs]
      BY <3>5, <1>2
    <3> QED
      BY <2>2, <3>3, <1>2
  <2> QED
    BY <2>1, <2>2, <1>1
<1> HIDE DEF c
<1>4. \A i \in 0..(n - 1) : i + s \in 0..(h.used - 1) /\ i + s \notin D
                            /\ c.slot[i] = h.slot[i + s]
  <2> TAKE i \in 0..(n - 1)
  <2>0. /\ i + s \in 0..(h.used - 1) /\ i \in 0..HistoryLast
        /\ i + s \in 0..HistoryLast /\ i < HistoryLast
        /\ ~ (i + s < s) /\ ~ (i + s >= Current(h))
    <3>1. /\ h.used \in Nat /\ HistoryLast \in Nat
          /\ Current(h) \in 0..(HistoryLast + 1) /\ Current(h) <= h.used
          /\ s \in {0, 1} /\ n = Current(h) - s /\ n \in 0..HistoryLast
      BY ONLY <1>0, <1>1, <1>n
    <3> QED
      BY ONLY <3>1, i \in 0..(n - 1)
  <2>1. i + s \in 0..(h.used - 1) /\ i + s \notin D /\ i \in 0..HistoryLast
        /\ i + s \in 0..HistoryLast
    <3>1. i + s \in D <=> i + s \in 0..(h.used - 1)
                          /\ (i + s < s \/ i + s >= Current(h))
      BY ONLY <1>1
    <3> QED
      BY ONLY <2>0, <3>1
  <2>2. d.slot[i + s] = h.slot[i + s]
    BY <1>2, <2>1
  <2>3. CASE s = 0
    BY <1>3, <2>1, <2>2, <2>3
  <2>4. CASE s = 1
    <3>1. i < HistoryLast
      BY <2>0
    <3> QED
      BY <1>3, <2>1, <2>2, <2>4, <3>1
  <2> QED
    BY <1>1, <2>1, <2>3, <2>4
<1>5. c.slot \in [0..HistoryLast -> Entry \cup {Absent}]
  <2>1. d.slot \in [0..HistoryLast -> Entry \cup {Absent}]
    BY <1>0, <1>2
  <2>2. CASE s = 1
    <3>1. \A i \in 0..HistoryLast : (IF i < HistoryLast THEN i + 1 ELSE i) \in 0..HistoryLast
      BY <1>0
    <3>2. moved \in [0..HistoryLast -> Entry \cup {Absent}]
      BY <2>1, <3>1
    <3> QED
      BY <1>3, <2>2, <3>2
  <2> QED
    BY <1>1, <1>3, <2>1, <2>2
<1>6. \A i \in 0..HistoryLast : i > n \/ (i = n /\ s = 0) => c.slot[i] = Absent
  <2> SUFFICES ASSUME NEW i \in 0..HistoryLast, i > n \/ (i = n /\ s = 0)
               PROVE  c.slot[i] = Absent
    OBVIOUS
  <2>1. s = 0
    BY <1>0, <1>1, <1>n
  <2>2. c.slot[i] = IF i \in D THEN Absent ELSE h.slot[i]
    <3>1. c.slot = d.slot
      BY <1>3, <2>1
    <3>2. d.slot[i] = IF i \in D THEN Absent ELSE h.slot[i]
      BY <1>2
    <3> QED
      BY <3>1, <3>2
  <2>3. CASE i < h.used
    <3>1. i \in D
      BY <1>0, <1>1, <1>n, <2>1, <2>3
    <3> QED
      BY <2>2, <3>1
  <2>4. CASE ~(i < h.used)
    <3>1. h.slot[i] = Absent
      BY <2>4 DEF ListRight, InUse
    <3> QED
      BY <2>2, <3>1
  <2> QED
    BY <2>3, <2>4
<1>7. ASSUME NEW t \in Title
      PROVE  c.reffs[t] = Cardinality(UsersOf(c, t)) /\ c.reffs[t] \in Nat
  <2> DEFINE U == UsersOf(h, t)
             V == TitleUsers(h, D, t)
             W == {i \in 0..(n - 1) : h.slot[i + s].title = t}
             L == {i + s : i \in W}
  <2>1. h.reffs[t] = Cardinality(U) /\ U \subseteq 0..(h.used - 1)
    BY DEF ListRight, Shared, UsersOf
  <2>2. UsersOf(c, t) = W
    <3>1. \A i \in 0..(n - 1) : c.slot[i].title = h.slot[i + s].title
      BY <1>4
    <3> QED
      BY <1>3, <3>1 DEF UsersOf
  <2>3. V \subseteq U /\ V \subseteq D
    BY <1>1 DEF TitleUsers, UsersOf
  <2>4. U \ V = L
    <3>1. ASSUME NEW i \in U \ V
          PROVE  i \in L
      <4>1. i \in 0..(h.used - 1) /\ h.slot[i].title = t /\ i \notin D
        BY DEF UsersOf, TitleUsers
      <4>2. i - s \in 0..(n - 1) /\ (i - s) + s = i
        <5>1. i \in Nat /\ s \in Nat /\ Current(h) \in Nat /\ h.used \in Nat
          BY <1>0, <1>1, <4>1
        <5>2. ~(i < s) /\ ~(i >= Current(h))
          BY <1>1, <4>1
        <5> QED
          BY ONLY <5>1, <5>2, <1>n
      <4>3. i - s \in W
        BY <4>1, <4>2
      <4> QED
        BY <4>2, <4>3
    <3>2. ASSUME NEW i \in W
          PROVE  i + s \in U \ V
      BY <1>4 DEF UsersOf, TitleUsers
    <3> QED
      BY <3>1, <3>2
  <2>5. IsFiniteSet(U) /\ IsFiniteSet(V) /\ IsFiniteSet(W) /\ IsFiniteSet(L)
    <3>1. IsFiniteSet(0..(h.used - 1)) /\ IsFiniteSet(0..(n - 1))
      <4>1. h.used - 1 \in Int /\ n - 1 \in Int
        BY <1>0, <1>n
      <4> QED
        BY <4>1, FS_Interval
    <3>2. IsFiniteSet(U)
      BY <2>1, <3>1, FS_Subset
    <3>3. IsFiniteSet(W)
      BY <3>1, FS_Subset
    <3> QED
      BY <2>3, <2>4, <3>2, <3>3, FS_Subset
  <2>6. Cardinality(L) = Cardinality(U) - Cardinality(V)
    <3>1. U \cap V = V
      BY <2>3
    <3>2. Cardinality(U \ V) = Cardinality(U) - Cardinality(U \cap V)
      BY <2>5, FS_Difference
    <3> QED
      BY <2>4, <3>1, <3>2
  <2>7. Cardinality(L) = Cardinality(W)
    <3> DEFINE f == [i \in W |-> i + s]
    <3>1. f \in Bijection(W, L)
      <4>1. f \in [W -> L]
        OBVIOUS
      <4>2. \A i, j \in W : f[i] = f[j] => i = j
        BY <1>1
      <4>3. \A l \in L : \E i \in W : f[i] = l
        OBVIOUS
      <4> QED
        BY <4>1, <4>2, <4>3 DEF Bijection, Injection, Surjection, IsInjective
    <3>2. ExistsBijection(W, L)
      BY <3>1 DEF ExistsBijection
    <3> QED
      BY <2>5, <3>2, FS_Bijection
  <2>8. c.reffs[t] = h.reffs[t] - Cardinality(V)
    BY <1>2, <1>3
  <2>9. Cardinality(W) \in Nat /\ Cardinality(U) \in Nat /\ Cardinality(V) \in Nat
    BY <2>5, FS_CardinalityType
  <2> HIDE DEF U, V, W, L
  <2>10. c.reffs[t] = Cardinality(W)
    BY <2>1, <2>6, <2>7, <2>8, <2>9
  <2> QED
    BY <2>2, <2>9, <2>10
<1>8. c.reffs \in [Title -> Nat]
  <2>1. c.reffs = [t \in Title |-> h.reffs[t] - Cardinality(TitleUsers(h, D, t))]
    BY <1>2, <1>3
  <2> QED
    BY <1>7, <2>1
<1>9. s = 0 => c.slot[c.used] = Absent
  BY <1>1, <1>3, <1>6
<1> QED
  BY <1>1, <1>n, <1>3, <1>4, <1>5, <1>6, <1>7, <1>8, <1>9 DEF c, s, n

LEMMA CutShared ==
  ASSUME NEW h, NEW w, ListRight(h, w)
  PROVE  Shared(Cut(h))
<1> DEFINE c == Cut(h)
           s == Gone(h)
<1>1. /\ \A i \in 0..(c.used - 1) : i + s \in 0..(h.used - 1) /\ c.slot[i] = h.slot[i + s]
      /\ \A t \in Title : c.reffs[t] = Cardinality(UsersOf(c, t))
      /\ c.used \in 0..HistoryLast
  BY CutIs
<1>2. s \in {0, 1} /\ h.used \in Nat
  BY OutdatedIs, ListIs DEF ListRight, InUse
<1> HIDE DEF c, s
<1>3. ASSUME NEW t \in Title, NEW i \in UsersOf(c, t), NEW j \in UsersOf(c, t),
             NEW k \in i..j
      PROVE  k \in UsersOf(c, t)
  <2>1. i \in 0..(c.used - 1) /\ j \in 0..(c.used - 1) /\ k \in 0..(c.used - 1)
        /\ c.used \in Nat
    BY <1>1, HistoryAssumption DEF UsersOf
  <2>2. i + s \in UsersOf(h, t) /\ j + s \in UsersOf(h, t)
    BY <1>1, <2>1 DEF UsersOf
  <2>3. k + s \in (i + s)..(j + s)
    BY <1>2, <2>1
  <2>4. k + s \in UsersOf(h, t)
    BY <2>2, <2>3 DEF ListRight, Shared
  <2> QED
    BY <1>1, <2>1, <2>4 DEF UsersOf
<1> QED
  BY <1>1, <1>3 DEF Shared, c

\* There are more titles than entries that stay.
LEMMA FreeTitle ==
  ASSUME NEW c, c.used \in 0..HistoryLast,
         \A t \in Title : c.reffs[t] = Cardinality(UsersOf(c, t))
  PROVE  \E t \in Title : c.reffs[t] = 0
<1> SUFFICES ASSUME \A t \in Title : c.reffs[t] # 0
             PROVE  FALSE
  OBVIOUS
<1>0. c.used \in Nat /\ HistoryLast \in Nat /\ c.used < HistoryLast + 1
  BY HistoryAssumption
<1>1. \A t \in Title : UsersOf(c, t) # {}
  BY FS_EmptySet
<1> DEFINE f == [t \in Title |-> CHOOSE i \in UsersOf(c, t) : TRUE]
<1>2. \A t \in Title : f[t] \in UsersOf(c, t)
  BY <1>1
<1>3. f \in [Title -> 0..(c.used - 1)] /\ \A t \in Title : c.slot[f[t]].title = t
  BY <1>2 DEF UsersOf
<1> HIDE DEF f
<1>4. IsFiniteSet(Title) /\ Cardinality(Title) = HistoryLast + 1
  <2>1. 1 \in Int /\ HistoryLast + 1 \in Int /\ ~(1 > HistoryLast + 1)
    BY <1>0
  <2>2. /\ IsFiniteSet(1..(HistoryLast + 1))
        /\ Cardinality(1..(HistoryLast + 1))
             = IF 1 > HistoryLast + 1 THEN 0 ELSE (HistoryLast + 1) - 1 + 1
    BY <2>1, FS_Interval
  <2> QED
    BY <1>0, <2>1, <2>2 DEF Title
<1>5. IsFiniteSet(0..(c.used - 1)) /\ Cardinality(0..(c.used - 1)) = c.used
  <2>1. 0 \in Int /\ c.used - 1 \in Int
    BY <1>0
  <2>2. /\ IsFiniteSet(0..(c.used - 1))
        /\ Cardinality(0..(c.used - 1))
             = IF 0 > c.used - 1 THEN 0 ELSE (c.used - 1) - 0 + 1
    BY <2>1, FS_Interval
  <2> QED
    BY <1>0, <2>2
<1>6. \E x, y \in Title : x # y /\ f[x] = f[y]
  <2>1. Cardinality(0..(c.used - 1)) < Cardinality(Title)
    BY <1>0, <1>4, <1>5
  <2> QED
    BY <1>3, <1>4, <1>5, <2>1, FS_PigeonHole
<1> QED
  BY <1>3, <1>6

\* The first n entries of g are those of h behind the first s.
MovedUp(h, g, n, s) ==
  \A i \in 0..(n - 1) :
    /\ i + s \in 0..(h.used - 1)
    /\ g.slot[i].tree = h.slot[i + s].tree
    /\ g.slot[i].mark \in {"blank", h.slot[i + s].mark}
    /\ i = n - 1 => g.slot[i].mark = "blank"

\* The entries of h up to the one that is shown are still there.
Left(h, g) ==
  \A i \in 0..(Current(h) - 1) : i \in 0..(h.used - 1) /\ g.slot[i] = h.slot[i]

LEMMA AppendIs ==
  ASSUME NEW h, NEW w, ListRight(h, w),
         NEW t \in Pane, HasDoc(t), Proper(t, w), NEW sub \in BOOLEAN
  PROVE  LET g == HistAppend(h, t, sub, TRUE)
             s == Gone(h)
             n == Current(h) - s
         IN  /\ ListRight(g, w)
             /\ g.used = n + 1 /\ g.menu = n
             /\ g.slot[n].tree = Recorded(t) /\ g.slot[n].mark = "blank"
             /\ MovedUp(h, g, n, s)
<1> DEFINE c == Cut(h)
           s == Gone(h)
           n == c.used
           title == IF sub /\ n > 0 THEN c.slot[n - 1].title
                    ELSE CHOOSE i \in Title : c.reffs[i] = 0
           new == [tree |-> Recorded(t), title |-> title, mark |-> "blank"]
           S == [i \in 0..HistoryLast |->
                   IF i = n THEN new
                   ELSE IF i = n - 1 THEN [c.slot[i] EXCEPT !.mark = "blank"]
                   ELSE c.slot[i]]
           R == [c.reffs EXCEPT ![title] = @ + 1]
           g == HistAppend(h, t, sub, TRUE)
<1>0. h \in ListOf /\ HistoryLast \in Nat \ {0} /\ h.used \in Nat
      /\ h.used \in 0..(HistoryLast + 1)
  BY ListIs DEF ListRight
<1>1. /\ n = Current(h) - s /\ n \in 0..HistoryLast /\ n \in Nat
      /\ c.slot \in [0..HistoryLast -> Entry \cup {Absent}]
      /\ c.reffs \in [Title -> Nat]
      /\ \A i \in 0..(n - 1) : i + s \in 0..(h.used - 1) /\ c.slot[i] = h.slot[i + s]
      /\ \A i \in 0..HistoryLast : i > n => c.slot[i] = Absent
      /\ \A u \in Title : c.reffs[u] = Cardinality(UsersOf(c, u))
  BY CutIs, <1>0
<1>2. Shared(c)
  BY CutShared
<1>3. g = [slot |-> S, used |-> n + 1, menu |-> n, reffs |-> R]
  BY DEF HistAppend
<1>4. \A i \in 0..(n - 1) : /\ i \in 0..HistoryLast
                            /\ i + s \in 0..(h.used - 1)
                            /\ c.slot[i] = h.slot[i + s]
                            /\ c.slot[i] \in Entry
                            /\ HasDoc(c.slot[i].tree) /\ Proper(c.slot[i].tree, w)
                            /\ c.slot[i].title \in Title
                            /\ \A k \in DOMAIN c.slot[i].tree.frames :
                                 c.slot[i].tree.frames[k] # Bare
  <2> TAKE i \in 0..(n - 1)
  <2>1. i \in 0..HistoryLast /\ i + s \in 0..(h.used - 1) /\ c.slot[i] = h.slot[i + s]
    BY <1>0, <1>1
  <2> DEFINE e == h.slot[i + s]
  <2>2. /\ e \in Entry /\ HasDoc(e.tree) /\ Proper(e.tree, w)
        /\ \A k \in DOMAIN e.tree.frames : e.tree.frames[k] \in Shown \cup {Absent}
    BY <2>1, EntryRight
  <2>3. e.title \in Title
    BY <2>2, EntryIs
  <2> QED
    BY <2>1, <2>2, <2>3, Apart
<1>5. \E u \in Title : c.reffs[u] = 0
  BY <1>1, FreeTitle
<1> HIDE DEF c, s, n
<1>6. /\ title \in Title
      /\ \/ n > 0 /\ n - 1 \in UsersOf(c, title)
         \/ c.reffs[title] = 0
  <2>1. CASE sub /\ n > 0
    <3>1. n - 1 \in 0..(n - 1) /\ title = c.slot[n - 1].title
      BY <1>1, <2>1
    <3>2. title \in Title
      BY <1>4, <3>1
    <3>3. n - 1 \in UsersOf(c, title)
      BY <3>1 DEF UsersOf, n
    <3> QED
      BY <2>1, <3>2, <3>3
  <2>2. CASE ~(sub /\ n > 0)
    BY <1>5, <2>2
  <2> QED
    BY <2>1, <2>2
<1> HIDE DEF title
<1>7. new \in Entry /\ new.title = title /\ new.tree = Recorded(t) /\ new.mark = "blank"
  <2>1. Recorded(t) \in Pane
    BY RecordedIs
  <2> QED
    BY <1>6, <2>1, IsEntry
<1> HIDE DEF new
<1>8. \A i \in 0..(n - 1) :
        LET e == [c.slot[i] EXCEPT !.mark = "blank"]
        IN  e \in Entry /\ e.tree = c.slot[i].tree /\ e.title = c.slot[i].title
            /\ e.mark = "blank"
  <2> TAKE i \in 0..(n - 1)
  <2> DEFINE e == c.slot[i]
  <2>1. e \in Entry
    BY <1>4
  <2> HIDE DEF e
  <2>3. [e EXCEPT !.mark = "blank"] = [tree |-> e.tree, title |-> e.title, mark |-> "blank"]
    BY <2>1, MarkIs
  <2>4. [tree |-> e.tree, title |-> e.title, mark |-> "blank"] \in Entry
    BY <2>1, EntryIs, IsEntry
  <2> QED
    BY <2>3, <2>4 DEF e
<1>9. /\ S \in [0..HistoryLast -> Entry \cup {Absent}]
      /\ S[n] = new
      /\ \A i \in 0..(n - 1) :
           /\ S[i] \in Entry /\ S[i].tree = c.slot[i].tree /\ S[i].title = c.slot[i].title
           /\ S[i].mark \in {"blank", c.slot[i].mark}
           /\ i = n - 1 => S[i].mark = "blank"
      /\ \A i \in 0..HistoryLast : i > n => S[i] = Absent
  <2>1. n \in 0..HistoryLast /\ S[n] = new
    BY <1>1
  <2>2. ASSUME NEW i \in 0..(n - 1)
        PROVE  /\ S[i] \in Entry /\ S[i].tree = c.slot[i].tree
               /\ S[i].title = c.slot[i].title
               /\ S[i].mark \in {"blank", c.slot[i].mark}
               /\ i = n - 1 => S[i].mark = "blank"
    <3>1. i \in 0..HistoryLast /\ i # n /\ c.slot[i] \in Entry
      BY <1>1, <1>4
    <3>2. S[i] = IF i = n - 1 THEN [c.slot[i] EXCEPT !.mark = "blank"] ELSE c.slot[i]
      BY <3>1
    <3> HIDE DEF S
    <3> QED
      BY <1>8, <3>1, <3>2
  <2>3. ASSUME NEW i \in 0..HistoryLast, i > n
        PROVE  S[i] = Absent
    <3>1. i # n /\ i # n - 1
      BY <1>1, <2>3
    <3>2. S[i] = c.slot[i]
      BY <3>1
    <3> HIDE DEF S
    <3> QED
      BY <1>1, <2>3, <3>2
  <2>4. \A i \in 0..HistoryLast : S[i] \in Entry \cup {Absent}
    <3> TAKE i \in 0..HistoryLast
    <3>1. i = n \/ i \in 0..(n - 1) \/ i > n
      BY <1>1
    <3> QED
      BY <1>7, <2>1, <2>2, <2>3, <3>1
  <2>5. S \in [0..HistoryLast -> Entry \cup {Absent}]
    BY <2>4
  <2> QED
    BY <2>1, <2>2, <2>3, <2>5
<1> HIDE DEF S
<1>10. R \in [Title -> Nat] /\ \A u \in Title :
         R[u] = IF u = title THEN c.reffs[u] + 1 ELSE c.reffs[u]
  BY <1>1, <1>6
<1> HIDE DEF R
<1>11. /\ g.slot = S /\ g.used = n + 1 /\ g.menu = n /\ g.reffs = R
       /\ g \in ListOf
  <2>1. n + 1 \in 0..(HistoryLast + 1) /\ n \in 0..HistoryLast
    BY <1>0, <1>1
  <2>2. S \in [0..HistoryLast -> Entry \cup {Absent}] /\ R \in [Title -> Nat]
    BY <1>9, <1>10
  <2> HIDE DEF g
  <2>3. g \in ListOf
    BY <1>3, <2>1, <2>2, IsList
  <2>4. g.slot = S /\ g.used = n + 1 /\ g.menu = n /\ g.reffs = R
    BY <1>3
  <2> QED
    BY <2>3, <2>4
<1> HIDE DEF g
<1>12. \A i \in 0..(g.used - 1) : i = n \/ i \in 0..(n - 1)
  BY <1>1, <1>11
<1>13. /\ HasDoc(Recorded(t)) /\ Proper(Recorded(t), w)
       /\ \A k \in DOMAIN Recorded(t).frames : Recorded(t).frames[k] # Bare
  <2>1. DOMAIN Recorded(t).frames = DOMAIN t.frames /\ Recorded(t).split = t.split
    BY RecordedIs
  <2>2. \A k \in DOMAIN t.frames :
          /\ t.frames[k] \in Shown => /\ Recorded(t).frames[k] \in Shown
                                      /\ Recorded(t).frames[k].doc = t.frames[k].doc
          /\ t.frames[k] \notin Shown => Recorded(t).frames[k] = Absent
    <3> TAKE k \in DOMAIN t.frames
    <3>1. t.frames[k] \in Shown =>
            /\ Recorded(t).frames[k] \in Shown
            /\ Recorded(t).frames[k] = [doc |-> t.frames[k].doc, scroll |-> FALSE]
      BY RecordedFrame
    <3> QED
      BY <3>1, RecordedFrame
  <2>3. HasDoc(Recorded(t))
    BY <2>1, <2>2 DEF HasDoc
  <2>4. Proper(Recorded(t), w)
    BY <2>1, <2>2, Apart DEF Proper
  <2>5. \A k \in DOMAIN t.frames : Recorded(t).frames[k] # Bare
    BY <2>2, Apart
  <2> QED
    BY <2>1, <2>3, <2>4, <2>5
<1>14. InUse(g)
  <2> SUFFICES ASSUME NEW i \in 0..HistoryLast
               PROVE  IF i < g.used THEN g.slot[i] \in Entry /\ HasDoc(g.slot[i].tree)
                                    ELSE g.slot[i] = Absent
    BY <1>1, <1>11 DEF InUse
  <2>1. CASE i < g.used
    <3>1. i = n \/ i \in 0..(n - 1)
      BY <1>1, <1>11, <2>1
    <3>2. g.slot[i] \in Entry /\ HasDoc(g.slot[i].tree)
      BY <1>4, <1>7, <1>9, <1>11, <1>13, <3>1
    <3> QED
      BY <2>1, <3>2
  <2>2. CASE ~(i < g.used)
    <3>1. i > n
      BY <1>1, <1>11, <2>2
    <3> QED
      BY <1>9, <1>11, <2>2, <3>1
  <2> QED
    BY <2>1, <2>2
<1>15. ProperEntries(g, w)
  <2> SUFFICES ASSUME NEW i \in 0..(g.used - 1)
               PROVE  /\ Proper(g.slot[i].tree, w)
                      /\ \A k \in DOMAIN g.slot[i].tree.frames :
                           g.slot[i].tree.frames[k] # Bare
    BY DEF ProperEntries
  <2>1. CASE i = n
    <3>1. g.slot[i].tree = Recorded(t)
      BY <1>7, <1>9, <1>11, <2>1
    <3> QED
      BY <1>13, <3>1
  <2>2. CASE i \in 0..(n - 1)
    <3>1. g.slot[i].tree = c.slot[i].tree
      BY <1>9, <1>11, <2>2
    <3> QED
      BY <1>4, <2>2, <3>1
  <2> QED
    BY <1>12, <2>1, <2>2
<1>16. ASSUME NEW u \in Title
       PROVE  UsersOf(g, u) = IF u = title THEN UsersOf(c, u) \cup {n} ELSE UsersOf(c, u)
  <2>1. \A i \in 0..(n - 1) : g.slot[i].title = c.slot[i].title
    BY <1>9, <1>11
  <2>2. g.slot[n].title = title
    BY <1>7, <1>9, <1>11
  <2>3. \A i : i \in 0..(g.used - 1) <=> i = n \/ i \in 0..(n - 1)
    BY <1>1, <1>11
  <2>4. c.used = n
    BY DEF n
  <2> QED
    BY <2>1, <2>2, <2>3, <2>4 DEF UsersOf
<1>17. Shared(g)
  <2>1. ASSUME NEW u \in Title
        PROVE  /\ IsFiniteSet(UsersOf(c, u)) /\ n \notin UsersOf(c, u)
               /\ UsersOf(c, u) \subseteq 0..(n - 1)
    <3>1. UsersOf(c, u) \subseteq 0..(n - 1)
      BY DEF UsersOf, n
    <3>2. IsFiniteSet(0..(n - 1))
      <4>1. 0 \in Int /\ n - 1 \in Int
        BY <1>1
      <4> QED
        BY <4>1, FS_Interval
    <3>3. IsFiniteSet(UsersOf(c, u))
      BY <3>1, <3>2, FS_Subset
    <3>4. n \notin 0..(n - 1)
      BY <1>1
    <3> QED
      BY <3>1, <3>3, <3>4
  <2>2. ASSUME NEW u \in Title
        PROVE  g.reffs[u] = Cardinality(UsersOf(g, u))
    <3>1. CASE u = title
      <4>1. Cardinality(UsersOf(c, u) \cup {n}) = Cardinality(UsersOf(c, u)) + 1
        BY <2>1, FS_AddElement
      <4> QED
        BY <1>1, <1>10, <1>11, <1>16, <3>1, <4>1
    <3>2. CASE u # title
      BY <1>1, <1>10, <1>11, <1>16, <3>2
    <3> QED
      BY <3>1, <3>2
  <2>3. ASSUME NEW u \in Title, NEW i \in UsersOf(g, u), NEW j \in UsersOf(g, u),
               NEW k \in i..j
        PROVE  k \in UsersOf(g, u)
    <3>1. CASE i \in UsersOf(c, u) /\ j \in UsersOf(c, u)
      <4>1. k \in UsersOf(c, u)
        BY <1>2, <3>1 DEF Shared
      <4> QED
        BY <1>16, <4>1
    <3>2. CASE i = n
      <4>1. j \in UsersOf(c, u) \/ j = n
        BY <1>16
      <4>2. j <= n /\ j \in Nat
        BY <1>1, <2>1, <4>1
      <4>3. k = n
        BY <1>1, <3>2, <4>2
      <4> QED
        BY <3>2, <4>3
    <3>3. CASE i \in UsersOf(c, u) /\ i # n /\ j = n /\ j \notin UsersOf(c, u)
      <4>1. u = title
        BY <1>16, <3>3
      <4>2. c.reffs[u] # 0
        BY <1>1, <2>1, <3>3, FS_EmptySet
      <4>3. n > 0 /\ n - 1 \in UsersOf(c, u)
        BY <1>6, <4>1, <4>2
      <4>4. i \in 0..(n - 1)
        BY <2>1, <3>3
      <4>5. k = n \/ k \in i..(n - 1)
        BY <1>1, <3>3, <4>4
      <4>6. k \in i..(n - 1) => k \in UsersOf(c, u)
        BY <1>2, <3>3, <4>3 DEF Shared
      <4> QED
        BY <1>16, <4>1, <4>5, <4>6
    <3> QED
      BY <1>16, <3>1, <3>2, <3>3
  <2> QED
    BY <2>2, <2>3 DEF Shared
<1>18. ListRight(g, w)
  BY <1>11, <1>14, <1>15, <1>17 DEF ListRight
<1>19. g.slot[n].tree = Recorded(t) /\ g.slot[n].mark = "blank"
  BY <1>7, <1>9, <1>11
<1>20. MovedUp(h, g, n, s)
  BY <1>4, <1>9, <1>11 DEF MovedUp
<1> QED
  BY <1>1, <1>11, <1>18, <1>19, <1>20 DEF g, s

\* Without memory the entries behind the one that is shown are gone.
LEMMA FailIs ==
  ASSUME NEW h, NEW w, ListRight(h, w), Gone(h) = 0, NEW t, NEW sub
  PROVE  LET g == HistAppend(h, t, sub, FALSE)
         IN  /\ ListRight(g, w)
             /\ g.used = Current(h) /\ g.menu = h.menu
             /\ Left(h, g)
<1> DEFINE c == Cut(h)
           n == c.used
           S == [c.slot EXCEPT ![n] = Absent]
           g == HistAppend(h, t, sub, FALSE)
<1>0. h \in ListOf /\ HistoryLast \in Nat \ {0} /\ h.used \in Nat
      /\ h.used \in 0..(HistoryLast + 1) /\ h.menu \in 0..HistoryLast
      /\ (h.used > 0 => h.menu < h.used)
  BY ListIs DEF ListRight, InUse
<1>1. /\ n = Current(h) /\ n \in 0..HistoryLast /\ n \in Nat
      /\ c.menu = h.menu
      /\ c.slot \in [0..HistoryLast -> Entry \cup {Absent}]
      /\ c.reffs \in [Title -> Nat]
      /\ c = [slot |-> c.slot, used |-> n, menu |-> h.menu, reffs |-> c.reffs]
      /\ \A i \in 0..(n - 1) : i \in 0..(h.used - 1) /\ c.slot[i] = h.slot[i]
      /\ \A i \in 0..HistoryLast : i >= n => c.slot[i] = Absent
  <2>1. Current(h) \in Int /\ Current(h) - 0 = Current(h)
    BY <1>0 DEF Current
  <2>2. /\ n = Current(h) - Gone(h) /\ n \in 0..HistoryLast
        /\ c.menu = h.menu
        /\ c.slot \in [0..HistoryLast -> Entry \cup {Absent}]
        /\ c.reffs \in [Title -> Nat]
        /\ c = [slot |-> c.slot, used |-> c.used, menu |-> c.menu, reffs |-> c.reffs]
        /\ \A i \in 0..(n - 1) :
             i + Gone(h) \in 0..(h.used - 1) /\ c.slot[i] = h.slot[i + Gone(h)]
        /\ \A i \in 0..HistoryLast : i > n => c.slot[i] = Absent
        /\ c.slot[n] = Absent
    BY CutIs
  <2> HIDE DEF c
  <2>3. n \in Nat /\ \A i \in 0..HistoryLast : i >= n => i > n \/ i = n
    BY <1>0, <2>2
  <2>4. \A i \in 0..(n - 1) : i + Gone(h) = i
    BY <2>3
  <2> QED
    BY <2>1, <2>2, <2>3, <2>4
<1>2. Shared(c)
  BY CutShared
<1>3. g = [c EXCEPT !.slot[n] = Absent]
  BY DEF HistAppend
<1> HIDE DEF g
<1>4. g = c
  <2>1. [c.slot EXCEPT ![n] = Absent] = c.slot
    BY <1>1
  <2>2. g = [slot |-> [c.slot EXCEPT ![n] = Absent], used |-> n, menu |-> h.menu,
             reffs |-> c.reffs]
    BY <1>1, <1>3
  <2> QED
    BY <1>1, <2>1, <2>2
<1> HIDE DEF c
<1>5. \A i \in 0..(n - 1) : i \in 0..(h.used - 1) /\ g.slot[i] = h.slot[i]
  BY <1>1, <1>4
<1>6. g \in ListOf /\ g.used = n /\ g.menu = h.menu
  BY <1>0, <1>1, <1>4, IsList
<1>7. InUse(g)
  <2>1. ASSUME NEW i \in 0..HistoryLast
        PROVE  IF i < n THEN g.slot[i] \in Entry /\ HasDoc(g.slot[i].tree)
                        ELSE g.slot[i] = Absent
    <3>1. CASE i < n
      <4>1. i \in 0..(n - 1)
        BY <1>1, <3>1
      <4>2. i \in 0..(h.used - 1) /\ g.slot[i] = h.slot[i]
        BY <1>5, <4>1
      <4> QED
        BY <3>1, <4>2, EntryRight
    <3>2. CASE ~(i < n)
      BY <1>1, <1>4, <3>2
    <3> QED
      BY <3>1, <3>2
  <2>2. n > 0 => h.menu < n
    BY <1>0, <1>1 DEF Current
  <2> QED
    BY <1>6, <2>1, <2>2 DEF InUse
<1>8. ProperEntries(g, w)
  BY <1>5, <1>6 DEF ListRight, ProperEntries
<1>9. ListRight(g, w)
  BY <1>2, <1>4, <1>6, <1>7, <1>8 DEF ListRight
<1>10. Left(h, g)
  <2>1. n = Current(h)
    BY <1>1
  <2> QED
    BY <1>5, <2>1 DEF Left
<1> QED
  BY <1>1, <1>6, <1>9, <1>10 DEF g

-----------------------------------------------------------------------------
(***************************************************************************)
(* The mark of the entry that is shown, and history_update().              *)
(***************************************************************************)
Shows(h) == h.slot[h.menu]

LEMMA ShowsIs ==
  ASSUME NEW h, NEW w, ListRight(h, w), h.used > 0
  PROVE  /\ h.menu \in 0..(h.used - 1) /\ h.menu \in 0..HistoryLast
         /\ Shows(h) \in Entry /\ Shows(h) # Absent /\ ~NoEntry(h)
         /\ Mark(h) = Shows(h).mark /\ Mark(h) \in Signs
<1>1. h.menu \in 0..(h.used - 1)
  BY ListIs DEF ListRight, InUse
<1>2. h.slot[h.menu] \in Entry /\ h.slot[h.menu] # Absent /\ h.menu \in 0..HistoryLast
  BY <1>1, EntryRight
<1>3. h.used # 0
  BY <1>1
<1> QED
  BY <1>1, <1>2, <1>3, EntryIs DEF Shows, NoEntry, Mark, Signs

\* Only slot[menu] changes.
LEMMA OneSlot ==
  ASSUME NEW h, NEW w, ListRight(h, w), h.used > 0,
         NEW e \in Entry, SameEntry(Shows(h), e),
         NEW m \in 0..(h.used - 1)
  PROVE  LET g == [slot |-> [h.slot EXCEPT ![h.menu] = e], used |-> h.used,
                   menu |-> m, reffs |-> h.reffs]
         IN  /\ g \in ListOf /\ Alike(h, g) /\ ListRight(g, w)
             /\ g.slot[h.menu] = e
             /\ \A i \in 0..HistoryLast : i # h.menu => g.slot[i] = h.slot[i]
             /\ \A i \in 0..(h.used - 1) :
                  Recorded(g.slot[i].tree) = Recorded(h.slot[i].tree)
<1> DEFINE S == [h.slot EXCEPT ![h.menu] = e]
           g == [slot |-> S, used |-> h.used, menu |-> m, reffs |-> h.reffs]
<1>1. /\ h \in ListOf
      /\ h.slot \in [0..HistoryLast -> Entry \cup {Absent}]
      /\ h.used \in 0..(HistoryLast + 1) /\ h.used \in Nat
      /\ h.reffs \in [Title -> Nat] /\ HistoryLast \in Nat
  BY ListIs DEF ListRight
<1>2. h.menu \in 0..(h.used - 1) /\ h.menu \in 0..HistoryLast
  BY ShowsIs
<1>3. /\ S \in [0..HistoryLast -> Entry \cup {Absent}]
      /\ \A i \in 0..HistoryLast : S[i] = IF i = h.menu THEN e ELSE h.slot[i]
  BY <1>1, <1>2
<1> HIDE DEF S
<1>4. m \in 0..HistoryLast
  BY <1>1
<1>5. g \in ListOf
  BY <1>1, <1>3, <1>4, IsList
<1>6. g.slot = S /\ g.used = h.used /\ g.menu = m /\ g.reffs = h.reffs
  OBVIOUS
<1> HIDE DEF g
<1>7. Alike(h, g)
  <2>1. ASSUME NEW i \in 0..HistoryLast
        PROVE  IF i < h.used THEN SameEntry(h.slot[i], g.slot[i])
                             ELSE g.slot[i] = h.slot[i]
    <3>1. CASE i = h.menu
      <4>1. i < h.used
        BY <1>1, <1>2, <3>1
      <4> QED
        BY <1>3, <1>6, <3>1, <4>1 DEF Shows
    <3>2. CASE i # h.menu
      <4>1. g.slot[i] = h.slot[i]
        BY <1>3, <1>6, <3>2
      <4>2. i < h.used => i \in 0..(h.used - 1)
        BY <1>1
      <4> QED
        BY <4>1, <4>2, EntryRight
    <3> QED
      BY <3>1, <3>2
  <2> QED
    BY <1>6, <2>1 DEF Alike
<1>8. g.menu < g.used
  BY <1>1, <1>6
<1>9. /\ ListRight(g, w)
      /\ \A i \in 0..(h.used - 1) : Recorded(g.slot[i].tree) = Recorded(h.slot[i].tree)
  BY <1>5, <1>7, <1>8, AlikeRight
<1>10. /\ g.slot[h.menu] = e
       /\ \A i \in 0..HistoryLast : i # h.menu => g.slot[i] = h.slot[i]
  BY <1>2, <1>3, <1>6
<1> QED
  BY <1>5, <1>7, <1>9, <1>10 DEF g, S

LEMMA MarkedIs ==
  ASSUME NEW h, NEW w, ListRight(h, w), h.used > 0, NEW mark \in Signs
  PROVE  LET g == Marked(h, mark)
         IN  /\ ListRight(g, w)
             /\ g.used = h.used /\ g.menu = h.menu
             /\ g.slot[h.menu].tree = h.slot[h.menu].tree
             /\ g.slot[h.menu].mark = mark /\ Mark(g) = mark
             /\ \A i \in 0..HistoryLast : i # h.menu => g.slot[i] = h.slot[i]
             /\ \A i \in 0..(h.used - 1) :
                  Recorded(g.slot[i].tree) = Recorded(h.slot[i].tree)
<1> DEFINE e == h.slot[h.menu]
           f == [tree |-> e.tree, title |-> e.title, mark |-> mark]
           g == Marked(h, mark)
<1>1. /\ h.menu \in 0..(h.used - 1) /\ h.menu \in 0..HistoryLast /\ e \in Entry
      /\ h.used # 0
  BY ShowsIs, ListIs DEF Shows, ListRight
<1>2. f \in Entry
  BY <1>1, EntryIs, IsEntry DEF Signs
<1>3. [e EXCEPT !.mark = mark] = f
  BY <1>1, MarkIs
<1>4. SameEntry(Shows(h), f)
  <2>1. SameEntry(e, e)
    BY <1>1, EntryRight
  <2>2. f.tree = e.tree /\ f.title = e.title
    OBVIOUS
  <2> HIDE DEF e, f
  <2> QED
    BY <1>2, <2>1, <2>2 DEF SameEntry, Shows, e
<1>5. g = [slot |-> [h.slot EXCEPT ![h.menu] = f], used |-> h.used,
           menu |-> h.menu, reffs |-> h.reffs]
  <2> HIDE DEF f
  <2>0. h \in ListOf
    BY DEF ListRight
  <2>1. /\ h = [slot |-> h.slot, used |-> h.used, menu |-> h.menu, reffs |-> h.reffs]
        /\ h.slot \in [0..HistoryLast -> Entry \cup {Absent}]
    BY <2>0, ListIs
  <2>2. g = [h EXCEPT !.slot = [h.slot EXCEPT ![h.menu] = [e EXCEPT !.mark = mark]]]
    BY DEF Marked
  <2>3. g = [h EXCEPT !.slot = [h.slot EXCEPT ![h.menu] = f]]
    BY <1>3, <2>2
  <2> HIDE DEF g
  <2> QED
    BY <2>1, <2>3
<1>6. f.tree = e.tree /\ f.mark = mark
  OBVIOUS
<1> HIDE DEF f
<1>7. /\ ListRight(g, w)
      /\ g.slot[h.menu] = f
      /\ \A i \in 0..HistoryLast : i # h.menu => g.slot[i] = h.slot[i]
      /\ \A i \in 0..(h.used - 1) :
           Recorded(g.slot[i].tree) = Recorded(h.slot[i].tree)
  BY <1>1, <1>2, <1>4, <1>5, OneSlot
<1>8. g.used = h.used /\ g.menu = h.menu
  BY <1>5
<1> HIDE DEF g
<1>9. Mark(g) = mark
  BY <1>1, <1>6, <1>7, <1>8 DEF Mark
<1> QED
  BY <1>6, <1>7, <1>8, <1>9 DEF g

\* Where the scroll bars are is written to the entry; if the window shows what
\* the entry says, all of it.
LEMMA UpdateIs ==
  ASSUME NEW h, NEW w, ListRight(h, w), h.used > 0, NEW t \in Pane
  PROVE  LET g == Update(h, t)
         IN  /\ ListRight(g, w)
             /\ g.used = h.used /\ g.menu = h.menu /\ g.reffs = h.reffs
             /\ Alike(h, g)
             /\ Mark(g) = Mark(h)
             /\ \A i \in 0..(h.used - 1) : g.slot[i].mark = h.slot[i].mark
             /\ \A i \in 0..HistoryLast : i # h.menu => g.slot[i] = h.slot[i]
             /\ \A i \in 0..(h.used - 1) :
                  Recorded(g.slot[i].tree) = Recorded(h.slot[i].tree)
             /\ Agree(t, h.slot[h.menu].tree) => g.slot[h.menu].tree.frames = t.frames
<1> DEFINE x == h.slot[h.menu]
           e == x.tree
           Agrees(k) == \/ t.frames[k] = Absent
                        \/ t.frames[k] = Bare /\ e.frames[k] = Absent
                        \/ /\ Absent # e.frames[k]
                           /\ t.frames[k] \notin {Absent, Bare}
                           /\ t.frames[k].doc = e.frames[k].doc
           both == DOMAIN t.frames \cap DOMAIN e.frames
           seen == {k \in both : /\ t.split = e.split
                                 /\ t.frames[k] \notin {Absent, Bare}
                                 /\ \A j \in 1..k : Agrees(j)}
           F == [k \in DOMAIN e.frames |-> IF k \in seen THEN t.frames[k] ELSE e.frames[k]]
           u == [split |-> e.split, frames |-> F]
           f == [tree |-> u, title |-> x.title, mark |-> x.mark]
           g == Update(h, t)
<1>1. /\ h.menu \in 0..(h.used - 1) /\ h.menu \in 0..HistoryLast /\ x \in Entry
      /\ h.used # 0
  BY ShowsIs, ListIs DEF Shows, ListRight
<1>2. /\ e \in Pane
      /\ \A k \in DOMAIN e.frames : e.frames[k] \in Shown \cup {Absent}
      /\ SameEntry(x, x)
      /\ x = [tree |-> e, title |-> x.title, mark |-> x.mark]
      /\ x.title \in Title /\ x.mark \in Signs
  BY <1>1, EntryRight, EntryIs DEF Signs
<1>3. \A k \in seen : /\ k \in DOMAIN t.frames /\ k \in DOMAIN e.frames
                      /\ t.frames[k] \in Shown /\ e.frames[k] \in Shown
                      /\ t.frames[k].doc = e.frames[k].doc
  <2> TAKE k \in seen
  <2>1. k \in DOMAIN t.frames /\ k \in DOMAIN e.frames /\ t.frames[k] \notin {Absent, Bare}
    OBVIOUS
  <2>2. k \in Nat \ {0} /\ t.frames[k] \in Within
    <3>1. PICK n \in Nat : t.frames \in [1..n -> Within] /\ DOMAIN t.frames = 1..n
      BY PaneIs
    <3> QED
      BY <2>1, <3>1
  <2>3. k \in 1..k
    BY <2>2
  <2>4. Agrees(k)
    BY <2>3
  <2>5. t.frames[k] \in Shown
    BY <2>1, <2>2 DEF Within
  <2> QED
    BY <1>2, <2>1, <2>4, <2>5
<1>4. g = [h EXCEPT !.slot = [h.slot EXCEPT ![h.menu] =
             [x EXCEPT !.tree = [e EXCEPT !.frames = F]]]]
  BY DEF Update
<1> HIDE DEF seen
<1>5. /\ DOMAIN F = DOMAIN e.frames
      /\ \A k \in DOMAIN e.frames : SameDoc(F[k], e.frames[k])
      /\ \A k \in DOMAIN e.frames : F[k] \in Shown \cup {Absent}
  <2>1. \A k \in DOMAIN e.frames : SameDoc(F[k], e.frames[k])
    BY <1>2, <1>3 DEF SameDoc
  <2>2. \A k \in DOMAIN e.frames : F[k] \in Shown \cup {Absent}
    BY <1>2, <1>3
  <2> QED
    BY <2>1, <2>2
<1>6. u \in Pane /\ Agree(u, e)
  <2>1. PICK n \in Nat \ {0} : /\ DOMAIN e.frames = 1..n
                               /\ e.split => n \in Widths
                               /\ ~e.split => n = 1
    BY <1>2, PaneIs
  <2>2. F \in [1..n -> Within] /\ \A k \in 1..n : F[k] # Bare
    <3> HIDE DEF F
    <3>1. \A k \in 1..n : F[k] \in Within /\ F[k] # Bare
      BY <1>5, <2>1, Apart DEF Within
    <3>2. F = [k \in 1..n |-> F[k]]
      BY <2>1 DEF F
    <3> QED
      BY <3>1, <3>2
  <2> HIDE DEF F
  <2>3. e.split \in BOOLEAN /\ (~e.split => n = 1 /\ F[1] # Bare)
    <3>1. e.split \in BOOLEAN
      BY <1>2, PaneIs
    <3> QED
      BY <2>1, <2>2, <3>1
  <2>4. u \in Pane
    BY <2>1, <2>2, <2>3, IsPane
  <2>5. Agree(u, e)
    BY <1>5 DEF Agree, SameShape
  <2> QED
    BY <2>4, <2>5
<1>7. [x EXCEPT !.tree = [e EXCEPT !.frames = F]] = f
  <2> HIDE DEF F
  <2>1. e = [split |-> e.split, frames |-> e.frames]
    BY <1>2, PaneIs
  <2>2. [e EXCEPT !.frames = F] = u
    BY <2>1
  <2> HIDE DEF u, e
  <2>3. [x EXCEPT !.tree = u] = f
    BY <1>2
  <2> QED
    BY <2>2, <2>3
<1> HIDE DEF u, F
<1>8. /\ f \in Entry /\ f.tree = u /\ f.title = x.title /\ f.mark = x.mark
      /\ SameEntry(Shows(h), f)
  <2>1. f \in Entry
    BY <1>2, <1>6, IsEntry DEF Signs
  <2>2. f.tree = u /\ f.title = x.title /\ f.mark = x.mark
    OBVIOUS
  <2> HIDE DEF f
  <2> QED
    BY <1>1, <1>6, <2>1, <2>2 DEF SameEntry, Shows
<1>9. g = [slot |-> [h.slot EXCEPT ![h.menu] = f], used |-> h.used,
           menu |-> h.menu, reffs |-> h.reffs]
  <2>0. h \in ListOf
    BY DEF ListRight
  <2>1. h = [slot |-> h.slot, used |-> h.used, menu |-> h.menu, reffs |-> h.reffs]
    BY <2>0, ListIs
  <2>2. g = [h EXCEPT !.slot = [h.slot EXCEPT ![h.menu] = f]]
    BY <1>4, <1>7
  <2> HIDE DEF g, f, e, x
  <2> QED
    BY <2>1, <2>2
<1> HIDE DEF f
<1>10. /\ ListRight(g, w) /\ Alike(h, g)
       /\ g.slot[h.menu] = f
       /\ \A i \in 0..HistoryLast : i # h.menu => g.slot[i] = h.slot[i]
       /\ \A i \in 0..(h.used - 1) :
            Recorded(g.slot[i].tree) = Recorded(h.slot[i].tree)
  BY <1>1, <1>8, <1>9, OneSlot
<1>11. g.used = h.used /\ g.menu = h.menu /\ g.reffs = h.reffs
  BY <1>9
<1> HIDE DEF g
<1>12. Mark(g) = Mark(h) /\ \A i \in 0..(h.used - 1) : g.slot[i].mark = h.slot[i].mark
  <2>1. Mark(g) = Mark(h)
    BY <1>8, <1>10, <1>11 DEF Mark
  <2>2. \A i \in 0..(h.used - 1) : i \in 0..HistoryLast
    BY EntryRight
  <2> QED
    BY <1>8, <1>10, <2>1, <2>2
<1>13. ASSUME Agree(t, e)
       PROVE  g.slot[h.menu].tree.frames = t.frames
  <2>1. /\ t.split = e.split /\ DOMAIN t.frames = DOMAIN e.frames
        /\ \A k \in DOMAIN t.frames : SameDoc(t.frames[k], e.frames[k])
    BY <1>13 DEF Agree, SameShape
  <2>2. PICK n \in Nat : t.frames \in [1..n -> Within] /\ DOMAIN t.frames = 1..n
    BY PaneIs
  <2>3. \A k \in 1..n : Agrees(k)
    BY <2>1, <2>2, Apart DEF SameDoc
  <2>4. \A k \in 1..n : \A j \in 1..k : j \in 1..n
    BY <2>2
  <2>5. \A k \in 1..n : k \in seen <=> t.frames[k] \notin {Absent, Bare}
    BY <2>1, <2>2, <2>3, <2>4 DEF seen
  <2>6. \A k \in 1..n : F[k] = t.frames[k]
    <3> TAKE k \in 1..n
    <3>1. F[k] = IF k \in seen THEN t.frames[k] ELSE e.frames[k]
      BY <2>1, <2>2 DEF F
    <3>2. SameDoc(t.frames[k], e.frames[k])
      BY <2>1, <2>2
    <3> QED
      BY <2>5, <3>1, <3>2, Apart DEF SameDoc
  <2>7. F = t.frames
    <3>1. F = [k \in 1..n |-> F[k]] /\ t.frames = [k \in 1..n |-> t.frames[k]]
      BY <2>1, <2>2 DEF F
    <3> QED
      BY <2>6, <3>1
  <2>8. u.frames = F
    BY DEF u
  <2> QED
    BY <1>8, <1>10, <2>7, <2>8
<1> QED
  BY <1>10, <1>11, <1>12, <1>13 DEF g

LEMMA AgreeJoin ==
  ASSUME NEW t, NEW u, NEW e, Agree(t, e), Agree(u, e)
  PROVE  Agree(t, u)
<1>1. SameShape(t, u)
  BY DEF Agree, SameShape
<1>2. \A k \in DOMAIN t.frames : SameDoc(t.frames[k], u.frames[k])
  <2> TAKE k \in DOMAIN t.frames
  <2>1. SameDoc(t.frames[k], e.frames[k]) /\ SameDoc(u.frames[k], e.frames[k])
    BY DEF Agree, SameShape
  <2> QED
    BY <2>1, Apart DEF SameDoc
<1> QED
  BY <1>1, <1>2 DEF Agree

-----------------------------------------------------------------------------
(***************************************************************************)
(* What a load does to the list as it starts and as it ends.               *)
(***************************************************************************)
SameTrees(h, g, n, s) ==
  \A i \in 0..(n - 1) : /\ i + s \in 0..(h.used - 1)
                        /\ Recorded(g.slot[i].tree) = Recorded(h.slot[i + s].tree)

Kept(h, g) == g.used = h.used /\ g.menu = h.menu /\ SameTrees(h, g, h.used, 0)

Appended(h, g) ==
  /\ g.used = Current(h) - Gone(h) + 1
  /\ g.menu = Current(h) - Gone(h)
  /\ SameTrees(h, g, Current(h) - Gone(h), Gone(h))

Forgotten(h, g) ==
  /\ g.used = Current(h)
  /\ g.menu = h.menu
  /\ SameTrees(h, g, Current(h), 0)

LEMMA SameTreesZero ==
  ASSUME NEW h, NEW g, NEW n \in Nat,
         \A i \in 0..(n - 1) : /\ i \in 0..(h.used - 1)
                               /\ Recorded(g.slot[i].tree) = Recorded(h.slot[i].tree)
  PROVE  SameTrees(h, g, n, 0)
<1> SUFFICES ASSUME NEW i \in 0..(n - 1)
             PROVE  /\ i + 0 \in 0..(h.used - 1)
                    /\ Recorded(g.slot[i].tree) = Recorded(h.slot[i + 0].tree)
  BY DEF SameTrees
<1>1. i + 0 = i
  OBVIOUS
<1> QED
  BY <1>1

LEMMA StartedIs ==
  ASSUME NEW h, NEW w, ListRight(h, w), NEW t \in Pane, NEW k,
         Unmarked(h, "star")
  PROVE  LET g == Started(h, t, k)
         IN  /\ ListRight(g, w)
             /\ Kept(h, g)
             /\ MarkedAtMost(g, "star")
             /\ Unmarked(h, "dot") => MarkedAtMost(g, "dot")
             /\ Mark(g) # "star"
             /\ h.used > 0 /\ Agree(t, h.slot[h.menu].tree)
                  => Agree(t, g.slot[g.menu].tree)
<1> DEFINE g == Started(h, t, k)
           u == Update(h, t)
           mark == IF k # 0 THEN "dot" ELSE "blank"
<1>0. h.used \in Nat
  <2>1. h \in ListOf
    BY DEF ListRight
  <2> QED
    BY <2>1, ListIs
<1>1. Mark(h) # "star"
  <2>1. CASE h.used = 0
    BY <2>1 DEF Mark
  <2>2. CASE h.used > 0
    <3>1. h.menu \in 0..(h.used - 1) /\ Mark(h) = h.slot[h.menu].mark
      BY <2>2, ShowsIs DEF Shows
    <3> QED
      BY <3>1 DEF Unmarked
  <2> QED
    BY <1>0, <2>1, <2>2
<1>2. CASE h.used = 0 \/ h.slot[h.menu].mark # "blank"
  <2>1. g = h
    BY <1>2 DEF Started
  <2>2. Kept(h, h)
    <3>1. \A i \in 0..(h.used - 1) : i \in 0..(h.used - 1)
      OBVIOUS
    <3>2. SameTrees(h, h, h.used, 0)
      BY <1>0, <3>1, SameTreesZero
    <3> QED
      BY <3>2 DEF Kept
  <2>3. MarkedAtMost(h, "star") /\ (Unmarked(h, "dot") => MarkedAtMost(h, "dot"))
    BY DEF MarkedAtMost, Unmarked
  <2> QED
    BY <1>1, <2>1, <2>2, <2>3
<1>3. CASE h.used > 0 /\ h.slot[h.menu].mark = "blank"
  <2>a. h.used # 0
    BY <1>0, <1>3
  <2>0. ~(h.used = 0 \/ h.slot[h.menu].mark # "blank")
    BY ONLY <1>3, <2>a
  <2>1. g = Marked(u, mark)
    BY ONLY <2>0 DEF Started
  <2>2. mark \in Signs /\ mark # "star"
    BY DEF Signs
  <2>3. /\ ListRight(u, w)
        /\ u.used = h.used /\ u.menu = h.menu
        /\ \A i \in 0..HistoryLast : i # h.menu => u.slot[i] = h.slot[i]
        /\ \A i \in 0..(h.used - 1) :
             Recorded(u.slot[i].tree) = Recorded(h.slot[i].tree)
        /\ Alike(h, u)
    BY <1>3, UpdateIs
  <2> HIDE DEF g, u, mark
  <2>4. /\ ListRight(g, w)
        /\ g.used = u.used /\ g.menu = u.menu
        /\ g.slot[u.menu].tree = u.slot[u.menu].tree
        /\ g.slot[u.menu].mark = mark /\ Mark(g) = mark
        /\ \A i \in 0..HistoryLast : i # u.menu => g.slot[i] = u.slot[i]
        /\ \A i \in 0..(u.used - 1) :
             Recorded(g.slot[i].tree) = Recorded(u.slot[i].tree)
    <3>1. u.used > 0
      BY <1>3, <2>3
    <3> QED
      BY ONLY <2>1, <2>2, <2>3, <3>1, MarkedIs
  <2>5. Kept(h, g)
    <3>1. \A i \in 0..(h.used - 1) :
             Recorded(g.slot[i].tree) = Recorded(h.slot[i].tree)
      BY <2>3, <2>4
    <3>2. SameTrees(h, g, h.used, 0)
      BY <1>0, <3>1, SameTreesZero
    <3> QED
      BY <2>3, <2>4, <3>2 DEF Kept
  <2>6. \A m \in Signs : Unmarked(h, m) => MarkedAtMost(g, m)
    <3> SUFFICES ASSUME NEW m \in Signs, Unmarked(h, m), NEW i \in 0..(h.used - 1),
                        i # h.menu
                 PROVE  g.slot[i].mark # m
      BY <2>3, <2>4 DEF MarkedAtMost
    <3>1. i \in 0..HistoryLast
      BY EntryRight
    <3>2. g.slot[i] = h.slot[i]
      BY <2>3, <2>4, <3>1
    <3> QED
      BY <3>2 DEF Unmarked
  <2>7. ASSUME Agree(t, h.slot[h.menu].tree)
        PROVE  Agree(t, g.slot[g.menu].tree)
    <3>0. h.menu \in 0..(h.used - 1) /\ h.menu \in 0..HistoryLast
      BY <1>3, ShowsIs
    <3>1. h.menu \in 0..HistoryLast /\ h.menu < h.used
      BY <3>0, <1>0
    <3>2. SameEntry(h.slot[h.menu], u.slot[h.menu])
      BY <2>3, <3>1 DEF Alike
    <3>3. Agree(u.slot[h.menu].tree, h.slot[h.menu].tree)
      BY <3>2 DEF SameEntry
    <3>4. Agree(t, u.slot[h.menu].tree)
      BY <2>7, <3>3, AgreeJoin
    <3> QED
      BY <2>3, <2>4, <3>4
  <2>8. Mark(g) # "star"
    BY <2>2, <2>4
  <2>9. MarkedAtMost(g, "star") /\ (Unmarked(h, "dot") => MarkedAtMost(g, "dot"))
    BY <2>6 DEF Signs
  <2> QED
    BY <2>4, <2>5, <2>7, <2>8, <2>9 DEF g
<1> QED
  <2>1. \/ h.used = 0 \/ h.slot[h.menu].mark # "blank"
        \/ h.used > 0 /\ h.slot[h.menu].mark = "blank"
    BY <1>0
  <2> HIDE DEF g
  <2> QED
    BY <1>2, <1>3, <2>1 DEF g

LEMMA FinishedIs ==
  ASSUME NEW h, NEW w, ListRight(h, w), NEW t \in Pane,
         NEW page \in BOOLEAN, NEW ok \in BOOLEAN,
         page => HasDoc(t) /\ Proper(t, w),
         h.used = 0 => page,
         ~ok => Adds(h, page) /\ Gone(h) = 0,
         MarkedAtMost(h, "star")
  PROVE  LET g == Finished(h, t, page, ok)
         IN  /\ ListRight(g, w)
             /\ Unmarked(g, "star")
             /\ ok /\ MarkedAtMost(h, "dot") => Unmarked(g, "dot")
             /\ Adds(h, page) /\ ok => /\ Appended(h, g)
                                       /\ g.slot[g.menu].tree = Recorded(t)
             /\ Adds(h, page) /\ ~ok => Forgotten(h, g)
             /\ ~Adds(h, page) => /\ h.used > 0
                                  /\ Kept(h, g)
                                  /\ g.slot[g.menu].tree = h.slot[h.menu].tree
<1> DEFINE g == Finished(h, t, page, ok)
           s == Gone(h)
           n == Current(h) - s
<1>0. /\ h \in ListOf /\ h.used \in Nat /\ h.menu \in Nat
      /\ h.used > 0 => h.menu < h.used
      /\ Current(h) \in Nat /\ s \in {0, 1} /\ n \in Nat
  <2>1. h \in ListOf /\ (h.used > 0 => h.menu < h.used)
    BY DEF ListRight, InUse
  <2>2. Current(h) \in 0..(HistoryLast + 1) /\ s \in {0, 1} /\ n \in 0..HistoryLast
    BY <2>1, OutdatedIs
  <2> QED
    BY <2>1, <2>2, ListIs
<1>1. CASE Adds(h, page) /\ ok
  <2>1. g = HistAppend(h, t, Mark(h) # "blank", TRUE)
    BY <1>1 DEF Finished
  <2>2. page /\ HasDoc(t) /\ Proper(t, w) /\ Mark(h) # "star"
    BY <1>1 DEF Adds
  <2>3. /\ ListRight(g, w)
        /\ g.used = n + 1 /\ g.menu = n
        /\ g.slot[n].tree = Recorded(t) /\ g.slot[n].mark = "blank"
        /\ MovedUp(h, g, n, s)
    <3> DEFINE sub == Mark(h) # "blank"
    <3>1. sub \in BOOLEAN /\ g = HistAppend(h, t, sub, TRUE)
      BY <2>1
    <3> HIDE DEF g, sub
    <3> QED
      BY ONLY <1>0, <2>2, <3>1, AppendIs, ListRight(h, w), t \in Pane
  <2> HIDE DEF g
  <2>4. Appended(h, g)
    BY <2>3 DEF Appended, SameTrees, MovedUp
  <2> HIDE DEF s, n
  <2>n. n = Current(h) - s /\ (h.used > 0 => Current(h) = h.menu + 1) /\ (h.used = 0 => Current(h) = 0)
    BY DEF n, s, Current
  <2>5. ASSUME NEW m \in Signs, m # "blank", MarkedAtMost(h, m)
        PROVE  Unmarked(g, m)
    <3> SUFFICES ASSUME NEW i \in 0..n
                 PROVE  g.slot[i].mark # m
      <4>1. g.used - 1 = n
        BY <1>0, <2>3
      <4> QED
        BY <4>1 DEF Unmarked
    <3>1. CASE i = n
      BY <2>3, <2>5, <3>1
    <3>2. CASE i = n - 1
      <4>1. i \in 0..(n - 1)
        BY <1>0, <3>2
      <4> QED
        BY <2>3, <2>5, <3>2, <4>1 DEF MovedUp
    <3>3. CASE i # n /\ i # n - 1
      <4>1. i \in 0..(n - 1)
        BY <1>0, <3>3
      <4>2. i + s \in 0..(h.used - 1) /\ g.slot[i].mark \in {"blank", h.slot[i + s].mark}
        BY <2>3, <4>1 DEF MovedUp
      <4>3. i + s # h.menu
        BY <1>0, <2>n, <3>3, <4>1, <4>2
      <4>4. h.slot[i + s].mark # m
        BY <2>5, <4>2, <4>3 DEF MarkedAtMost
      <4> QED
        BY <2>5, <4>2, <4>4
    <3> QED
      BY <3>1, <3>2, <3>3
  <2>6. Unmarked(g, "star") /\ (MarkedAtMost(h, "dot") => Unmarked(g, "dot"))
    BY <2>5 DEF Signs
  <2> QED
    BY <1>1, <2>3, <2>4, <2>6 DEF g
<1>2. CASE Adds(h, page) /\ ~ok
  <2>1. g = HistAppend(h, t, Mark(h) # "blank", FALSE)
    BY <1>2 DEF Finished
  <2>2. /\ ListRight(g, w)
        /\ g.used = Current(h) /\ g.menu = h.menu
        /\ Left(h, g)
    <3>1. s = 0
      BY <1>2
    <3>2. Gone(h) = 0
      BY <3>1
    <3> DEFINE sub == Mark(h) # "blank"
    <3>3. g = HistAppend(h, t, sub, FALSE)
      BY <2>1
    <3> HIDE DEF g, sub
    <3> QED
      BY ONLY <1>0, <3>2, <3>3, FailIs, ListRight(h, w)
  <2> HIDE DEF g
  <2>3. Forgotten(h, g)
    <3>1. SameTrees(h, g, Current(h), 0)
      BY <1>0, <2>2, SameTreesZero DEF Left
    <3> QED
      BY <2>2, <3>1 DEF Forgotten
  <2>4. Unmarked(g, "star")
    <3> SUFFICES ASSUME NEW i \in 0..(Current(h) - 1)
                 PROVE  g.slot[i].mark # "star"
      BY <2>2 DEF Unmarked
    <3>1. i \in 0..(h.used - 1) /\ g.slot[i] = h.slot[i]
      BY <2>2 DEF Left
    <3>2. CASE i = h.menu
      <4>1. h.used # 0
        BY <1>0, <3>1
      <4>2. Mark(h) = h.slot[i].mark
        BY <4>1, <3>2 DEF Mark
      <4> QED
        BY <1>2, <3>1, <4>2 DEF Adds
    <3>3. CASE i # h.menu
      BY <3>1, <3>3 DEF MarkedAtMost
    <3> QED
      BY <3>2, <3>3
  <2> QED
    BY <1>2, <2>2, <2>3, <2>4 DEF g
<1>3. CASE ~Adds(h, page)
  <2>0. ok
    BY <1>3
  <2>1. g = Marked(h, "blank")
    BY <1>3 DEF Finished
  <2>2. h.used > 0
    <3>1. CASE h.used = 0
      BY <1>3, <3>1 DEF Adds, Mark
    <3> QED
      BY <1>0, <3>1
  <2>3. "blank" \in Signs
    BY DEF Signs
  <2>4. /\ ListRight(g, w)
        /\ g.used = h.used /\ g.menu = h.menu
        /\ g.slot[h.menu].tree = h.slot[h.menu].tree
        /\ g.slot[h.menu].mark = "blank"
        /\ \A i \in 0..HistoryLast : i # h.menu => g.slot[i] = h.slot[i]
        /\ \A i \in 0..(h.used - 1) :
             Recorded(g.slot[i].tree) = Recorded(h.slot[i].tree)
    <3> HIDE DEF g
    <3> QED
      BY ONLY <2>1, <2>2, <2>3, MarkedIs, ListRight(h, w)
  <2> HIDE DEF g
  <2>5. Kept(h, g)
    <3>1. SameTrees(h, g, h.used, 0)
      BY <1>0, <2>4, SameTreesZero
    <3> QED
      BY <2>4, <3>1 DEF Kept
  <2>6. ASSUME NEW m \in Signs, m # "blank", MarkedAtMost(h, m)
        PROVE  Unmarked(g, m)
    <3> SUFFICES ASSUME NEW i \in 0..(h.used - 1)
                 PROVE  g.slot[i].mark # m
      BY <2>4 DEF Unmarked
    <3>1. CASE i = h.menu
      BY <2>4, <2>6, <3>1
    <3>2. CASE i # h.menu
      <4>1. i \in 0..HistoryLast
        BY EntryRight
      <4>2. g.slot[i] = h.slot[i]
        BY <2>4, <3>2, <4>1
      <4> QED
        BY <2>6, <3>2, <4>2 DEF MarkedAtMost
    <3> QED
      BY <3>1, <3>2
  <2>7. Unmarked(g, "star") /\ (MarkedAtMost(h, "dot") => Unmarked(g, "dot"))
    BY <2>6 DEF Signs
  <2> QED
    BY <1>3, <2>2, <2>4, <2>5, <2>7 DEF g
<1> QED
  BY <1>1, <1>2, <1>3

\* The window is told that the last load has ended.
LEMMA EndingIs ==
  ASSUME Careless = {},
         ListRight(hist, calm), MarkedRight(hist, FALSE, fails > 0),
         calm => fails = 0, fails \in 0..MaxFails, faults = {},
         NEW t \in Pane, NEW page \in BOOLEAN,
         page => HasDoc(t) /\ Proper(t, calm),
         hist.used = 0 => page,
         Ending(t, page)
  PROVE  /\ ListRight(hist', calm)
         /\ MarkedRight(hist', TRUE, fails' > 0)
         /\ calm => fails' = 0
         /\ fails' \in 0..MaxFails
         /\ faults' = {}
         /\ \/ Adds(hist, page) /\ Appended(hist, hist')
               /\ hist'.slot[hist'.menu].tree = Recorded(t)
            \/ ~calm /\ Forgotten(hist, hist')
            \/ ~Adds(hist, page) /\ hist.used > 0 /\ Kept(hist, hist')
               /\ hist'.slot[hist'.menu].tree = hist.slot[hist.menu].tree
<1>1. Reads(hist, page) = {}
  <2>1. CASE hist.used = 0
    BY <2>1 DEF Reads
  <2>2. CASE hist.used # 0
    <3>1. hist.used > 0
      <4>1. hist \in ListOf
        BY DEF ListRight
      <4>2. hist.used \in Nat
        BY <4>1, ListIs
      <4> QED
        BY <2>2, <4>2
    <3>2. ~NoEntry(hist)
      BY <3>1, ShowsIs
    <3> QED
      BY <2>2, <3>2 DEF Reads
  <2> QED
    BY <2>1, <2>2
<1>2. PICK ok \in BOOLEAN :
         /\ ok \/ /\ Adds(hist, page)
                  /\ ~calm
                  /\ fails < MaxFails
                  /\ hist.menu < HistoryLast
         /\ hist' = Finished(hist, t, page, ok)
         /\ fails' = IF ok THEN fails ELSE fails + 1
         /\ faults' = faults
  BY <1>1 DEF Ending
<1>3. ~ok => Gone(hist) = 0
  <2>1. hist \in ListOf
    BY DEF ListRight
  <2>2. hist.menu \in Nat /\ HistoryLast \in Nat
    BY <2>1, ListIs
  <2> QED
    BY <1>2, <2>2 DEF Gone, Current
<1> DEFINE g == Finished(hist, t, page, ok)
<1>4. /\ fails' \in 0..MaxFails /\ (calm => fails' = 0) /\ faults' = {}
      /\ fails > 0 \/ ~ok => fails' > 0
  <2>1. MaxFails \in Nat
    BY HistoryAssumption
  <2>2. CASE ok
    BY <1>2, <2>2
  <2>3. CASE ~ok
    BY <1>2, <2>1, <2>3
  <2> QED
    BY <2>2, <2>3
<1>5. /\ ListRight(g, calm)
      /\ Unmarked(g, "star")
      /\ ok /\ MarkedAtMost(hist, "dot") => Unmarked(g, "dot")
      /\ Adds(hist, page) /\ ok => /\ Appended(hist, g)
                                   /\ g.slot[g.menu].tree = Recorded(t)
      /\ Adds(hist, page) /\ ~ok => Forgotten(hist, g)
      /\ ~Adds(hist, page) => /\ hist.used > 0
                              /\ Kept(hist, g)
                              /\ g.slot[g.menu].tree = hist.slot[hist.menu].tree
  <2>1. MarkedAtMost(hist, "star")
    BY DEF MarkedRight
  <2>2. ~ok => Adds(hist, page) /\ Gone(hist) = 0
    BY <1>2, <1>3
  <2> HIDE DEF g
  <2>3. ok \in BOOLEAN /\ t \in Pane /\ page \in BOOLEAN /\ ListRight(hist, calm)
        /\ (page => HasDoc(t) /\ Proper(t, calm)) /\ (hist.used = 0 => page)
    OBVIOUS
  <2>4. g = Finished(hist, t, page, ok)
    BY DEF g
  <2> QED
    BY ONLY <2>1, <2>2, <2>3, <2>4, FinishedIs
<1>6. hist' = g
  BY <1>2
<1> HIDE DEF g
<1>7. MarkedRight(hist', TRUE, fails' > 0)
  BY <1>4, <1>5, <1>6 DEF MarkedRight
<1>8. CASE Adds(hist, page) /\ ok
  BY <1>4, <1>5, <1>6, <1>7, <1>8
<1>9. CASE Adds(hist, page) /\ ~ok
  BY <1>2, <1>4, <1>5, <1>6, <1>7, <1>9
<1>10. CASE ~Adds(hist, page)
  BY <1>4, <1>5, <1>6, <1>7, <1>10
<1> QED
  BY <1>8, <1>9, <1>10

-----------------------------------------------------------------------------
(***************************************************************************)
(* Lists of loads.                                                         *)
(***************************************************************************)
\* The elements of p are those of s at the places in J.
From(p, s, J) ==
  \E e \in [DOMAIN p -> J] :
    /\ \A i, j \in DOMAIN p : e[i] = e[j] => i = j
    /\ \A j \in J : \E i \in DOMAIN p : e[i] = j
    /\ \A i \in DOMAIN p : p[i] = s[e[i]]

LEMMA FromPicked ==
  ASSUME NEW T, NEW s \in Seq(T), NEW J \in SUBSET DOMAIN s
  PROVE  Picked(s, J) \in Seq(T) /\ From(Picked(s, J), s, J)
<1> DEFINE n == Cardinality(J)
           e == [k \in 1..n |-> Nth(J, k)]
<1>1. Len(s) \in Nat /\ J \in SUBSET (1..Len(s)) /\ \A i \in J : s[i] \in T
  OBVIOUS
<1>2. /\ Picked(s, J) \in Seq(T)
      /\ DOMAIN Picked(s, J) = 1..n
      /\ \A k \in 1..n : Picked(s, J)[k] = s[Nth(J, k)]
  <2> DEFINE N == Len(s)
  <2>1. N \in Nat /\ J \in SUBSET (1..N) /\ \A i \in J : s[i] \in T
    BY <1>1
  <2> HIDE DEF N
  <2>2. Picked(s, J) \in Seq(T)
    BY ONLY <2>1, PickedElements, Zenon
  <2>3. DOMAIN Picked(s, J) = 1..n
    BY ONLY <2>1, PickedElements, Zenon
  <2>4. \A k \in 1..n : Picked(s, J)[k] = s[Nth(J, k)]
    BY DEF Picked
  <2> QED
    BY <2>2, <2>3, <2>4
<1>3. /\ \A k \in 1..n : Nth(J, k) \in J
      /\ \A k, l \in 1..n : Nth(J, k) = Nth(J, l) => k = l
      /\ \A i \in J : \E k \in 1..n : Nth(J, k) = i
  BY <1>1, NthPlace
<1> HIDE DEF n
<1>4. e \in [1..n -> J] /\ \A k \in 1..n : e[k] = Nth(J, k)
  BY <1>3
<1> HIDE DEF e
<1>5. /\ \A i, j \in 1..n : e[i] = e[j] => i = j
      /\ \A j \in J : \E i \in 1..n : e[i] = j
      /\ \A i \in 1..n : Picked(s, J)[i] = s[e[i]]
  BY <1>2, <1>3, <1>4
<1> DEFINE p == Picked(s, J)
<1>6. /\ e \in [DOMAIN p -> J]
      /\ \A i, j \in DOMAIN p : e[i] = e[j] => i = j
      /\ \A j \in J : \E i \in DOMAIN p : e[i] = j
      /\ \A i \in DOMAIN p : p[i] = s[e[i]]
  BY <1>2, <1>4, <1>5
<1> HIDE DEF p
<1>7. From(p, s, J)
  BY ONLY <1>6 DEF From
<1> QED
  BY <1>2, <1>7 DEF p

LEMMA RemoveAtIs ==
  ASSUME NEW T, NEW s \in Seq(T), NEW i \in DOMAIN s
  PROVE  /\ RemoveAt(s, i) \in Seq(T)
         /\ Len(RemoveAt(s, i)) = Len(s) - 1
         /\ From(RemoveAt(s, i), s, DOMAIN s \ {i})
<1> DEFINE n == Len(s)
           a == SubSeq(s, 1, i - 1)
           b == SubSeq(s, i + 1, n)
           r == a \o b
           e == [k \in 1..(n - 1) |-> IF k < i THEN k ELSE k + 1]
<1>1. n \in Nat /\ i \in 1..n /\ DOMAIN s = 1..n /\ \A k \in 1..n : s[k] \in T
  OBVIOUS
<1>2. a \in Seq(T) /\ Len(a) = i - 1 /\ \A k \in 1..(i - 1) : a[k] = s[k]
  BY <1>1
<1>3. b \in Seq(T) /\ Len(b) = n - i /\ \A k \in 1..(n - i) : b[k] = s[i + k]
  <2>1. i + 1 \in Int /\ n \in Int /\ \A k \in (i + 1)..n : s[k] \in T
    BY <1>1
  <2>2. /\ b \in Seq(T)
        /\ Len(b) = IF i + 1 <= n THEN n - (i + 1) + 1 ELSE 0
        /\ \A k \in 1..(n - (i + 1) + 1) : b[k] = s[(i + 1) + k - 1]
    <3> HIDE DEF n
    <3> QED
      BY ONLY <2>1, SubSeqProperties
  <2> HIDE DEF b, n
  <2>3. Len(b) = n - i
    BY <1>1, <2>2
  <2>4. \A k \in 1..(n - i) : k \in 1..(n - (i + 1) + 1) /\ (i + 1) + k - 1 = i + k
    BY <1>1
  <2> QED
    BY <2>2, <2>3, <2>4
<1> HIDE DEF a, b, n
<1>4. r \in Seq(T) /\ Len(r) = n - 1
  <2>1. r \in Seq(T) /\ Len(r) = Len(a) + Len(b)
    BY <1>2, <1>3, ConcatProperties
  <2> QED
    BY <1>1, <1>2, <1>3, <2>1
<1>5. \A k \in 1..(n - 1) : r[k] = s[IF k < i THEN k ELSE k + 1]
  <2> TAKE k \in 1..(n - 1)
  <2>1. r[k] = IF k <= i - 1 THEN a[k] ELSE b[k - (i - 1)]
    BY <1>1, <1>2, <1>3
  <2>2. CASE k < i
    BY <1>1, <1>2, <2>1, <2>2
  <2>3. CASE ~(k < i)
    <3>1. k - (i - 1) \in 1..(n - i) /\ i + (k - (i - 1)) = k + 1
      BY <1>1, <2>3
    <3>2. b[k - (i - 1)] = s[k + 1]
      BY <1>3, <3>1
    <3> QED
      BY <1>1, <2>1, <2>3, <3>2
  <2> QED
    BY <2>2, <2>3
<1>6. RemoveAt(s, i) = r
  BY DEF RemoveAt, a, b, n
<1> HIDE DEF r
<1>7. DOMAIN r = 1..(n - 1)
  BY <1>1, <1>4
<1>8. /\ e \in [1..(n - 1) -> DOMAIN s \ {i}]
      /\ \A k, l \in 1..(n - 1) : e[k] = e[l] => k = l
      /\ \A k \in 1..(n - 1) : r[k] = s[e[k]]
  BY <1>1, <1>5
<1>9. \A j \in DOMAIN s \ {i} : \E k \in 1..(n - 1) : e[k] = j
  <2> TAKE j \in DOMAIN s \ {i}
  <2>1. CASE j < i
    <3>1. j \in 1..(n - 1) /\ e[j] = j
      BY <1>1, <2>1
    <3> QED
      BY <3>1
  <2>2. CASE ~(j < i)
    <3>1. j - 1 \in 1..(n - 1) /\ e[j - 1] = j
      BY <1>1, <2>2
    <3> QED
      BY <3>1
  <2> QED
    BY <2>1, <2>2
<1> HIDE DEF e
<1>10. From(r, s, DOMAIN s \ {i})
  <2> DEFINE J == DOMAIN s \ {i}
  <2>1. /\ e \in [DOMAIN r -> J]
        /\ \A k, l \in DOMAIN r : e[k] = e[l] => k = l
        /\ \A j \in J : \E k \in DOMAIN r : e[k] = j
        /\ \A k \in DOMAIN r : r[k] = s[e[k]]
    BY <1>7, <1>8, <1>9
  <2> HIDE DEF J
  <2>2. From(r, s, J)
    BY ONLY <2>1 DEF From
  <2> QED
    BY <2>2 DEF J
<1> QED
  BY <1>4, <1>6, <1>10 DEF n

LEMMA LoadIs ==
  ASSUME NEW l \in Load
  PROVE  /\ l.target \in Nat /\ l.doc \in Doc /\ l.scroll \in BOOLEAN
         /\ l.parsing \in BOOLEAN
         /\ LET m == [l EXCEPT !.parsing = TRUE]
            IN  /\ m \in Load /\ m.parsing
                /\ m.target = l.target /\ m.doc = l.doc
         /\ Content(l) \in Shown /\ Content(l).doc = l.doc
BY DEF Load, Content, Shown

LEMMA NewLoadIs ==
  ASSUME NEW k \in Nat, NEW d \in Doc, NEW s \in BOOLEAN
  PROVE  LET l == NewLoad(k, d, s)
         IN  /\ l \in Load /\ l.target = k /\ l.doc = d /\ ~l.parsing
BY DEF Load, NewLoad

LEMMA PlacesNat ==
  ASSUME NEW t \in Pane
  PROVE  /\ Places(t) \subseteq Nat
         /\ DOMAIN t.frames \subseteq Nat \ {0}
         /\ ~t.split => Places(t) = {0} /\ DOMAIN t.frames = {1}
BY PaneIs DEF Places

LEMMA LoadsFrom ==
  ASSUME NEW ls, NEW t, NEW u, LoadsRight(ls, t, u),
         NEW J \in SUBSET DOMAIN ls, NEW p \in Seq(Load), From(p, ls, J),
         NEW t2, NEW u2, \A j \in J : LoadRight(ls[j], t2, u2)
  PROVE  LoadsRight(p, t2, u2)
<1>1. PICK e \in [DOMAIN p -> J] :
         /\ \A i, j \in DOMAIN p : e[i] = e[j] => i = j
         /\ \A i \in DOMAIN p : p[i] = ls[e[i]]
  BY DEF From
<1>2. \A i \in DOMAIN p : e[i] \in J /\ e[i] \in DOMAIN ls /\ p[i] = ls[e[i]]
  BY <1>1
<1>3. \A i \in DOMAIN p : LoadRight(p[i], t2, u2)
  BY <1>2
<1>4. \A i, j \in DOMAIN p :
        i # j /\ p[i].parsing /\ p[j].parsing => p[i].target # p[j].target
  <2> SUFFICES ASSUME NEW i \in DOMAIN p, NEW j \in DOMAIN p, i # j,
                      p[i].parsing, p[j].parsing
               PROVE  p[i].target # p[j].target
    OBVIOUS
  <2>1. e[i] # e[j] /\ e[i] \in DOMAIN ls /\ e[j] \in DOMAIN ls
    BY <1>1, <1>2
  <2>2. ls[e[i]].parsing /\ ls[e[j]].parsing
    BY <1>2
  <2>3. ls[e[i]].target # ls[e[j]].target
    BY <2>1, <2>2 DEF LoadsRight
  <2> QED
    BY <1>2, <2>3
<1> QED
  BY <1>3, <1>4 DEF LoadsRight

LEMMA LoadsAppend ==
  ASSUME NEW p, NEW t, NEW u, LoadsRight(p, t, u),
         NEW l \in Load, LoadRight(l, t, u),
         l.parsing => \A j \in DOMAIN p : p[j].parsing => p[j].target # l.target
  PROVE  LET q == Append(p, l)
         IN  /\ LoadsRight(q, t, u)
             /\ q # <<>> /\ Len(q) = Len(p) + 1
             /\ DOMAIN q = DOMAIN p \cup {Len(q)} /\ Len(q) \notin DOMAIN p
             /\ q[Len(q)] = l
             /\ \A i \in DOMAIN p : q[i] = p[i]
<1> DEFINE q == Append(p, l)
           n == Len(p)
<1>1. p \in Seq(Load) /\ n \in Nat /\ DOMAIN p = 1..n
  BY DEF LoadsRight
<1>2. /\ q \in Seq(Load) /\ Len(q) = n + 1
      /\ \A i \in 1..n : q[i] = p[i]
      /\ q[n + 1] = l
  BY <1>1, AppendProperties
<1> HIDE DEF q, n
<1>3. DOMAIN q = 1..(n + 1) /\ DOMAIN q = DOMAIN p \cup {n + 1} /\ n + 1 \notin DOMAIN p
      /\ q # <<>>
  BY <1>1, <1>2
<1>4. \A i \in DOMAIN q : LoadRight(q[i], t, u)
  BY <1>1, <1>2, <1>3 DEF LoadsRight
<1>5. \A i, j \in DOMAIN p :
        i # j /\ p[i].parsing /\ p[j].parsing => p[i].target # p[j].target
  BY DEF LoadsRight
<1>6. \A i, j \in DOMAIN q :
        i # j /\ q[i].parsing /\ q[j].parsing => q[i].target # q[j].target
  <2> SUFFICES ASSUME NEW i \in DOMAIN q, NEW j \in DOMAIN q, i # j,
                      q[i].parsing, q[j].parsing
               PROVE  q[i].target # q[j].target
    OBVIOUS
  <2>1. CASE i \in DOMAIN p /\ j \in DOMAIN p
    BY <1>1, <1>2, <1>5, <2>1
  <2>2. CASE i = n + 1 /\ j \in DOMAIN p
    BY <1>1, <1>2, <2>2
  <2>3. CASE i \in DOMAIN p /\ j = n + 1
    BY <1>1, <1>2, <2>3
  <2> QED
    BY <1>3, <2>1, <2>2, <2>3
<1>7. LoadsRight(q, t, u)
  BY <1>2, <1>4, <1>6 DEF LoadsRight
<1> QED
  BY <1>1, <1>2, <1>3, <1>7 DEF q, n

\* The loads r are those of p and those of q.
Joined(r, p, q) ==
  /\ \A i \in DOMAIN r : \/ \E j \in DOMAIN p : r[i] = p[j]
                         \/ \E j \in DOMAIN q : r[i] = q[j]
  /\ \A j \in DOMAIN p : \E i \in DOMAIN r : r[i] = p[j]
  /\ \A j \in DOMAIN q : \E i \in DOMAIN r : r[i] = q[j]

LEMMA LoadsJoin ==
  ASSUME NEW p, NEW q, NEW t, NEW u, LoadsRight(p, t, u), LoadsRight(q, t, u),
         \A j \in DOMAIN q : ~q[j].parsing
  PROVE  /\ LoadsRight(p \o q, t, u)
         /\ q # <<>> => p \o q # <<>>
         /\ Joined(p \o q, p, q)
<1> DEFINE r == p \o q
           n == Len(p)
           m == Len(q)
<1>1. /\ p \in Seq(Load) /\ n \in Nat /\ DOMAIN p = 1..n
      /\ q \in Seq(Load) /\ m \in Nat /\ DOMAIN q = 1..m
  BY DEF LoadsRight
<1>2. r \in Seq(Load) /\ Len(r) = n + m
  BY <1>1, ConcatProperties
<1>a. \A i \in 1..(n + m) : r[i] = IF i <= n THEN p[i] ELSE q[i - n]
  BY <1>1, ConcatProperties
<1> HIDE DEF r, n, m
<1>3. DOMAIN r = 1..(n + m)
  BY <1>1, <1>2
<1>4. \A i \in DOMAIN p : i \in DOMAIN r /\ r[i] = p[i]
  BY <1>1, <1>3, <1>a
<1>5. \A i \in DOMAIN q : n + i \in DOMAIN r /\ r[n + i] = q[i]
  <2> TAKE i \in DOMAIN q
  <2>1. n + i \in 1..(n + m) /\ ~(n + i <= n) /\ (n + i) - n = i
    BY <1>1
  <2> QED
    BY <1>3, <1>a, <2>1
<1>6. \A i \in DOMAIN r : i \in DOMAIN p \/ \E j \in DOMAIN q : i = n + j
  <2> TAKE i \in DOMAIN r
  <2>1. CASE i <= n
    BY <1>1, <1>3, <2>1
  <2>2. CASE ~(i <= n)
    <3>1. i - n \in 1..m /\ i = n + (i - n)
      BY <1>1, <1>3, <2>2
    <3> QED
      BY <1>1, <3>1
  <2> QED
    BY <2>1, <2>2
<1>7. \A i \in DOMAIN r : \/ \E j \in DOMAIN p : r[i] = p[j]
                          \/ \E j \in DOMAIN q : r[i] = q[j]
  BY <1>4, <1>5, <1>6
<1>8. \A i \in DOMAIN r : LoadRight(r[i], t, u)
  BY <1>7 DEF LoadsRight
<1>9. \A i, j \in DOMAIN r :
        i # j /\ r[i].parsing /\ r[j].parsing => r[i].target # r[j].target
  <2> SUFFICES ASSUME NEW i \in DOMAIN r, NEW j \in DOMAIN r, i # j,
                      r[i].parsing, r[j].parsing
               PROVE  r[i].target # r[j].target
    OBVIOUS
  <2>1. i \in DOMAIN p /\ j \in DOMAIN p
    BY <1>5, <1>6
  <2>2. r[i] = p[i] /\ r[j] = p[j]
    BY <1>4, <2>1
  <2> QED
    BY <2>1, <2>2 DEF LoadsRight
<1>10. LoadsRight(r, t, u)
  BY <1>2, <1>8, <1>9 DEF LoadsRight
<1>11. q # <<>> => r # <<>>
  <2> SUFFICES ASSUME q # <<>> PROVE r # <<>>
    OBVIOUS
  <2>1. m > 0
    BY <1>1 DEF m
  <2> QED
    BY <1>1, <1>2, <2>1
<1>12. /\ \A j \in DOMAIN p : \E i \in DOMAIN r : r[i] = p[j]
       /\ \A j \in DOMAIN q : \E i \in DOMAIN r : r[i] = q[j]
  BY <1>4, <1>5
<1> QED
  BY <1>7, <1>10, <1>11, <1>12 DEF r, Joined

-----------------------------------------------------------------------------
(***************************************************************************)
(* The user's actions.                                                     *)
(***************************************************************************)
LEMMA QuietIs ==
  ASSUME LoadsRight(loads, tree, hist.used)
  PROVE  Quiet <=> Len(loads) = 0
BY DEF LoadsRight, Quiet

LEMMA HistUsed ==
  ASSUME HInv
  PROVE  /\ hist \in ListOf /\ hist.used \in Nat /\ hist.menu \in Nat
         /\ hist.used = 0 \/ hist.used > 0
         /\ hist.used > 0 => hist.menu \in 0..(hist.used - 1) /\ ~NoEntry(hist)
                             /\ hist.slot[hist.menu].tree \in Pane
                             /\ Proper(hist.slot[hist.menu].tree, calm)
                             /\ Mark(hist) = hist.slot[hist.menu].mark
<1>1. ListRight(hist, calm) /\ hist \in ListOf
  BY DEF HInv, ListRight
<1>2. hist.used \in Nat /\ hist.menu \in Nat
  BY <1>1, ListIs
<1>3. ASSUME hist.used > 0
      PROVE  hist.menu \in 0..(hist.used - 1) /\ ~NoEntry(hist)
             /\ hist.slot[hist.menu].tree \in Pane
             /\ Proper(hist.slot[hist.menu].tree, calm)
             /\ Mark(hist) = hist.slot[hist.menu].mark
  <2>1. hist.menu \in 0..(hist.used - 1) /\ ~NoEntry(hist)
        /\ Mark(hist) = hist.slot[hist.menu].mark
    BY <1>1, <1>3, ShowsIs DEF Shows
  <2> QED
    BY <1>1, <2>1, EntryRight
<1> QED
  BY <1>1, <1>2, <1>3

LEMMA FollowRight ==
  ASSUME HInv, Careless = {}, NEW k \in Containers, NEW d \in Doc, Follow(k, d)
  PROVE  HInv' /\ Kept(hist, hist')
<1> DEFINE l == NewLoad(k, d, FALSE)
<1>0. /\ tree \in Pane /\ Proper(tree, calm) /\ ListRight(hist, calm)
      /\ LoadsRight(loads, tree, hist.used)
      /\ MarkedRight(hist, Quiet, fails > 0)
      /\ visits \in 0..MaxVisits /\ MaxVisits \in Nat
      /\ calm => Calmly(tree, loads, hist) /\ fails = 0
  BY HistoryAssumption DEF HInv
<1>1. /\ k # 0 => d \notin DOMAIN Frames
      /\ hist.used = 0 => d \notin Outside
      /\ calm => Quiet
      /\ visits < MaxVisits
      /\ loads' = Append(loads, l)
      /\ visits' = visits + 1
      /\ UNCHANGED <<tree, calm, fails, open>>
  BY DEF Follow
<1>2. /\ faults' = faults
      /\ hist' = IF Quiet THEN Started(hist, tree, k) ELSE hist
  BY HistUsed DEF Follow
<1>3. k \in Places(tree) /\ k \in Nat
  BY <1>0, PlacesNat DEF Containers, Places
<1>4. l \in Load /\ l.target = k /\ l.doc = d /\ ~l.parsing
  BY <1>3, NewLoadIs
<1> HIDE DEF l
<1>5. LoadRight(l, tree, hist.used)
  BY <1>1, <1>3, <1>4 DEF LoadRight
<1>6. /\ LoadsRight(loads', tree, hist.used)
      /\ loads' # <<>> /\ Len(loads') = Len(loads) + 1
  BY <1>0, <1>1, <1>4, <1>5, LoadsAppend
<1>7. CASE ~Quiet
  <2>1. hist' = hist /\ ~calm
    BY <1>1, <1>2, <1>7
  <2>2. Kept(hist, hist)
    <3>1. \A i \in 0..(hist.used - 1) : i \in 0..(hist.used - 1)
      OBVIOUS
    <3>2. SameTrees(hist, hist, hist.used, 0)
      BY <3>1, SameTreesZero, HistUsed
    <3> QED
      BY <3>2 DEF Kept
  <2>3. MarkedRight(hist', Quiet', fails' > 0)
    BY <1>0, <1>1, <1>6, <1>7, <2>1 DEF Quiet, MarkedRight
  <2>4. HInv'
    <3>1. tree' \in Pane /\ Proper(tree', calm')
      BY <1>0, <1>1
    <3>2. ListRight(hist', calm') /\ LoadsRight(loads', tree', hist'.used)
      BY <1>0, <1>1, <1>6, <2>1
    <3>5. visits' \in 0..MaxVisits
      BY <1>0, <1>1
    <3> QED
      BY <1>1, <1>2, <2>1, <2>3, <3>1, <3>2, <3>5 DEF HInv
  <2> QED
    BY <2>1, <2>2, <2>4
<1>8. CASE Quiet
  <2>1. hist' = Started(hist, tree, k)
    BY <1>2, <1>8
  <2>2. Unmarked(hist, "star") /\ (fails > 0 \/ Unmarked(hist, "dot"))
    BY <1>0, <1>8 DEF MarkedRight
  <2>3. /\ ListRight(hist', calm)
        /\ Kept(hist, hist')
        /\ MarkedAtMost(hist', "star")
        /\ Unmarked(hist, "dot") => MarkedAtMost(hist', "dot")
        /\ Mark(hist') # "star"
        /\ hist.used > 0 /\ Agree(tree, hist.slot[hist.menu].tree)
             => Agree(tree, hist'.slot[hist'.menu].tree)
    BY <1>0, <2>1, <2>2, StartedIs
  <2>4. hist'.used = hist.used
    BY <2>3 DEF Kept
  <2>5. Quiet' = FALSE
    BY <1>6 DEF Quiet
  <2>6. ASSUME calm
        PROVE  Calmly(tree, loads', hist')
    <3>1. /\ \A j \in DOMAIN tree.frames : tree.frames[j] # Bare
          /\ hist.used > 0 => Agree(tree, hist.slot[hist.menu].tree)
      BY <1>0, <1>8, <2>6 DEF Calmly, Quiet
    <3>2. Len(loads') = 1
      BY <1>0, <1>6, <1>8, QuietIs
    <3>3. Following(tree, loads', hist')
      BY <2>3, <2>4, <3>1, <3>2 DEF Following
    <3> QED
      BY <1>6, <2>3, <3>1, <3>3 DEF Calmly
  <2>7. MarkedRight(hist', FALSE, fails > 0)
    BY <2>2, <2>3 DEF MarkedRight
  <2>8. HInv'
    <3>1. tree' \in Pane /\ Proper(tree', calm')
      BY <1>0, <1>1
    <3>2. ListRight(hist', calm') /\ LoadsRight(loads', tree', hist'.used)
      BY <1>1, <1>6, <2>3, <2>4
    <3>3. MarkedRight(hist', Quiet', fails' > 0)
      BY <1>1, <2>5, <2>7
    <3>4. calm' => Calmly(tree', loads', hist') /\ fails' = 0
      BY <1>0, <1>1, <2>6
    <3>5. visits' \in 0..MaxVisits
      BY <1>0, <1>1
    <3> QED
      BY <1>1, <1>2, <3>1, <3>2, <3>3, <3>4, <3>5 DEF HInv
  <2> QED
    BY <2>3, <2>8
<1> QED
  BY <1>7, <1>8

LEMMA KeptItself ==
  ASSUME HInv
  PROVE  Kept(hist, hist)
<1>1. \A i \in 0..(hist.used - 1) : i \in 0..(hist.used - 1)
  OBVIOUS
<1>2. SameTrees(hist, hist, hist.used, 0)
  BY <1>1, SameTreesZero, HistUsed
<1> QED
  BY <1>2 DEF Kept

\* A frame that scrolls has the document it had.
LEMMA ScrolledIs ==
  ASSUME NEW t \in Pane, NEW k \in DOMAIN t.frames, t.frames[k] \in Shown
  PROVE  LET u == [t EXCEPT !.frames[k].scroll = ~@]
         IN  /\ u \in Pane /\ SameShape(u, t)
             /\ \A j \in DOMAIN t.frames :
                  IF j = k THEN u.frames[j] \in Shown /\ u.frames[j].doc = t.frames[j].doc
                           ELSE u.frames[j] = t.frames[j]
<1> DEFINE f == t.frames[k]
           g == [f EXCEPT !.scroll = ~f.scroll]
           F == [t.frames EXCEPT ![k] = g]
           u == [t EXCEPT !.frames[k].scroll = ~@]
<1>1. g \in Shown /\ g.doc = f.doc
  BY DEF Shown
<1>2. u = [t EXCEPT !.frames = [t.frames EXCEPT ![k] = [t.frames[k] EXCEPT !.scroll = ~t.frames[k].scroll]]]
  OBVIOUS
<1>3. u = [t EXCEPT !.frames = F]
  BY <1>2
<1> HIDE DEF u, g
<1>4. PICK n \in Nat \ {0} : /\ DOMAIN t.frames = 1..n
                             /\ t.frames \in [1..n -> Within]
                             /\ t.split => n \in Widths
                             /\ ~t.split => n = 1 /\ t.frames[1] # Bare
  BY PaneIs
<1>5. /\ F \in [1..n -> Within] /\ DOMAIN F = 1..n
      /\ \A j \in 1..n : F[j] = IF j = k THEN g ELSE t.frames[j]
  BY <1>1, <1>4 DEF Within
<1> HIDE DEF F
<1>6. u = [split |-> t.split, frames |-> F] /\ t.split \in BOOLEAN
  BY <1>3, PaneIs
<1>7. ~t.split => F[1] # Bare
  BY <1>1, <1>4, <1>5, Apart
<1>8. u \in Pane
  BY <1>4, <1>5, <1>6, <1>7, IsPane
<1>9. u.split = t.split /\ u.frames = F
  BY <1>6
<1>10. SameShape(u, t)
  BY <1>4, <1>5, <1>9 DEF SameShape
<1>11. \A j \in DOMAIN t.frames :
         IF j = k THEN u.frames[j] \in Shown /\ u.frames[j].doc = t.frames[j].doc
                  ELSE u.frames[j] = t.frames[j]
  BY <1>1, <1>4, <1>5, <1>9
<1> QED
  BY <1>8, <1>10, <1>11 DEF u

LEMMA ScrollFrameRight ==
  ASSUME HInv, NEW k \in DOMAIN tree.frames, ScrollFrame(k)
  PROVE  HInv' /\ Kept(hist, hist')
<1> DEFINE u == [tree EXCEPT !.frames[k].scroll = ~@]
<1>0. /\ tree \in Pane /\ Proper(tree, calm)
      /\ LoadsRight(loads, tree, hist.used)
      /\ calm => Calmly(tree, loads, hist)
  BY DEF HInv
<1>1. tree' = u /\ tree.frames[k] \in Shown
      /\ UNCHANGED <<loads, hist, calm, visits, fails, open, faults>>
  BY DEF ScrollFrame
<1>2. /\ u \in Pane /\ SameShape(u, tree)
      /\ \A j \in DOMAIN tree.frames :
           IF j = k THEN u.frames[j] \in Shown /\ u.frames[j].doc = tree.frames[j].doc
                    ELSE u.frames[j] = tree.frames[j]
  BY <1>0, <1>1, ScrolledIs
<1> HIDE DEF u
<1>3. /\ u.split = tree.split /\ DOMAIN u.frames = DOMAIN tree.frames
      /\ Places(u) = Places(tree)
  BY <1>2 DEF SameShape, Places
<1>4. Proper(u, calm)
  BY <1>0, <1>1, <1>2, <1>3 DEF Proper
<1>5. LoadsRight(loads, u, hist.used)
  BY <1>0, <1>3 DEF LoadsRight, LoadRight
<1>6. \A j \in DOMAIN tree.frames : /\ u.frames[j] = Bare => tree.frames[j] = Bare
                                    /\ \A f : SameDoc(tree.frames[j], f) => SameDoc(u.frames[j], f)
  <2> TAKE j \in DOMAIN tree.frames
  <2>1. CASE j = k
    BY <1>1, <1>2, <2>1, Apart DEF SameDoc
  <2>2. CASE j # k
    BY <1>2, <2>2
  <2> QED
    BY <2>1, <2>2
<1>7. \A e : /\ Agree(tree, e) => Agree(u, e)
             /\ Restoring(tree, loads, e) => Restoring(u, loads, e)
  <2> TAKE e
  <2>1. Agree(tree, e) => Agree(u, e)
    BY <1>3, <1>6 DEF Agree, SameShape
  <2>2. Restoring(tree, loads, e) => Restoring(u, loads, e)
    BY <1>3, <1>6 DEF Restoring, SameShape
  <2> QED
    BY <2>1, <2>2
<1>8. calm => Calmly(u, loads, hist)
  <2> SUFFICES ASSUME calm PROVE Calmly(u, loads, hist)
    OBVIOUS
  <2>1. Calmly(tree, loads, hist)
    BY <1>0
  <2>2. \A j \in DOMAIN u.frames : u.frames[j] = Bare => \E i \in DOMAIN loads : loads[i].target = j
    BY <1>3, <1>6, <2>1 DEF Calmly
  <2>3. Following(tree, loads, hist) => Following(u, loads, hist)
    BY <1>7 DEF Following
  <2> QED
    BY <1>7, <2>1, <2>2, <2>3 DEF Calmly
<1>9. HInv'
  <2>1. tree' \in Pane /\ Proper(tree', calm')
    BY <1>1, <1>2, <1>4
  <2>2. LoadsRight(loads', tree', hist'.used)
    BY <1>1, <1>5
  <2>3. MarkedRight(hist', Quiet', fails' > 0)
    BY <1>1 DEF Quiet, HInv
  <2>4. calm' => Calmly(tree', loads', hist')
    BY <1>1, <1>8
  <2> QED
    BY <1>1, <2>1, <2>2, <2>3, <2>4 DEF HInv
<1> QED
  BY <1>1, <1>9, KeptItself

LEMMA CloseRight ==
  ASSUME HInv, Careless = {}, Close
  PROVE  HInv' /\ hist'.used = 0
<1> DEFINE d == Destroy(hist, 0..(hist.used - 1))
           g == NoHistory(d.reffs)
<1>0. /\ ListRight(hist, calm) /\ hist \in ListOf /\ hist.used \in Nat
      /\ calm => fails = 0
  BY HistUsed DEF HInv
<1>1. /\ Quiet /\ open' = FALSE /\ tree' = EmptyPane /\ loads' = <<>>
      /\ hist' = g /\ faults' = {}
      /\ UNCHANGED <<calm, visits, fails>>
  BY DEF Close
<1>2. /\ HistoryLast \in Nat \ {0}
      /\ d.reffs = [t \in Title |-> hist.reffs[t]
                      - Cardinality(TitleUsers(hist, 0..(hist.used - 1), t))]
  BY <1>0, DestroyIs, HistoryAssumption
<1> HIDE DEF d
<1>3. \A t \in Title : d.reffs[t] = 0
  <2> TAKE t \in Title
  <2>1. hist.reffs[t] = Cardinality(UsersOf(hist, t)) /\ hist.reffs[t] \in Nat
    BY <1>0, ListIs DEF ListRight, Shared
  <2>2. TitleUsers(hist, 0..(hist.used - 1), t) = UsersOf(hist, t)
    BY DEF TitleUsers, UsersOf
  <2> QED
    BY <1>2, <2>1, <2>2
<1>4. d.reffs \in [Title -> Nat]
  BY <1>2, <1>3
<1>5. /\ g = [slot |-> NoEntries, used |-> 0, menu |-> 0, reffs |-> d.reffs]
      /\ NoEntries \in [0..HistoryLast -> Entry \cup {Absent}]
      /\ 0 \in 0..(HistoryLast + 1) /\ 0 \in 0..HistoryLast
  BY <1>2 DEF NoHistory, NoEntries
<1>6. g \in ListOf
  BY ONLY <1>4, <1>5, IsList
<1>7. g.slot = NoEntries /\ g.used = 0 /\ g.menu = 0 /\ g.reffs = d.reffs
  BY <1>5
<1> HIDE DEF g
<1>8. InUse(g)
  BY <1>7 DEF InUse, NoEntries
<1>9. ProperEntries(g, calm) /\ \A t : UsersOf(g, t) = {}
  BY <1>7 DEF ProperEntries, UsersOf
<1>10. Shared(g)
  <2>1. \A t \in Title : g.reffs[t] = Cardinality(UsersOf(g, t))
    BY <1>3, <1>7, <1>9, FS_EmptySet
  <2> QED
    BY <1>9, <2>1 DEF Shared
<1>11. ListRight(g, calm)
  BY <1>6, <1>8, <1>9, <1>10 DEF ListRight
<1>12. LoadsRight(<<>>, EmptyPane, 0)
  BY DEF LoadsRight
<1>13. Calmly(EmptyPane, <<>>, g)
  BY <1>7, EmptyPaneIs, Apart DEF Calmly
<1>14. MarkedRight(g, TRUE, fails > 0)
  BY <1>7 DEF MarkedRight, Unmarked
<1>15. Proper(EmptyPane, calm)
  BY EmptyPaneIs, Apart DEF Proper
<1>16. HInv'
  <2>1. tree' \in Pane /\ Proper(tree', calm')
    BY <1>1, <1>15, EmptyPaneIs
  <2>2. ListRight(hist', calm') /\ LoadsRight(loads', tree', hist'.used)
    BY <1>1, <1>7, <1>11, <1>12
  <2>3. MarkedRight(hist', Quiet', fails' > 0)
    BY <1>1, <1>14 DEF Quiet
  <2>4. calm' => Calmly(tree', loads', hist') /\ fails' = 0
    BY <1>0, <1>1, <1>13
  <2> QED
    BY <1>1, <2>1, <2>2, <2>3, <2>4 DEF HInv
<1> QED
  BY <1>1, <1>7, <1>16

LEMMA OpenRight ==
  ASSUME HInv, Open
  PROVE  HInv' /\ Kept(hist, hist')
<1>1. open' = TRUE /\ UNCHANGED <<tree, loads, hist, calm, visits, fails, faults>>
  BY DEF Open
<1>2. MarkedRight(hist', Quiet', fails' > 0)
  BY <1>1 DEF Quiet, HInv
<1> QED
  BY <1>1, <1>2, KeptItself DEF HInv

-----------------------------------------------------------------------------
(***************************************************************************)
(* The loads.                                                              *)
(***************************************************************************)
\* What a load does to the list when it is the last one.
Told(h, g) ==
  \/ Kept(h, g)
  \/ (Appended(h, g) \/ Forgotten(h, g)) /\ Mark(g) # "star"

LEMMA LastEnds ==
  ASSUME HInv, Careless = {}, ~Quiet,
         NEW t \in Pane, NEW page \in BOOLEAN,
         tree' = t, loads' = <<>>, UNCHANGED <<calm, visits, open>>,
         Ending(t, page),
         page => HasDoc(t), Proper(t, calm), hist.used = 0 => page,
         calm => /\ \A k \in DOMAIN t.frames : t.frames[k] # Bare
                 /\ ~Adds(hist, page) /\ hist.used > 0
                      => Agree(t, hist.slot[hist.menu].tree)
  PROVE  HInv' /\ Told(hist, hist')
<1>0. /\ ListRight(hist, calm) /\ MarkedRight(hist, FALSE, fails > 0)
      /\ calm => fails = 0
      /\ fails \in 0..MaxFails /\ faults = {}
  <2>1. MarkedRight(hist, FALSE, fails > 0)
    BY DEF HInv, MarkedRight
  <2> QED
    BY <2>1 DEF HInv
<1>1. /\ ListRight(hist', calm)
      /\ MarkedRight(hist', TRUE, fails' > 0)
      /\ calm => fails' = 0
      /\ fails' \in 0..MaxFails
      /\ faults' = {}
      /\ \/ Adds(hist, page) /\ Appended(hist, hist')
            /\ hist'.slot[hist'.menu].tree = Recorded(t)
         \/ ~calm /\ Forgotten(hist, hist')
         \/ ~Adds(hist, page) /\ hist.used > 0 /\ Kept(hist, hist')
            /\ hist'.slot[hist'.menu].tree = hist.slot[hist.menu].tree
  BY <1>0, EndingIs
<1>2. Mark(hist') # "star"
  <2>1. Unmarked(hist', "star")
    BY <1>1 DEF MarkedRight
  <2>2. hist' \in ListOf
    BY <1>1 DEF ListRight
  <2>3. hist'.used \in Nat
    BY <2>2, ListIs
  <2>4. CASE hist'.used = 0
    BY <2>4 DEF Mark
  <2>5. CASE hist'.used > 0
    <3>1. hist'.menu \in 0..(hist'.used - 1) /\ Mark(hist') = Shows(hist').mark
      BY <1>1, <2>5, ShowsIs
    <3> QED
      BY <2>1, <3>1 DEF Unmarked, Shows
  <2> QED
    BY <2>3, <2>4, <2>5
<1>3. ASSUME calm
      PROVE  Calmly(t, <<>>, hist')
  <2>1. Agree(t, hist'.slot[hist'.menu].tree)
    <3>1. CASE hist'.slot[hist'.menu].tree = Recorded(t)
      BY <1>3, <3>1, RecordedTwice
    <3>2. CASE ~Adds(hist, page) /\ hist.used > 0
               /\ hist'.slot[hist'.menu].tree = hist.slot[hist.menu].tree
      BY <1>3, <3>2
    <3> QED
      BY <1>1, <1>3, <3>1, <3>2
  <2> QED
    BY <1>3, <2>1 DEF Calmly
<1>4. LoadsRight(<<>>, t, hist'.used)
  BY DEF LoadsRight
<1>5. HInv'
  <2>1. tree' \in Pane /\ Proper(tree', calm')
    OBVIOUS
  <2>2. ListRight(hist', calm') /\ LoadsRight(loads', tree', hist'.used)
    BY <1>1, <1>4
  <2>3. MarkedRight(hist', Quiet', fails' > 0)
    BY <1>1 DEF Quiet
  <2>4. calm' => Calmly(tree', loads', hist') /\ fails' = 0
    BY <1>1, <1>3
  <2>5. visits' \in 0..MaxVisits /\ calm' \in BOOLEAN /\ open' \in BOOLEAN
    BY DEF HInv
  <2> QED
    BY <1>1, <2>1, <2>2, <2>3, <2>4, <2>5 DEF HInv
<1> QED
  BY <1>1, <1>2, <1>5 DEF Told

\* The list stays while there are other loads.
LEMMA OthersLoad ==
  ASSUME HInv, ~Quiet, tree' \in Pane, Proper(tree', calm),
         LoadsRight(loads', tree', hist.used), loads' # <<>>,
         UNCHANGED <<hist, calm, visits, fails, open, faults>>,
         calm => Calmly(tree', loads', hist)
  PROVE  HInv' /\ Kept(hist, hist')
<1>1. MarkedRight(hist', Quiet', fails' > 0)
  <2>1. MarkedRight(hist, FALSE, fails > 0)
    BY DEF HInv, MarkedRight
  <2>2. Quiet' = FALSE
    BY DEF Quiet
  <2> QED
    BY <2>1, <2>2
<1>2. LoadsRight(loads', tree', hist'.used)
  OBVIOUS
<1>3. calm' => Calmly(tree', loads', hist') /\ fails' = 0
  BY DEF HInv
<1>4. tree' \in Pane /\ Proper(tree', calm')
  OBVIOUS
<1>5. HInv'
  BY <1>1, <1>2, <1>3, <1>4 DEF HInv
<1> QED
  BY <1>5, KeptItself

LEMMA LoadOf ==
  ASSUME HInv, NEW i \in DOMAIN loads
  PROVE  /\ loads[i] \in Load /\ LoadRight(loads[i], tree, hist.used)
         /\ loads[i].target \in Places(tree)
         /\ loads \in Seq(Load) /\ ~Quiet /\ Len(loads) \in Nat \ {0}
         /\ DOMAIN loads = 1..Len(loads)
         /\ tree \in Pane /\ Proper(tree, calm) /\ ListRight(hist, calm)
         /\ LoadsRight(loads, tree, hist.used)
         /\ calm \in BOOLEAN
         /\ calm => /\ \A k \in DOMAIN tree.frames : tree.frames[k] = Bare
                         => \E j \in DOMAIN loads : loads[j].target = k
                    /\ IF Mark(hist) = "star"
                       THEN hist.used > 0
                            /\ Restoring(tree, loads, hist.slot[hist.menu].tree)
                       ELSE Following(tree, loads, hist)
<1>1. /\ LoadsRight(loads, tree, hist.used) /\ tree \in Pane /\ Proper(tree, calm)
      /\ ListRight(hist, calm) /\ calm \in BOOLEAN
  BY DEF HInv
<1>2. loads \in Seq(Load) /\ loads # <<>>
  BY <1>1 DEF LoadsRight
<1>3. loads[i] \in Load /\ LoadRight(loads[i], tree, hist.used)
  BY <1>1 DEF LoadsRight
<1>4. Mark(hist) = "star" => hist.used > 0
  BY HistUsed DEF Mark
<1>5. calm => Calmly(tree, loads, hist)
  BY DEF HInv
<1> QED
  BY <1>1, <1>2, <1>3, <1>4, <1>5 DEF Calmly, Quiet, LoadRight

LEMMA NoneOutside ==
  ASSUME HInv, calm, Mark(hist) # "star",
         NEW i \in DOMAIN loads, loads[i].doc \notin Outside
  PROVE  \A j \in DOMAIN loads : loads[j].doc \notin Outside
<1>1. Following(tree, loads, hist) /\ DOMAIN loads = 1..Len(loads)
  BY LoadOf
<1>2. CASE Len(loads) = 1
  <2>1. \A j \in DOMAIN loads : j = i
    BY <1>1, <1>2
  <2> QED
    BY <2>1
<1> QED
  BY <1>1, <1>2 DEF Following

\* The document of an entry is shown, and no frameset.
LEMMA RestoringDocs ==
  ASSUME HInv, calm, Mark(hist) = "star", NEW i \in DOMAIN loads
  PROVE  loads[i].doc \in Doc \ (Outside \cup DOMAIN Frames)
<1> DEFINE e == hist.slot[hist.menu].tree
           k == FrameOf(loads[i])
<1>1. hist.used > 0 /\ Restoring(tree, loads, e)
  BY LoadOf
<1>2. k \in DOMAIN e.frames /\ e.frames[k] \in Shown /\ loads[i].doc = e.frames[k].doc
  BY <1>1 DEF Restoring
<1>3. Proper(e, calm)
  BY <1>1, HistUsed
<1> QED
  BY <1>2, <1>3 DEF Proper

LEMMA NoPageRight ==
  ASSUME HInv, Careless = {}, NEW i \in DOMAIN loads, NoPage(i)
  PROVE  HInv' /\ Told(hist, hist')
<1> DEFINE r == RemoveAt(loads, i)
<1>0. /\ loads \in Seq(Load) /\ ~Quiet /\ Len(loads) \in Nat \ {0}
      /\ DOMAIN loads = 1..Len(loads)
      /\ tree \in Pane /\ Proper(tree, calm) /\ ListRight(hist, calm)
      /\ LoadsRight(loads, tree, hist.used)
      /\ LoadRight(loads[i], tree, hist.used)
  BY LoadOf
<1>1. /\ loads[i].doc \in Outside /\ loads' = r
      /\ IF Len(loads) = 1 THEN Ending(tree, FALSE)
                           ELSE UNCHANGED <<hist, fails, faults>>
      /\ UNCHANGED <<tree, calm, visits, open>>
  BY DEF NoPage
<1>2. /\ r \in Seq(Load) /\ Len(r) = Len(loads) - 1
      /\ From(r, loads, DOMAIN loads \ {i})
  BY <1>0, RemoveAtIs
<1> HIDE DEF r
<1>3. ASSUME calm
      PROVE  /\ Mark(hist) # "star" /\ Len(loads) = 1
             /\ hist.used > 0 => Agree(tree, hist.slot[hist.menu].tree)
  <2>1. Mark(hist) # "star"
    BY <1>1, <1>3, RestoringDocs
  <2>2. Following(tree, loads, hist)
    BY <1>3, <2>1, LoadOf
  <2> QED
    BY <1>1, <2>1, <2>2 DEF Following
<1>4. hist.used > 0
  <2>1. hist.used # 0
    BY <1>0, <1>1 DEF LoadRight
  <2> QED
    BY <2>1, HistUsed
<1>5. CASE Len(loads) = 1
  <2>1. loads' = <<>>
    BY <1>1, <1>2, <1>5
  <2>2. calm => \A k \in DOMAIN tree.frames : tree.frames[k] # Bare
    BY <1>3, <1>4, Apart DEF Agree, SameDoc
  <2>3. Ending(tree, FALSE) /\ FALSE \in BOOLEAN /\ tree' = tree
        /\ UNCHANGED <<calm, visits, open>>
    BY <1>1, <1>5
  <2>4. hist.used # 0
    BY <1>4, HistUsed
  <2> QED
    BY <1>0, <1>3, <2>1, <2>2, <2>3, <2>4, LastEnds
<1>6. CASE Len(loads) # 1
  <2>1. ~calm
    BY <1>3, <1>6
  <2>2. UNCHANGED <<hist, calm, visits, fails, open, faults>> /\ tree' = tree
    BY <1>1, <1>6
  <2>3. loads' # <<>>
    BY <1>0, <1>1, <1>2, <1>6
  <2>4. LoadsRight(r, tree, hist.used)
    <3> DEFINE J == DOMAIN loads \ {i}
    <3>1. J \in SUBSET DOMAIN loads /\ From(r, loads, J)
          /\ \A j \in J : LoadRight(loads[j], tree, hist.used)
      BY <1>0, <1>2 DEF LoadsRight
    <3> HIDE DEF J
    <3> QED
      BY <1>0, <1>2, <3>1, LoadsFrom
  <2> QED
    BY <1>0, <1>1, <2>1, <2>2, <2>3, <2>4, OthersLoad DEF Told
<1> QED
  BY <1>5, <1>6

LEMMA BeginRight ==
  ASSUME HInv, NEW i \in DOMAIN loads, Begin(i)
  PROVE  HInv' /\ Kept(hist, hist')
<1> DEFINE l == loads[i]
           J == {j \in DOMAIN loads : j # i /\ l.target # 0
                                     /\ loads[j].target # l.target}
           p == Picked(loads, J)
           m == [l EXCEPT !.parsing = TRUE]
           q == Append(p, m)
           t == Fill(tree, l.target, Absent)
           e == hist.slot[hist.menu].tree
<1>0. /\ loads \in Seq(Load) /\ ~Quiet /\ l \in Load
      /\ tree \in Pane /\ Proper(tree, calm)
      /\ LoadsRight(loads, tree, hist.used)
      /\ LoadRight(l, tree, hist.used) /\ l.target \in Places(tree)
      /\ calm => /\ \A k \in DOMAIN tree.frames : tree.frames[k] = Bare
                      => \E j \in DOMAIN loads : loads[j].target = k
                 /\ IF Mark(hist) = "star" THEN Restoring(tree, loads, e)
                    ELSE Following(tree, loads, hist)
  BY LoadOf
<1>1. /\ l.doc \notin Outside /\ loads' = q /\ tree' = t
      /\ UNCHANGED <<hist, calm, visits, fails, open, faults>>
  BY DEF Begin
<1>2. /\ p \in Seq(Load) /\ From(p, loads, J) /\ J \in SUBSET DOMAIN loads
  BY <1>0, FromPicked
<1>3. /\ m \in Load /\ m.parsing /\ m.target = l.target /\ m.doc = l.doc
  BY <1>0, LoadIs
<1>4. /\ t \in Pane
      /\ l.target = 0 => /\ t.split = FALSE /\ DOMAIN t.frames = {1}
                         /\ t.frames[1] = Absent
      /\ l.target # 0 => /\ tree.split /\ t.split = TRUE
                         /\ l.target \in DOMAIN tree.frames
                         /\ DOMAIN t.frames = DOMAIN tree.frames
                         /\ \A j \in DOMAIN tree.frames :
                              t.frames[j] = IF j = l.target THEN Absent ELSE tree.frames[j]
  <2> DEFINE k == l.target
  <2>1. Absent \in Shown \cup {Absent} /\ k \in Places(tree) /\ tree \in Pane
    BY <1>0
  <2>2. t = Fill(tree, k, Absent)
    OBVIOUS
  <2> HIDE DEF k, t
  <2>3. CASE k = 0
    BY <2>1, <2>2, <2>3, FillBase, ZenonT(40) DEF k
  <2>4. CASE k # 0
    <3>1. /\ t \in Pane /\ tree.split = TRUE /\ t.split = TRUE
          /\ k \in DOMAIN tree.frames
          /\ SameBut(t.frames, tree.frames, k, Absent)
      BY ONLY <2>1, <2>2, <2>4, FillFrame
    <3> QED
      BY <2>4, <3>1 DEF k, SameBut
  <2> QED
    BY <2>3, <2>4
<1>5. \A j \in J : /\ j \in DOMAIN loads /\ l.target # 0
                   /\ loads[j].target # l.target
  OBVIOUS
<1>6. \A j \in DOMAIN loads : j # i /\ l.target # 0 /\ loads[j].target # l.target => j \in J
  OBVIOUS
<1> HIDE DEF J, p, m, t
<1>7. l.target # 0 => Places(t) = Places(tree) /\ tree.split = TRUE
  <2>1. tree.split \in BOOLEAN
    BY <1>0, PaneIs
  <2> QED
    BY <1>4, <2>1 DEF Places
<1>8. LoadsRight(p, t, hist.used)
  <2>1. \A j \in J : LoadRight(loads[j], t, hist.used)
    <3> TAKE j \in J
    <3>1. LoadRight(loads[j], tree, hist.used) /\ l.target # 0
      BY <1>0, <1>5 DEF LoadsRight
    <3> QED
      BY <1>4, <1>7, <3>1 DEF LoadRight
  <2> QED
    BY <1>0, <1>2, <2>1, LoadsFrom
<1>9. LoadRight(m, t, hist.used)
  <2>1. l.target \in Places(t)
    <3>1. 0 \in Places(t)
      BY DEF Places
    <3> QED
      BY <1>0, <1>7, <3>1
  <2> QED
    BY <1>0, <1>1, <1>3, <1>4, <2>1 DEF LoadRight
<1>10. PICK f \in [DOMAIN p -> J] :
         /\ \A a, b \in DOMAIN p : f[a] = f[b] => a = b
         /\ \A j \in J : \E a \in DOMAIN p : f[a] = j
         /\ \A a \in DOMAIN p : p[a] = loads[f[a]]
  BY <1>2 DEF From
<1>11. /\ LoadsRight(q, t, hist.used)
       /\ q # <<>> /\ Len(q) = Len(p) + 1
       /\ DOMAIN q = DOMAIN p \cup {Len(q)} /\ Len(q) \notin DOMAIN p
       /\ q[Len(q)] = m
       /\ \A a \in DOMAIN p : q[a] = p[a]
  <2>1. \A a \in DOMAIN p : p[a].target # m.target
    BY <1>3, <1>5, <1>10
  <2> QED
    BY <1>3, <1>8, <1>9, <2>1, LoadsAppend
<1> HIDE DEF q
<1>12. Proper(t, calm)
  <2> SUFFICES ASSUME NEW k \in DOMAIN t.frames, t.frames[k] \in Shown
               PROVE  /\ t.frames[k].doc \in Doc \ Outside
                      /\ calm \/ t.split => t.frames[k].doc \notin DOMAIN Frames
    BY DEF Proper
  <2>1. l.target # 0 /\ k \in DOMAIN tree.frames /\ t.frames[k] = tree.frames[k]
    BY <1>4, Apart
  <2> QED
    BY <1>0, <1>7, <2>1 DEF Proper
<1>13. \A a \in DOMAIN q : \E j \in DOMAIN loads :
         q[a].doc = loads[j].doc /\ q[a].target = loads[j].target
  <2> TAKE a \in DOMAIN q
  <2>1. CASE a \in DOMAIN p
    BY <1>5, <1>10, <1>11, <2>1
  <2>2. CASE a = Len(q)
    BY <1>3, <1>11, <2>2
  <2> QED
    BY <1>11, <2>1, <2>2
<1>14. \A j \in J : \E a \in DOMAIN q : q[a] = loads[j]
  BY <1>10, <1>11
<1>15. \E a \in DOMAIN q : q[a].target = l.target
  BY <1>3, <1>11
<1>16. ASSUME calm
       PROVE  Calmly(t, q, hist)
  <2>1. ASSUME NEW k \in DOMAIN t.frames, t.frames[k] = Bare
        PROVE  \E a \in DOMAIN q : q[a].target = k
    <3>1. l.target # 0 /\ k \in DOMAIN tree.frames /\ tree.frames[k] = Bare
          /\ k # l.target
      BY <1>4, <2>1, Apart
    <3>2. PICK j \in DOMAIN loads : loads[j].target = k
      BY <1>0, <1>16, <3>1
    <3>3. j \in J
      BY <1>6, <3>1, <3>2
    <3> QED
      BY <1>14, <3>2, <3>3
  <2>2. ASSUME Mark(hist) # "star"
        PROVE  Following(t, q, hist)
    <3>1. \A j \in DOMAIN loads : loads[j].doc \notin Outside
      BY <1>1, <1>16, <2>2, NoneOutside
    <3>2. \A a \in DOMAIN q : q[a].doc \notin Outside
      BY <1>13, <3>1
    <3> QED
      BY <3>2 DEF Following
  <2>3. ASSUME Mark(hist) = "star"
        PROVE  Restoring(t, q, e)
    <3>1. Restoring(tree, loads, e)
      BY <1>0, <1>16, <2>3
    <3>2. l.target = 0 <=> ~e.split
      BY <3>1 DEF Restoring
    <3>3. SameShape(t, e)
      <4>1. SameShape(tree, e)
        BY <3>1 DEF Restoring
      <4>2. CASE l.target = 0
        <5>1. ~tree.split /\ e.split = tree.split
          BY <3>2, <4>1, <4>2 DEF SameShape
        <5>2. DOMAIN tree.frames = {1} /\ tree.split = FALSE
          BY <1>0, <5>1, PlacesNat, PaneIs
        <5> QED
          BY <1>4, <4>1, <4>2, <5>1, <5>2 DEF SameShape
      <4>3. CASE l.target # 0
        BY <1>4, <1>7, <4>1, <4>3 DEF SameShape
      <4> QED
        BY <4>2, <4>3
    <3>4. \A a \in DOMAIN q : /\ q[a].target = 0 <=> ~e.split
                              /\ FrameOf(q[a]) \in DOMAIN e.frames
                              /\ e.frames[FrameOf(q[a])] \in Shown
                              /\ q[a].doc = e.frames[FrameOf(q[a])].doc
      <4> TAKE a \in DOMAIN q
      <4>1. PICK j \in DOMAIN loads :
              q[a].doc = loads[j].doc /\ q[a].target = loads[j].target
        BY <1>13
      <4>2. FrameOf(q[a]) = FrameOf(loads[j])
        BY <4>1 DEF FrameOf
      <4> QED
        BY <3>1, <4>1, <4>2 DEF Restoring
    <3>5. \A a, b \in DOMAIN q : a # b => q[a].target # q[b].target
      <4> SUFFICES ASSUME NEW a \in DOMAIN q, NEW b \in DOMAIN q, a # b
                   PROVE  q[a].target # q[b].target
        OBVIOUS
      <4>1. CASE a \in DOMAIN p /\ b \in DOMAIN p
        <5>1. f[a] \in DOMAIN loads /\ f[b] \in DOMAIN loads /\ f[a] # f[b]
          BY <1>5, <1>10, <4>1
        <5>2. loads[f[a]].target # loads[f[b]].target
          BY <3>1, <5>1 DEF Restoring
        <5> QED
          BY <1>10, <1>11, <4>1, <5>2
      <4>2. ASSUME NEW c \in DOMAIN p
            PROVE  q[c].target # m.target
        BY <1>3, <1>5, <1>10, <1>11
      <4> QED
        BY <1>11, <4>1, <4>2
    <3>6. \A k \in DOMAIN t.frames : \/ SameDoc(t.frames[k], e.frames[k])
                                     \/ \E a \in DOMAIN q : FrameOf(q[a]) = k
      <4> TAKE k \in DOMAIN t.frames
      <4>1. CASE k = FrameOf(l)
        BY <1>15, <4>1 DEF FrameOf
      <4>2. CASE k # FrameOf(l)
        <5>1. l.target # 0 /\ k \in DOMAIN tree.frames /\ k # l.target
              /\ t.frames[k] = tree.frames[k]
          BY <1>4, <4>2 DEF FrameOf
        <5>2. CASE SameDoc(tree.frames[k], e.frames[k])
          BY <5>1, <5>2
        <5>3. CASE \E j \in DOMAIN loads : FrameOf(loads[j]) = k
          <6>1. PICK j \in DOMAIN loads : FrameOf(loads[j]) = k
            BY <5>3
          <6>2. loads[j].target # 0
            BY <3>1, <3>2, <5>1 DEF Restoring
          <6>3. loads[j].target = k
            BY <6>1, <6>2 DEF FrameOf
          <6>4. j \in J
            BY <1>6, <5>1, <6>3
          <6> QED
            BY <1>14, <6>1, <6>4
        <5> QED
          BY <3>1, <5>1, <5>2, <5>3 DEF Restoring
      <4> QED
        BY <4>1, <4>2
    <3> QED
      BY <3>3, <3>4, <3>5, <3>6 DEF Restoring
  <2> QED
    BY <1>11, <2>1, <2>2, <2>3 DEF Calmly
<1> QED
  BY <1>0, <1>1, <1>4, <1>11, <1>12, <1>16, OthersLoad

LEMMA DivideRight ==
  ASSUME HInv, NEW i \in DOMAIN loads, Divide(i)
  PROVE  HInv' /\ Kept(hist, hist')
<1> DEFINE l == loads[i]
           r == RemoveAt(loads, i)
           F == Frames[l.doc]
           q == [k \in DOMAIN F |-> NewLoad(k, F[k], FALSE)]
           t == Split(Len(F), Bare)
<1>0. /\ loads \in Seq(Load) /\ ~Quiet /\ l \in Load
      /\ tree \in Pane
      /\ LoadsRight(loads, tree, hist.used)
      /\ LoadRight(l, tree, hist.used)
  BY LoadOf
<1>1. /\ l.parsing /\ l.doc \in DOMAIN Frames
      /\ tree' = t /\ loads' = r \o q
      /\ UNCHANGED <<hist, calm, visits, fails, open, faults>>
  BY DEF Divide
<1>2. l.target = 0 /\ ~tree.split /\ l.doc \notin Outside
  BY <1>0, <1>1 DEF LoadRight
<1>3. \A j \in DOMAIN loads : loads[j].target = 0
  BY <1>0, <1>2, PlacesNat DEF LoadsRight, LoadRight
<1>4. /\ F \in Seq(Doc \ (DOMAIN Frames \cup Outside))
      /\ Len(F) \in Widths /\ Len(F) \in Nat \ {0}
      /\ DOMAIN F = 1..Len(F)
      /\ \A k \in DOMAIN F : F[k] \in Doc \ (DOMAIN Frames \cup Outside)
  <2>1. Len(F) \in Widths
    BY <1>1, FramesOf
  <2> QED
    BY <1>1, <2>1, FramesOf, WidthsDown
<1>5. /\ t \in Pane /\ t.split = TRUE
      /\ DOMAIN t.frames = DOMAIN F
      /\ \A k \in DOMAIN F : t.frames[k] = Bare
  BY <1>4, SplitIs
<1>6. /\ r \in Seq(Load) /\ Len(r) = Len(loads) - 1
      /\ From(r, loads, DOMAIN loads \ {i})
  BY <1>0, RemoveAtIs
<1> HIDE DEF r, t
<1>7. \A k \in DOMAIN F : /\ q[k] \in Load
                          /\ q[k].target = k /\ q[k].doc = F[k] /\ ~q[k].parsing
  <2> TAKE k \in DOMAIN F
  <2>1. k \in Nat /\ F[k] \in Doc /\ FALSE \in BOOLEAN
    BY <1>4
  <2>2. q[k] = NewLoad(k, F[k], FALSE)
    OBVIOUS
  <2> DEFINE x == q[k]
             d == F[k]
  <2>3. x = NewLoad(k, d, FALSE) /\ d \in Doc
    BY <2>1, <2>2
  <2> HIDE DEF x, d
  <2>4. x \in Load /\ x.target = k /\ x.doc = d /\ ~x.parsing
    BY ONLY <2>1, <2>3, NewLoadIs
  <2> QED
    BY <2>4 DEF x, d
<1>8. q \in Seq(Load) /\ DOMAIN q = DOMAIN F /\ q # <<>>
  <2>1. DOMAIN q = 1..Len(F)
    BY <1>4
  <2> HIDE DEF q
  <2>2. q \in [1..Len(F) -> Load]
    <3>1. q = [k \in 1..Len(F) |-> q[k]]
      BY <1>4 DEF q
    <3> QED
      BY <1>4, <1>7, <3>1
  <2> QED
    BY <1>4, <2>1, <2>2
<1> HIDE DEF q, F
<1>9. LoadsRight(r, t, hist.used)
  <2> DEFINE J == DOMAIN loads \ {i}
  <2>1. \A j \in J : LoadRight(loads[j], t, hist.used)
    <3> TAKE j \in J
    <3>1. LoadRight(loads[j], tree, hist.used) /\ loads[j].target = 0
      BY <1>0, <1>3 DEF LoadsRight
    <3>2. ~loads[j].parsing
      BY <1>0, <1>1, <1>2, <1>3 DEF LoadsRight
    <3>3. loads[j].target \in Places(t)
      BY <3>1 DEF Places
    <3> QED
      BY <3>1, <3>2, <3>3 DEF LoadRight
  <2>2. J \in SUBSET DOMAIN loads /\ From(r, loads, J)
    BY <1>6
  <2> HIDE DEF J
  <2> QED
    BY <1>0, <1>6, <2>1, <2>2, LoadsFrom
<1>10. LoadsRight(q, t, hist.used)
  <2>1. \A k \in DOMAIN q : LoadRight(q[k], t, hist.used)
    <3> TAKE k \in DOMAIN q
    <3>1. k \in DOMAIN F /\ k \in Places(t) /\ F[k] \notin DOMAIN Frames \cup Outside
      BY <1>4, <1>5, <1>8 DEF Places
    <3> QED
      BY <1>7, <3>1 DEF LoadRight
  <2>2. \A j \in DOMAIN q : ~q[j].parsing
    BY <1>7, <1>8
  <2> QED
    BY <1>8, <2>1, <2>2 DEF LoadsRight
<1> DEFINE b == r \o q
<1>11. /\ LoadsRight(b, t, hist.used)
       /\ q # <<>> => b # <<>>
       /\ Joined(b, r, q)
  <2>1. \A j \in DOMAIN q : ~q[j].parsing
    BY <1>7, <1>8
  <2> QED
    BY ONLY <1>9, <1>10, <2>1, LoadsJoin
<1> HIDE DEF b
<1>12. Proper(t, calm)
  BY <1>5, Apart DEF Proper
<1>13. ASSUME calm
       PROVE  Calmly(t, b, hist)
  <2>1. Mark(hist) # "star"
    BY <1>1, <1>13, RestoringDocs
  <2>2. \A j \in DOMAIN loads : loads[j].doc \notin Outside
    BY <1>2, <1>13, <2>1, NoneOutside
  <2>3. \A j \in DOMAIN r : \E k \in DOMAIN loads : r[j] = loads[k]
    BY <1>6 DEF From
  <2>4. \A a \in DOMAIN b : b[a].doc \notin Outside
    <3> TAKE a \in DOMAIN b
    <3>1. CASE \E j \in DOMAIN r : b[a] = r[j]
      BY <2>2, <2>3, <3>1
    <3>2. CASE \E j \in DOMAIN q : b[a] = q[j]
      BY <1>4, <1>7, <1>8, <3>2
    <3> QED
      BY <1>11, <3>1, <3>2 DEF Joined
  <2>5. \A k \in DOMAIN t.frames : \E a \in DOMAIN b : b[a].target = k
    BY <1>5, <1>7, <1>8, <1>11 DEF Joined
  <2> QED
    BY <1>8, <1>11, <2>1, <2>4, <2>5 DEF Calmly, Following
<1>14. tree' = t /\ loads' = b
  BY <1>1 DEF b
<1> QED
  BY <1>0, <1>1, <1>5, <1>8, <1>11, <1>12, <1>13, <1>14, OthersLoad

LEMMA DoneRight ==
  ASSUME HInv, Careless = {}, NEW i \in DOMAIN loads, Done(i)
  PROVE  HInv' /\ Told(hist, hist')
<1> DEFINE l == loads[i]
           r == RemoveAt(loads, i)
           k0 == l.target
           t == Fill(tree, k0, Content(l))
           e == hist.slot[hist.menu].tree
<1>0. /\ loads \in Seq(Load) /\ ~Quiet /\ l \in Load
      /\ Len(loads) \in Nat \ {0} /\ DOMAIN loads = 1..Len(loads)
      /\ tree \in Pane /\ Proper(tree, calm)
      /\ LoadsRight(loads, tree, hist.used)
      /\ LoadRight(l, tree, hist.used) /\ k0 \in Places(tree)
      /\ calm \in BOOLEAN
      /\ calm => /\ \A k \in DOMAIN tree.frames : tree.frames[k] = Bare
                      => \E j \in DOMAIN loads : loads[j].target = k
                 /\ IF Mark(hist) = "star" THEN Restoring(tree, loads, e)
                    ELSE Following(tree, loads, hist)
  BY LoadOf
<1>1. /\ l.parsing /\ l.doc \notin DOMAIN Frames
      /\ tree' = t /\ loads' = r
      /\ IF Len(loads) = 1 THEN Ending(t, TRUE)
                           ELSE UNCHANGED <<hist, fails, faults>>
      /\ UNCHANGED <<calm, visits, open>>
  BY DEF Done
<1>2. /\ l.doc \in Doc \ (Outside \cup DOMAIN Frames)
      /\ Content(l) \in Shown /\ Content(l).doc = l.doc
  BY <1>0, <1>1, LoadIs DEF LoadRight
<1>3. /\ t \in Pane
      /\ k0 = 0 => /\ t.split = FALSE /\ DOMAIN t.frames = {1}
                   /\ t.frames[1] = Content(l)
      /\ k0 # 0 => /\ tree.split = TRUE /\ t.split = TRUE
                   /\ k0 \in DOMAIN tree.frames
                   /\ SameBut(t.frames, tree.frames, k0, Content(l))
  <2>1. Content(l) \in Shown \cup {Absent} /\ k0 \in Places(tree) /\ tree \in Pane
    BY <1>0, <1>2
  <2> DEFINE f == Content(l)
  <2>2. t = Fill(tree, k0, f) /\ f \in Shown \cup {Absent}
    BY <2>1
  <2> HIDE DEF k0, t, f
  <2>3. CASE k0 = 0
    BY <2>1, <2>2, <2>3, FillBase DEF f
  <2>4. CASE k0 # 0
    <3>1. /\ t \in Pane /\ tree.split = TRUE /\ t.split = TRUE
          /\ k0 \in DOMAIN tree.frames
          /\ SameBut(t.frames, tree.frames, k0, f)
      BY ONLY <2>1, <2>2, <2>4, FillFrame
    <3> QED
      BY <2>4, <3>1 DEF f
  <2> QED
    BY <2>3, <2>4
<1>4. /\ r \in Seq(Load) /\ Len(r) = Len(loads) - 1
      /\ From(r, loads, DOMAIN loads \ {i})
  BY <1>0, RemoveAtIs
<1> HIDE DEF r, t
<1>5. k0 = 0 => ~tree.split /\ tree.split = FALSE /\ DOMAIN tree.frames = {1}
                /\ \A j \in DOMAIN loads : loads[j].target = 0
  <2> SUFFICES ASSUME k0 = 0
               PROVE  ~tree.split /\ tree.split = FALSE /\ DOMAIN tree.frames = {1}
                      /\ \A j \in DOMAIN loads : loads[j].target = 0
    OBVIOUS
  <2>1. ~tree.split /\ tree.split = FALSE
    BY <1>0, <1>1, PaneIs DEF LoadRight
  <2>2. Places(tree) = {0} /\ DOMAIN tree.frames = {1}
    BY <1>0, <2>1, PlacesNat
  <2> QED
    BY <1>0, <2>1, <2>2 DEF LoadsRight, LoadRight
<1>6. \A k \in DOMAIN t.frames : IF k = FrameOf(l) THEN t.frames[k] = Content(l)
                                 ELSE /\ k0 # 0 /\ k # k0 /\ k \in DOMAIN tree.frames
                                      /\ t.frames[k] = tree.frames[k]
  BY <1>3 DEF FrameOf, SameBut
<1>7. FrameOf(l) \in DOMAIN t.frames /\ t.frames[FrameOf(l)] = Content(l)
  BY <1>3 DEF FrameOf, SameBut
<1>8. HasDoc(t)
  BY <1>2, <1>7 DEF HasDoc
<1>9. Proper(t, calm)
  <2> SUFFICES ASSUME NEW k \in DOMAIN t.frames, t.frames[k] \in Shown
               PROVE  /\ t.frames[k].doc \in Doc \ Outside
                      /\ calm \/ t.split => t.frames[k].doc \notin DOMAIN Frames
    BY DEF Proper
  <2>1. CASE k = FrameOf(l)
    BY <1>2, <1>7, <2>1
  <2>2. CASE k # FrameOf(l)
    <3>1. k0 # 0 /\ k \in DOMAIN tree.frames /\ t.frames[k] = tree.frames[k]
      BY <1>6, <2>2
    <3> QED
      BY <1>0, <1>3, <3>1 DEF Proper
  <2> QED
    BY <2>1, <2>2
<1>10. LoadsRight(r, t, hist.used)
  <2> DEFINE J == DOMAIN loads \ {i}
  <2>1. \A j \in J : LoadRight(loads[j], t, hist.used)
    <3> TAKE j \in J
    <3>1. LoadRight(loads[j], tree, hist.used)
      BY <1>0 DEF LoadsRight
    <3>2. CASE k0 = 0
      BY <1>3, <1>5, <3>1, <3>2 DEF LoadRight, Places
    <3>3. CASE k0 # 0
      BY <1>3, <3>1, <3>3 DEF LoadRight, Places, SameBut
    <3> QED
      BY <3>2, <3>3
  <2>2. J \in SUBSET DOMAIN loads /\ From(r, loads, J)
    BY <1>4
  <2> HIDE DEF J
  <2> QED
    BY <1>0, <1>4, <2>1, <2>2, LoadsFrom
<1>11. PICK f \in [DOMAIN r -> DOMAIN loads \ {i}] :
         /\ \A a, b \in DOMAIN r : f[a] = f[b] => a = b
         /\ \A j \in DOMAIN loads \ {i} : \E a \in DOMAIN r : f[a] = j
         /\ \A a \in DOMAIN r : r[a] = loads[f[a]]
  BY <1>4 DEF From
<1>12. \A a \in DOMAIN r : f[a] \in DOMAIN loads /\ f[a] # i /\ r[a] = loads[f[a]]
  BY <1>11
<1>13. \A j \in DOMAIN loads : j = i \/ \E a \in DOMAIN r : r[a] = loads[j]
  BY <1>11
<1>14. ASSUME calm, NEW k \in DOMAIN t.frames, t.frames[k] = Bare
       PROVE  \E a \in DOMAIN r : r[a].target = k
  <2>1. k # FrameOf(l)
    BY <1>2, <1>7, <1>14, Apart
  <2>2. k0 # 0 /\ k # k0 /\ k \in DOMAIN tree.frames /\ tree.frames[k] = Bare
    BY <1>6, <1>14, <2>1
  <2>3. PICK j \in DOMAIN loads : loads[j].target = k
    BY <1>0, <1>14, <2>2
  <2> QED
    BY <1>13, <2>2, <2>3
<1>15. ASSUME calm, Mark(hist) = "star"
       PROVE  Restoring(t, r, e)
  <2>1. Restoring(tree, loads, e)
    BY <1>0, <1>15
  <2>2. /\ k0 = 0 <=> ~e.split
        /\ e.frames[FrameOf(l)] \in Shown
        /\ l.doc = e.frames[FrameOf(l)].doc
    BY <2>1 DEF Restoring
  <2>3. SameShape(t, e)
    <3>1. SameShape(tree, e)
      BY <2>1 DEF Restoring
    <3>2. CASE k0 = 0
      BY <1>3, <1>5, <3>1, <3>2 DEF SameShape
    <3>3. CASE k0 # 0
      BY <1>3, <3>1, <3>3 DEF SameShape, SameBut
    <3> QED
      BY <3>2, <3>3
  <2>4. \A a \in DOMAIN r : /\ r[a].target = 0 <=> ~e.split
                            /\ FrameOf(r[a]) \in DOMAIN e.frames
                            /\ e.frames[FrameOf(r[a])] \in Shown
                            /\ r[a].doc = e.frames[FrameOf(r[a])].doc
    BY <1>12, <2>1 DEF Restoring
  <2>5. \A a, b \in DOMAIN r : a # b => r[a].target # r[b].target
    <3> SUFFICES ASSUME NEW a \in DOMAIN r, NEW b \in DOMAIN r, a # b
                 PROVE  r[a].target # r[b].target
      OBVIOUS
    <3>1. f[a] # f[b]
      BY <1>11
    <3>2. loads[f[a]].target # loads[f[b]].target
      BY <1>12, <2>1, <3>1 DEF Restoring
    <3> QED
      BY <1>12, <3>2
  <2>6. \A k \in DOMAIN t.frames : \/ SameDoc(t.frames[k], e.frames[k])
                                   \/ \E a \in DOMAIN r : FrameOf(r[a]) = k
    <3> TAKE k \in DOMAIN t.frames
    <3>1. CASE k = FrameOf(l)
      <4>1. SameDoc(Content(l), e.frames[FrameOf(l)])
        BY <1>2, <2>2 DEF SameDoc
      <4> QED
        BY <1>7, <3>1, <4>1
    <3>2. CASE k # FrameOf(l)
      <4>1. k0 # 0 /\ k \in DOMAIN tree.frames /\ t.frames[k] = tree.frames[k]
        BY <1>6, <3>2
      <4>2. CASE SameDoc(tree.frames[k], e.frames[k])
        BY <4>1, <4>2
      <4>3. CASE \E j \in DOMAIN loads : FrameOf(loads[j]) = k
        BY <1>13, <3>2, <4>3
      <4> QED
        BY <2>1, <4>1, <4>2, <4>3 DEF Restoring
    <3> QED
      BY <3>1, <3>2
  <2> QED
    BY <2>3, <2>4, <2>5, <2>6 DEF Restoring
<1>16. CASE Len(loads) = 1
  <2>1. loads' = <<>> /\ r = <<>>
    BY <1>1, <1>4, <1>16
  <2>2. calm => \A k \in DOMAIN t.frames : t.frames[k] # Bare
    BY <1>14, <2>1
  <2>3. ASSUME calm, ~Adds(hist, TRUE)
        PROVE  Agree(t, e)
    <3>1. Mark(hist) = "star"
      BY <2>3 DEF Adds
    <3>2. Restoring(t, r, e)
      BY <1>15, <2>3, <3>1
    <3> QED
      BY <2>1, <3>2 DEF Restoring, Agree
  <2>4. Ending(t, TRUE) /\ TRUE \in BOOLEAN /\ tree' = t
        /\ UNCHANGED <<calm, visits, open>>
    BY <1>1, <1>16
  <2>5. calm => /\ \A k \in DOMAIN t.frames : t.frames[k] # Bare
                /\ ~Adds(hist, TRUE) /\ hist.used > 0
                     => Agree(t, hist.slot[hist.menu].tree)
    BY <2>2, <2>3
  <2> QED
    BY <1>0, <1>3, <1>8, <1>9, <2>1, <2>4, <2>5, LastEnds
<1>17. CASE Len(loads) # 1
  <2>1. UNCHANGED <<hist, calm, visits, fails, open, faults>> /\ tree' = t
    BY <1>1, <1>17
  <2>2. loads' # <<>> /\ loads' = r
    BY <1>0, <1>1, <1>4, <1>17
  <2>3. ASSUME calm
        PROVE  Calmly(t, r, hist)
    <3>1. ASSUME Mark(hist) # "star"
          PROVE  Following(t, r, hist)
      <4>1. \A j \in DOMAIN loads : loads[j].doc \notin Outside
        BY <1>2, <2>3, <3>1, NoneOutside
      <4> QED
        BY <1>12, <4>1 DEF Following
    <3> QED
      BY <1>14, <1>15, <2>2, <2>3, <3>1 DEF Calmly
  <2> QED
    BY <1>0, <1>3, <1>9, <1>10, <2>1, <2>2, <2>3, OthersLoad DEF Told
<1> QED
  BY <1>16, <1>17

-----------------------------------------------------------------------------
(***************************************************************************)
(* Loads that are stopped: what they have is shown.                        *)
(***************************************************************************)
\* A load that is parsed may be shown as far as it has come.
LEMMA ParsingIs ==
  ASSUME HInv, NEW i \in DOMAIN loads, loads[i].parsing
  PROVE  /\ Content(loads[i]) \in Shown
         /\ Content(loads[i]).doc \in Doc \ Outside
         /\ loads[i].target \in Places(tree)
         /\ loads[i].target # 0 => Content(loads[i]).doc \notin DOMAIN Frames
<1>1. loads[i] \in Load /\ LoadRight(loads[i], tree, hist.used)
  BY LoadOf
<1>2. /\ Content(loads[i]) \in Shown /\ Content(loads[i]).doc = loads[i].doc
      /\ loads[i].doc \in Doc
  BY <1>1, LoadIs
<1> QED
  BY <1>1, <1>2 DEF LoadRight

LEMMA StopRight ==
  ASSUME HInv, Careless = {}, Stop
  PROVE  HInv' /\ Told(hist, hist')
<1> DEFINE parsing(k) == {i \in DOMAIN loads :
                            loads[i].parsing /\ loads[i].target = k}
           Come(k, f) == IF parsing(k) = {} THEN f
                         ELSE Content(loads[CHOOSE i \in parsing(k) : TRUE])
           g == [k \in DOMAIN tree.frames |-> Come(k, tree.frames[k])]
           c == Come(0, Absent)
           t == IF parsing(0) # {} THEN Fill(tree, 0, c)
                ELSE [tree EXCEPT !.frames = g]
<1>1. /\ ~calm /\ ~Quiet /\ tree' = t /\ loads' = <<>>
      /\ UNCHANGED <<calm, visits, open>>
      /\ \E i \in LastToEnd : /\ hist.used = 0 => loads[i].parsing
                              /\ Ending(t, loads[i].parsing)
  BY DEF Stop
<1>2. tree \in Pane /\ Proper(tree, calm) /\ calm \in BOOLEAN
  BY DEF HInv
<1>3. ASSUME NEW k, NEW f
      PROVE  \/ parsing(k) = {} /\ Come(k, f) = f
             \/ /\ parsing(k) # {} /\ Come(k, f) \in Shown
                /\ Come(k, f).doc \in Doc \ Outside
                /\ k # 0 => Come(k, f).doc \notin DOMAIN Frames
  <2>1. CASE parsing(k) = {}
    BY <2>1
  <2>2. CASE parsing(k) # {}
    <3> DEFINE i == CHOOSE i \in parsing(k) : TRUE
    <3>1. i \in parsing(k)
      BY <2>2
    <3>2. i \in DOMAIN loads /\ loads[i].parsing /\ loads[i].target = k
      BY <3>1
    <3>3. Come(k, f) = Content(loads[i])
      BY <2>2
    <3> HIDE DEF i
    <3> QED
      BY <2>2, <3>2, <3>3, ParsingIs
  <2> QED
    BY <2>1, <2>2
<1>4. \A i \in DOMAIN loads : loads[i].parsing => parsing(loads[i].target) # {}
  OBVIOUS
<1>5. PICK i \in LastToEnd : /\ hist.used = 0 => loads[i].parsing
                             /\ Ending(t, loads[i].parsing)
  BY <1>1
<1>6. i \in DOMAIN loads /\ loads[i] \in Load /\ loads[i].parsing \in BOOLEAN
      /\ loads[i].target \in Places(tree)
  <2>1. i \in DOMAIN loads
    BY DEF LastToEnd
  <2> QED
    BY <2>1, LoadOf, LoadIs
<1> HIDE DEF parsing, Come
<1>7. CASE parsing(0) # {}
  <2>1. c \in Shown /\ c.doc \in Doc \ Outside
    BY <1>3, <1>7
  <2>2. t = Fill(tree, 0, c)
    BY <1>7
  <2> HIDE DEF t, c
  <2>3. t \in Pane /\ t.split = FALSE /\ DOMAIN t.frames = {1} /\ t.frames[1] = c
    BY <2>1, <2>2, FillBase
  <2>4. HasDoc(t) /\ Proper(t, calm)
    BY <1>1, <2>1, <2>3 DEF HasDoc, Proper
  <2> QED
    BY <1>1, <1>5, <1>6, <2>3, <2>4, LastEnds
<1>8. CASE parsing(0) = {}
  <2>1. PICK n \in Nat \ {0} : /\ DOMAIN tree.frames = 1..n
                               /\ tree.frames \in [1..n -> Within]
                               /\ tree.split => n \in Widths
                               /\ ~tree.split => n = 1 /\ tree.frames[1] # Bare
    BY <1>2, PaneIs
  <2>2. \A k \in 1..n : \/ g[k] = tree.frames[k] /\ parsing(k) = {}
                        \/ /\ g[k] \in Shown
                           /\ g[k].doc \in Doc \ (Outside \cup DOMAIN Frames)
    <3> TAKE k \in 1..n
    <3>1. g[k] = Come(k, tree.frames[k]) /\ k # 0
      BY <2>1
    <3> HIDE DEF g
    <3> QED
      BY <1>3, <3>1
  <2>3. /\ g \in [1..n -> Within] /\ DOMAIN g = 1..n
        /\ ~tree.split => n = 1 /\ g[1] # Bare
    <3>1. \A k \in 1..n : g[k] \in Within
      BY <2>1, <2>2 DEF Within
    <3>2. g = [k \in 1..n |-> g[k]]
      BY <2>1
    <3> HIDE DEF g
    <3>3. g \in [1..n -> Within] /\ DOMAIN g = 1..n
      BY <3>1, <3>2
    <3>4. ~tree.split => g[1] # Bare
      BY <2>1, <2>2, Apart
    <3> QED
      BY <2>1, <3>3, <3>4
  <2>4. t = [split |-> tree.split, frames |-> g] /\ tree.split \in BOOLEAN
    <3>1. t = [tree EXCEPT !.frames = g]
      BY <1>8
    <3> HIDE DEF t, g
    <3> QED
      BY <1>2, <3>1, PaneIs
  <2> HIDE DEF t, g
  <2>5. t \in Pane /\ t.split = tree.split /\ t.frames = g
    BY <2>1, <2>3, <2>4, IsPane
  <2>6. Proper(t, calm)
    BY <1>1, <1>2, <2>1, <2>2, <2>3, <2>5 DEF Proper
  <2>7. loads[i].parsing => HasDoc(t)
    <3> SUFFICES ASSUME loads[i].parsing PROVE HasDoc(t)
      OBVIOUS
    <3> DEFINE k == loads[i].target
    <3>1. parsing(k) # {}
      BY <1>4, <1>6
    <3>2. k # 0
      BY <1>8, <3>1
    <3>3. k \in 1..n
      BY <1>6, <2>1, <3>2 DEF Places
    <3>4. g[k] \in Shown
      BY <2>2, <3>1, <3>3
    <3> QED
      BY <2>3, <2>5, <3>3, <3>4 DEF HasDoc
  <2> QED
    BY <1>1, <1>5, <1>6, <2>5, <2>6, <2>7, LastEnds
<1> QED
  BY <1>7, <1>8

\* The containers that are left when those before the one of a load are gone
LEMMA RemainsIs ==
  ASSUME HInv, ~calm, NEW i \in DOMAIN loads
  PROVE  /\ Remains(i) \in Pane
         /\ Proper(Remains(i), FALSE)
         /\ loads[i].parsing => HasDoc(Remains(i))
<1> DEFINE l == loads[i]
           k == l.target
           f == Content(l)
           t == IF l.parsing THEN Fill(tree, k, f) ELSE tree
           r == Remains(i)
<1>1. /\ tree \in Pane /\ Proper(tree, FALSE) /\ k \in Places(tree)
      /\ l.parsing \in BOOLEAN
  <2>1. calm = FALSE
    BY DEF HInv
  <2> QED
    BY <2>1, LoadOf, LoadIs
<1>2. l.parsing => /\ f \in Shown /\ f.doc \in Doc \ Outside
                   /\ k # 0 => f.doc \notin DOMAIN Frames
  BY ParsingIs
<1>3. r = IF k = 0 THEN t ELSE [t EXCEPT !.frames = SubSeq(t.frames, k, Len(t.frames))]
  BY DEF Remains
<1>4. /\ t \in Pane /\ Proper(t, FALSE) /\ k \in Places(t)
      /\ l.parsing => (IF k = 0 THEN 1 ELSE k) \in DOMAIN t.frames
                      /\ t.frames[IF k = 0 THEN 1 ELSE k] \in Shown
  <2>1. CASE ~l.parsing
    BY <1>1, <2>1
  <2>2. CASE l.parsing /\ k = 0
    <3>1. t = Fill(tree, 0, f) /\ f \in Shown
      BY <1>2, <2>2
    <3> HIDE DEF t, f
    <3>2. /\ t \in Pane /\ t.split = FALSE /\ DOMAIN t.frames = {1}
          /\ t.frames[1] = f
      BY <3>1, FillBase
    <3>3. Proper(t, FALSE)
      BY <1>2, <2>2, <3>2 DEF Proper
    <3> QED
      BY <2>2, <3>1, <3>2, <3>3 DEF Places
  <2>3. CASE l.parsing /\ k # 0
    <3>1. t = Fill(tree, k, f) /\ f \in Shown
      BY <1>2, <2>3
    <3> HIDE DEF t, f
    <3>2. /\ t \in Pane /\ tree.split = TRUE /\ t.split = TRUE
          /\ k \in DOMAIN tree.frames
          /\ SameBut(t.frames, tree.frames, k, f)
      <4> HIDE DEF k
      <4> QED
        BY <1>1, <2>3, <3>1, FillFrame
    <3>3. DOMAIN t.frames = DOMAIN tree.frames
          /\ \A j \in DOMAIN tree.frames : t.frames[j] = IF j = k THEN f ELSE tree.frames[j]
      BY <3>2 DEF SameBut
    <3>4. Proper(t, FALSE)
      BY <1>1, <1>2, <2>3, <3>2, <3>3 DEF Proper
    <3> QED
      BY <2>3, <3>1, <3>2, <3>3, <3>4 DEF Places
  <2> QED
    BY <1>1, <2>1, <2>2, <2>3
<1> HIDE DEF t, r, f
<1>5. CASE k = 0
  BY <1>3, <1>4, <1>5 DEF HasDoc, r
<1>6. CASE k # 0
  <2>1. PICK n \in Nat \ {0} : /\ DOMAIN t.frames = 1..n
                               /\ t.frames \in [1..n -> Within]
                               /\ t.split => n \in Widths
    BY <1>4, PaneIs
  <2>2. t.split = TRUE /\ k \in 1..n
    <3>1. t.split \in BOOLEAN
      BY <1>4, PaneIs
    <3> QED
      BY <1>4, <1>6, <2>1, <3>1 DEF Places
  <2>3. t.frames \in Seq(Within) /\ Len(t.frames) = n
    BY <2>1
  <2> DEFINE g == SubSeq(t.frames, k, n)
             m == n - k + 1
  <2>4. g \in [1..m -> Within] /\ \A j \in 1..m : g[j] = t.frames[k + j - 1]
    <3>1. k \in Int /\ n \in Int /\ \A j \in k..n : t.frames[j] \in Within
      BY <2>1, <2>2
    <3>2. /\ g \in Seq(Within)
          /\ Len(g) = IF k <= n THEN n - k + 1 ELSE 0
          /\ \A j \in 1..(n - k + 1) : g[j] = t.frames[k + j - 1]
      <4> DEFINE s == t.frames
      <4>1. \A j \in k..n : s[j] \in Within
        BY <3>1
      <4>2. g = SubSeq(s, k, n)
        OBVIOUS
      <4> HIDE DEF s, g, k
      <4>3. /\ g \in Seq(Within)
            /\ Len(g) = IF k <= n THEN n - k + 1 ELSE 0
            /\ \A j \in 1..(n - k + 1) : g[j] = s[k + j - 1]
        BY ONLY <3>1, <4>1, <4>2, SubSeqProperties
      <4> QED
        BY <4>3 DEF s
    <3> HIDE DEF g
    <3>3. Len(g) = m
      BY <2>2, <3>2
    <3> QED
      BY <3>2, <3>3
  <2>5. m \in Nat \ {0} /\ m \in 1..n /\ \A j \in 1..m : k + j - 1 \in 1..n
    BY <2>1, <2>2
  <2>6. r = [split |-> TRUE, frames |-> g]
    <3>1. r = [t EXCEPT !.frames = g]
      BY <1>3, <1>6, <2>3
    <3>2. t = [split |-> t.split, frames |-> t.frames]
      BY <1>4, PaneIs
    <3> HIDE DEF g
    <3> QED
      BY ONLY <2>2, <3>1, <3>2
  <2> HIDE DEF g, m
  <2>7. m \in Widths
    BY <2>1, <2>2, <2>5, WidthsDown
  <2>8. r \in Pane /\ r.split = TRUE /\ r.frames = g
    BY <2>4, <2>5, <2>6, <2>7, IsPane
  <2>9. Proper(r, FALSE)
    BY <1>4, <2>1, <2>2, <2>4, <2>5, <2>8 DEF Proper
  <2>10. l.parsing => HasDoc(r)
    <3> SUFFICES ASSUME l.parsing PROVE HasDoc(r)
      OBVIOUS
    <3>1. t.frames[k] \in Shown
      BY <1>4, <1>6
    <3>2. 1 \in 1..m /\ k + 1 - 1 = k
      BY <2>2, <2>5
    <3>3. g[1] = t.frames[k]
      BY <2>4, <3>2
    <3> QED
      BY <2>4, <2>8, <3>1, <3>2, <3>3 DEF HasDoc
  <2> QED
    BY <2>8, <2>9, <2>10 DEF r
<1> QED
  BY <1>5, <1>6

-----------------------------------------------------------------------------
(***************************************************************************)
(* An entry that is restored.                                              *)
(***************************************************************************)
\* What becomes of the containers, and the loads for them
Emptied(e) == IF e.split THEN Split(Len(e.frames), Absent) ELSE EmptyPane

LEMMA EmptiedIs ==
  ASSUME NEW e \in Pane
  PROVE  /\ Emptied(e) \in Pane /\ SameShape(Emptied(e), e)
         /\ \A k \in DOMAIN e.frames : Emptied(e).frames[k] = Absent
<1>1. PICK n \in Nat \ {0} : /\ DOMAIN e.frames = 1..n
                             /\ e.frames \in [1..n -> Within]
                             /\ e.split => n \in Widths
                             /\ ~e.split => n = 1
  BY PaneIs
<1>2. e.split \in BOOLEAN /\ Len(e.frames) = n
  BY <1>1, PaneIs
<1>3. CASE e.split
  <2>1. n \in Widths /\ Emptied(e) = Split(n, Absent) /\ e.split = TRUE
    BY <1>1, <1>2, <1>3 DEF Emptied
  <2>2. /\ Split(n, Absent) \in Pane /\ Split(n, Absent).split = TRUE
        /\ DOMAIN Split(n, Absent).frames = 1..n
        /\ \A k \in 1..n : Split(n, Absent).frames[k] = Absent
    BY <2>1, SplitIs
  <2> QED
    BY <1>1, <2>1, <2>2 DEF SameShape
<1>4. CASE ~e.split
  <2>1. Emptied(e) = EmptyPane /\ e.split = FALSE /\ 1..n = {1}
    BY <1>1, <1>2, <1>4 DEF Emptied
  <2> QED
    BY <1>1, <2>1, EmptyPaneIs DEF SameShape
<1> QED
  BY <1>3, <1>4

\* process_r()
LEMMA LoadsForIs ==
  ASSUME NEW e \in Pane,
         \A k \in DOMAIN e.frames : e.frames[k] \in Shown \cup {Absent}
  PROVE  LET ls == LoadsFor(e)
         IN  /\ ls \in Seq(Load)
             /\ \A i \in DOMAIN ls :
                  /\ ls[i].target = 0 <=> ~e.split
                  /\ FrameOf(ls[i]) \in DOMAIN e.frames
                  /\ e.frames[FrameOf(ls[i])] \in Shown
                  /\ ls[i].doc = e.frames[FrameOf(ls[i])].doc
                  /\ ~ls[i].parsing
             /\ \A i, j \in DOMAIN ls : i # j => ls[i].target # ls[j].target
             /\ \A k \in DOMAIN e.frames :
                  e.frames[k] \in Shown => \E i \in DOMAIN ls : FrameOf(ls[i]) = k
<1> DEFINE s == [k \in DOMAIN e.frames |-> k]
           J == {k \in DOMAIN e.frames : e.frames[k] # Absent}
           all == Picked(s, J)
           Of(k) == NewLoad(IF e.split THEN k ELSE 0,
                            e.frames[k].doc, e.frames[k].scroll)
           ls == LoadsFor(e)
<1>1. PICK n \in Nat \ {0} : DOMAIN e.frames = 1..n /\ (~e.split => n = 1)
  BY PaneIs
<1>2. ls = [i \in DOMAIN all |-> Of(all[i])]
  BY DEF LoadsFor
<1>3. s \in Seq(Nat) /\ DOMAIN s = 1..n /\ \A k \in 1..n : s[k] = k
  <2>1. s = [k \in 1..n |-> k] /\ \A k \in 1..n : k \in Nat
    BY <1>1
  <2> HIDE DEF s
  <2> QED
    BY <1>1, <2>1
<1>4. J \in SUBSET DOMAIN s /\ \A k \in J : k \in 1..n /\ e.frames[k] \in Shown
  BY <1>1, <1>3
<1>5. \A k \in 1..n : e.frames[k] \in Shown => k \in J
  BY <1>1, Apart
<1> HIDE DEF s, J
<1>6. all \in Seq(Nat) /\ From(all, s, J)
  BY ONLY <1>3, <1>4, FromPicked
<1> HIDE DEF all
<1>7. PICK f \in [DOMAIN all -> J] :
        /\ \A i, j \in DOMAIN all : f[i] = f[j] => i = j
        /\ \A j \in J : \E i \in DOMAIN all : f[i] = j
        /\ \A i \in DOMAIN all : all[i] = s[f[i]]
  BY <1>6 DEF From
<1>8. /\ \A i \in DOMAIN all : all[i] \in J /\ all[i] = f[i]
      /\ \A i, j \in DOMAIN all : all[i] = all[j] => i = j
      /\ \A j \in J : \E i \in DOMAIN all : all[i] = j
  BY <1>3, <1>4, <1>7
<1>9. \A k \in J : /\ Of(k) \in Load /\ ~Of(k).parsing
                   /\ Of(k).target = IF e.split THEN k ELSE 0
                   /\ Of(k).doc = e.frames[k].doc
  <2> TAKE k \in J
  <2> DEFINE a == IF e.split THEN k ELSE 0
             d == e.frames[k].doc
             b == e.frames[k].scroll
  <2>1. a \in Nat /\ d \in Doc /\ b \in BOOLEAN
    BY <1>4, ShownIs
  <2>2. Of(k) = NewLoad(a, d, b)
    OBVIOUS
  <2> DEFINE x == Of(k)
  <2>3. x = NewLoad(a, d, b)
    BY <2>2
  <2> HIDE DEF x, a, d, b
  <2>4. x \in Load /\ x.target = a /\ x.doc = d /\ ~x.parsing
    BY ONLY <2>1, <2>3, NewLoadIs
  <2> QED
    BY <2>4 DEF x, a, d
<1> HIDE DEF Of
<1>10. ls \in Seq(Load) /\ DOMAIN ls = DOMAIN all
       /\ \A i \in DOMAIN all : ls[i] = Of(all[i])
  <2>1. PICK m \in Nat : DOMAIN all = 1..m
    BY <1>6
  <2>2. ls = [i \in 1..m |-> Of(all[i])]
    BY <1>2, <2>1
  <2> HIDE DEF ls
  <2>3. \A i \in 1..m : Of(all[i]) \in Load
    BY <1>8, <1>9, <2>1
  <2> QED
    BY <2>1, <2>2, <2>3
<1> HIDE DEF ls
<1>11. \A i \in DOMAIN ls :
         /\ all[i] \in J /\ all[i] \in 1..n /\ FrameOf(ls[i]) = all[i]
         /\ ls[i].target = 0 <=> ~e.split
         /\ ls[i].target = IF e.split THEN all[i] ELSE 0
         /\ ls[i].doc = e.frames[all[i]].doc /\ ~ls[i].parsing
  <2> TAKE i \in DOMAIN ls
  <2>1. all[i] \in J /\ all[i] \in 1..n /\ ls[i] = Of(all[i])
    BY <1>4, <1>8, <1>10
  <2>2. all[i] # 0 /\ (~e.split => all[i] = 1)
    BY <1>1, <2>1
  <2> QED
    BY <1>9, <2>1, <2>2 DEF FrameOf
<1>12. \A i, j \in DOMAIN ls : i # j => ls[i].target # ls[j].target
  <2> SUFFICES ASSUME NEW i \in DOMAIN ls, NEW j \in DOMAIN ls, i # j
               PROVE  ls[i].target # ls[j].target
    OBVIOUS
  <2>1. all[i] # all[j]
    BY <1>8, <1>10
  <2>2. e.split
    BY <1>1, <1>11, <2>1
  <2> QED
    BY <1>11, <2>1, <2>2
<1>13. \A k \in DOMAIN e.frames :
         e.frames[k] \in Shown => \E i \in DOMAIN ls : FrameOf(ls[i]) = k
  BY <1>1, <1>5, <1>8, <1>10, <1>11
<1>14. \A i \in DOMAIN ls :
         /\ ls[i].target = 0 <=> ~e.split
         /\ FrameOf(ls[i]) \in DOMAIN e.frames
         /\ e.frames[FrameOf(ls[i])] \in Shown
         /\ ls[i].doc = e.frames[FrameOf(ls[i])].doc
         /\ ~ls[i].parsing
  BY <1>1, <1>4, <1>11
<1>15. ls \in Seq(Load)
  BY <1>10
<1> QED
  BY ONLY <1>12, <1>13, <1>14, <1>15 DEF ls

\* The loads for an entry fit the containers that wait for them.
LEMMA RestoringIs ==
  ASSUME NEW e \in Pane, HasDoc(e), NEW w, Proper(e, w), NEW u,
         \A k \in DOMAIN e.frames : e.frames[k] \in Shown \cup {Absent}
  PROVE  /\ LoadsRight(LoadsFor(e), Emptied(e), u)
         /\ LoadsFor(e) # <<>>
         /\ Restoring(Emptied(e), LoadsFor(e), e)
<1> DEFINE ls == LoadsFor(e)
           t == Emptied(e)
<1>1. /\ ls \in Seq(Load)
      /\ \A i \in DOMAIN ls :
           /\ ls[i].target = 0 <=> ~e.split
           /\ FrameOf(ls[i]) \in DOMAIN e.frames
           /\ e.frames[FrameOf(ls[i])] \in Shown
           /\ ls[i].doc = e.frames[FrameOf(ls[i])].doc
           /\ ~ls[i].parsing
      /\ \A i, j \in DOMAIN ls : i # j => ls[i].target # ls[j].target
      /\ \A k \in DOMAIN e.frames :
           e.frames[k] \in Shown => \E i \in DOMAIN ls : FrameOf(ls[i]) = k
  BY LoadsForIs
<1>2. /\ t \in Pane /\ SameShape(t, e)
      /\ \A k \in DOMAIN e.frames : t.frames[k] = Absent
  BY EmptiedIs
<1> HIDE DEF ls, t
<1>3. ls # <<>>
  <2>1. PICK k \in DOMAIN e.frames : e.frames[k] \in Shown
    BY DEF HasDoc
  <2>2. PICK i \in DOMAIN ls : FrameOf(ls[i]) = k
    BY <1>1, <2>1
  <2> QED
    BY <1>1, <2>2
<1>4. Restoring(t, ls, e)
  <2>1. \A k \in DOMAIN t.frames : \/ SameDoc(t.frames[k], e.frames[k])
                                   \/ \E i \in DOMAIN ls : FrameOf(ls[i]) = k
    BY <1>1, <1>2 DEF SameShape, SameDoc
  <2> QED
    BY <1>1, <1>2, <2>1 DEF Restoring
<1>5. \A i \in DOMAIN ls : LoadRight(ls[i], t, u)
  <2> TAKE i \in DOMAIN ls
  <2> DEFINE k == FrameOf(ls[i])
  <2>1. k \in DOMAIN e.frames /\ e.frames[k] \in Shown /\ ls[i].doc = e.frames[k].doc
    BY <1>1
  <2>2. ls[i].doc \in Doc \ Outside /\ (e.split => ls[i].doc \notin DOMAIN Frames)
    BY <2>1 DEF Proper
  <2>3. ls[i].target \in Places(t)
    <3>1. CASE ls[i].target = 0
      BY <3>1 DEF Places
    <3>2. CASE ls[i].target # 0
      <4>1. k = ls[i].target /\ e.split
        BY <1>1, <3>2 DEF FrameOf
      <4> QED
        BY <1>2, <2>1, <4>1 DEF Places, SameShape
    <3> QED
      BY <3>1, <3>2
  <2> QED
    BY <1>1, <2>2, <2>3 DEF LoadRight
<1>6. LoadsRight(ls, t, u)
  BY <1>1, <1>5 DEF LoadsRight
<1> QED
  BY <1>3, <1>4, <1>6 DEF ls, t

\* hist_menu() and the mark of the entry that is restored
LEMMA RestoredIs ==
  ASSUME NEW c, NEW w, ListRight(c, w), NEW m \in 0..(c.used - 1),
         Unmarked(c, "star"), NEW short \in BOOLEAN, short \/ Unmarked(c, "dot")
  PROVE  LET g == Marked([c EXCEPT !.menu = m], "star")
         IN  /\ ListRight(g, w)
             /\ g.used = c.used /\ g.menu = m
             /\ g.slot[m].tree = c.slot[m].tree
             /\ Mark(g) = "star"
             /\ MarkedRight(g, FALSE, short)
             /\ \A i \in 0..HistoryLast : i # m => g.slot[i] = c.slot[i]
             /\ \A i \in 0..(c.used - 1) :
                  Recorded(g.slot[i].tree) = Recorded(c.slot[i].tree)
<1> DEFINE d == [c EXCEPT !.menu = m]
           g == Marked(d, "star")
<1>1. /\ c \in ListOf
      /\ c = [slot |-> c.slot, used |-> c.used, menu |-> c.menu, reffs |-> c.reffs]
      /\ c.slot \in [0..HistoryLast -> Entry \cup {Absent}]
      /\ c.used \in 0..(HistoryLast + 1) /\ c.used \in Nat
      /\ c.reffs \in [Title -> Nat]
  BY ListIs DEF ListRight
<1>2. m \in 0..HistoryLast /\ m < c.used /\ c.used > 0
  BY <1>1, EntryRight
<1>3. d = [slot |-> c.slot, used |-> c.used, menu |-> m, reffs |-> c.reffs]
  BY <1>1
<1> HIDE DEF d
<1>4. d \in ListOf
  BY <1>1, <1>2, <1>3, IsList
<1>5. d.slot = c.slot /\ d.used = c.used /\ d.menu = m /\ d.reffs = c.reffs
  BY <1>3
<1>6. ListRight(d, w)
  <2>1. InUse(d)
    BY <1>2, <1>5 DEF InUse, ListRight
  <2>2. ProperEntries(d, w)
    BY <1>5 DEF ProperEntries, ListRight
  <2>3. \A t \in Title : UsersOf(d, t) = UsersOf(c, t)
    BY <1>5 DEF UsersOf
  <2>4. Shared(d)
    BY <1>5, <2>3 DEF Shared, ListRight
  <2> QED
    BY <1>4, <2>1, <2>2, <2>4 DEF ListRight
<1>7. "star" \in Signs /\ d.used > 0
  BY <1>2, <1>5 DEF Signs
<1> HIDE DEF g
<1>8. /\ ListRight(g, w)
      /\ g.used = d.used /\ g.menu = d.menu
      /\ g.slot[d.menu].tree = d.slot[d.menu].tree
      /\ g.slot[d.menu].mark = "star" /\ Mark(g) = "star"
      /\ \A i \in 0..HistoryLast : i # d.menu => g.slot[i] = d.slot[i]
      /\ \A i \in 0..(d.used - 1) :
           Recorded(g.slot[i].tree) = Recorded(d.slot[i].tree)
  <2>1. g = Marked(d, "star")
    BY DEF g
  <2> QED
    BY ONLY <1>6, <1>7, <2>1, MarkedIs
<1>9. ASSUME NEW s, Unmarked(c, s)
      PROVE  MarkedAtMost(g, s)
  <2> SUFFICES ASSUME NEW i \in 0..(c.used - 1), i # m
               PROVE  g.slot[i].mark # s
    BY <1>5, <1>8 DEF MarkedAtMost
  <2>1. i \in 0..HistoryLast
    BY EntryRight
  <2>2. g.slot[i] = c.slot[i]
    BY <1>5, <1>8, <2>1
  <2> QED
    BY <1>9, <2>2 DEF Unmarked
<1>10. MarkedRight(g, FALSE, short)
  BY <1>9 DEF MarkedRight
<1> QED
  BY <1>5, <1>8, <1>10 DEF g, d

\* The list when the entry m is restored: a document that was being parsed may
\* have got an entry before.
Turned(h, g, m) ==
  /\ g.menu = m
  /\ \/ g.used = h.used /\ m \in 0..(h.used - 1) /\ SameTrees(h, g, h.used, 0)
     \/ /\ h.used > 0 /\ Gone(h) = 0 /\ g.used = Current(h) + 1
        /\ m \in 0..h.menu /\ SameTrees(h, g, Current(h), 0)

\* The list c that has the entry to be restored, whatever has ended before
Ready(c, m) ==
  /\ ListRight(c, calm)
  /\ Unmarked(c, "star") /\ (fails > 0 \/ Unmarked(c, "dot"))
  /\ m \in 0..(c.used - 1)
  /\ \/ c.used = hist.used /\ SameTrees(hist, c, hist.used, 0)
     \/ /\ Gone(hist) = 0 /\ c.used = Current(hist) + 1
        /\ m \in 0..hist.menu /\ SameTrees(hist, c, Current(hist), 0)

LEMMA MarkUnmarked ==
  ASSUME NEW h, NEW g, g.used = h.used,
         \A i \in 0..(h.used - 1) : g.slot[i].mark = h.slot[i].mark, NEW m
  PROVE  /\ Unmarked(h, m) => Unmarked(g, m)
         /\ g.menu = h.menu /\ MarkedAtMost(h, m) => MarkedAtMost(g, m)
BY DEF Unmarked, MarkedAtMost

LEMMA ReadyIs ==
  ASSUME HInv, Careless = {}, NEW m \in 0..HistoryLast, Restore(m)
  PROVE  \E c : /\ Ready(c, m)
                /\ calm => c = Update(hist, tree)
                /\ tree' = Emptied(Update(hist, tree).slot[m].tree)
                /\ loads' = LoadsFor(Update(hist, tree).slot[m].tree)
                /\ hist' = Marked([c EXCEPT !.menu = m], "star")
                /\ UNCHANGED <<calm, visits, fails, open, faults>>
<1> DEFINE h == Update(hist, tree)
           e == h.slot[m].tree
           late == {i \in LastCleared : loads[i].parsing /\ Adds(h, TRUE)}
           Restored(c) ==
             /\ tree' = IF e.split THEN Split(Len(e.frames), Absent) ELSE EmptyPane
             /\ loads' = LoadsFor(e)
             /\ hist' = Marked([c EXCEPT !.menu = m], "star")
             /\ UNCHANGED faults
<1>1. /\ m < hist.used
      /\ calm => Quiet
      /\ late # {} => m \notin Outdated(h) /\ h.menu # HistoryLast
      /\ \/ Quiet /\ Restored(h)
         \/ \E i \in LastCleared :
              IF i \in late /\ m \in Outdated(h)
              THEN faults' = {"freed"} /\ UNCHANGED <<tree, loads, hist>>
              ELSE Restored(Finished(h, Remains(i), loads[i].parsing, TRUE))
      /\ UNCHANGED <<calm, visits, fails, open>>
  BY DEF Restore
<1>2. /\ tree \in Pane /\ ListRight(hist, calm) /\ MarkedRight(hist, Quiet, fails > 0)
      /\ calm \in BOOLEAN /\ hist.used \in Nat /\ hist.used > 0
      /\ hist.menu \in 0..(hist.used - 1) /\ hist \in ListOf /\ HistoryLast \in Nat
      /\ m \in 0..(hist.used - 1)
  <2>1. HistoryLast \in Nat
    BY HistoryAssumption
  <2>2. hist.used \in Nat /\ hist.used > 0
    BY <1>1, <2>1, HistUsed
  <2> QED
    BY <1>1, <2>1, <2>2, HistUsed DEF HInv
<1>3. /\ ListRight(h, calm)
      /\ h.used = hist.used /\ h.menu = hist.menu
      /\ \A i \in 0..(hist.used - 1) : h.slot[i].mark = hist.slot[i].mark
      /\ \A i \in 0..(hist.used - 1) :
           Recorded(h.slot[i].tree) = Recorded(hist.slot[i].tree)
  BY <1>2, UpdateIs
<1> HIDE DEF h
<1>4. SameTrees(hist, h, hist.used, 0)
  BY <1>2, <1>3, SameTreesZero
<1>5. Current(h) = Current(hist) /\ Gone(h) = Gone(hist)
  BY <1>3 DEF Current, Gone
<1>6. CASE Quiet /\ Restored(h)
  <2>1. Unmarked(hist, "star") /\ (fails > 0 \/ Unmarked(hist, "dot"))
    BY <1>2, <1>6 DEF MarkedRight
  <2>2. Unmarked(h, "star") /\ (fails > 0 \/ Unmarked(h, "dot"))
    BY <1>3, <2>1, MarkUnmarked
  <2>3. Ready(h, m)
    BY <1>2, <1>3, <1>4, <2>2 DEF Ready
  <2> QED
    BY <1>1, <1>6, <2>3 DEF Emptied, h
<1>7. ASSUME NEW i \in LastCleared,
             IF i \in late /\ m \in Outdated(h)
             THEN faults' = {"freed"} /\ UNCHANGED <<tree, loads, hist>>
             ELSE Restored(Finished(h, Remains(i), loads[i].parsing, TRUE))
      PROVE  \E c : Ready(c, m) /\ Restored(c) /\ ~calm
  <2> DEFINE page == loads[i].parsing
             r == Remains(i)
             c == Finished(h, r, page, TRUE)
  <2>1. i \in DOMAIN loads /\ ~Quiet /\ ~calm /\ page \in BOOLEAN
    <3>1. i \in DOMAIN loads
      BY DEF LastCleared, LastToEnd
    <3>2. ~Quiet /\ loads[i] \in Load
      BY <3>1, LoadOf
    <3> QED
      BY <1>1, <3>1, <3>2, LoadIs
  <2>2. i \in late => m \notin Outdated(h) /\ h.menu # HistoryLast
    BY <1>1
  <2>3. Restored(c)
    BY <1>7, <2>2
  <2>4. r \in Pane /\ Proper(r, calm) /\ (page => HasDoc(r))
    <3>1. calm = FALSE
      BY <1>2, <2>1
    <3> QED
      BY <2>1, <3>1, RemainsIs
  <2>5. MarkedAtMost(hist, "star") /\ (fails > 0 \/ MarkedAtMost(hist, "dot"))
    BY <1>2, <2>1 DEF MarkedRight
  <2>6. MarkedAtMost(h, "star") /\ (fails > 0 \/ MarkedAtMost(h, "dot"))
    BY <1>3, <2>5, MarkUnmarked
  <2>7. Adds(h, page) => m \notin Outdated(h) /\ h.menu # HistoryLast
    <3>1. Adds(h, page) => page /\ Adds(h, TRUE)
      BY DEF Adds
    <3> QED
      BY <2>2, <3>1
  <2>h. h.used # 0 /\ h.used > 0
    BY <1>2, <1>3
  <2> HIDE DEF page, r, late
  <2>8. /\ ListRight(c, calm)
        /\ Unmarked(c, "star")
        /\ MarkedAtMost(h, "dot") => Unmarked(c, "dot")
        /\ Adds(h, page) => Appended(h, c)
        /\ ~Adds(h, page) => Kept(h, c)
    <3> DEFINE ok == TRUE
    <3>1. c = Finished(h, r, page, ok) /\ ok \in BOOLEAN /\ ok
      OBVIOUS
    <3> HIDE DEF c, ok
    <3> QED
      BY ONLY <1>3, <2>1, <2>4, <2>6, <2>h, <3>1, FinishedIs
  <2> HIDE DEF c
  <2>9. Unmarked(c, "star") /\ (fails > 0 \/ Unmarked(c, "dot"))
    BY <2>6, <2>8
  <2>10. CASE ~Adds(h, page)
    <3>1. /\ c.used = h.used /\ SameTrees(h, c, h.used, 0)
      BY <2>8, <2>10 DEF Kept
    <3>2. SameTrees(hist, c, hist.used, 0)
      BY <1>2, <1>3, <3>1 DEF SameTrees
    <3>3. Ready(c, m)
      BY <1>2, <1>3, <2>8, <2>9, <3>1, <3>2 DEF Ready
    <3> QED
      BY <2>1, <2>3, <3>3
  <2>11. CASE Adds(h, page)
    <3>1. m \notin Outdated(h) /\ h.menu # HistoryLast
      BY <2>7, <2>11
    <3>2. h.menu \in 0..HistoryLast
      BY <1>2, <1>3, EntryRight
    <3>3. Gone(h) = 0 /\ Current(h) = h.menu + 1
      BY <1>2, <2>h, <3>1, <3>2 DEF Gone, Current
    <3>4. /\ c.used = Current(h) + 1 /\ SameTrees(h, c, Current(h), 0)
      <4>1. Current(h) - 0 = Current(h)
        BY <1>2, <1>3, <3>3
      <4> QED
        BY <2>8, <2>11, <3>3, <4>1 DEF Appended
    <3>5. m \in 0..hist.menu
      <4>0. h \in ListOf /\ (h.used > 0 => h.menu < h.used)
        BY <1>3 DEF ListRight, InUse
      <4>1. m \in Outdated(h) <=> m \in 0..(h.used - 1) /\ (m < Gone(h) \/ m >= Current(h))
        BY <4>0, OutdatedIs
      <4> QED
        BY <1>2, <1>3, <3>1, <3>3, <4>1
    <3>6. SameTrees(hist, c, Current(hist), 0)
      <4>1. \A a \in 0..(Current(hist) - 1) :
              a \in 0..(hist.used - 1) /\ a + 0 = a
        BY <1>2, <1>3, <1>5, <3>3
      <4> QED
        BY <1>2, <1>3, <1>5, <3>4, <4>1 DEF SameTrees
    <3>7. m \in 0..(c.used - 1)
      BY <1>2, <1>3, <3>3, <3>4, <3>5
    <3>8. Ready(c, m)
      BY <1>5, <2>8, <2>9, <3>3, <3>4, <3>5, <3>6, <3>7 DEF Ready
    <3> QED
      BY <2>1, <2>3, <3>8
  <2> QED
    BY <2>10, <2>11
<1>8. CASE \E i \in LastCleared :
             IF i \in late /\ m \in Outdated(h)
             THEN faults' = {"freed"} /\ UNCHANGED <<tree, loads, hist>>
             ELSE Restored(Finished(h, Remains(i), loads[i].parsing, TRUE))
  <2>1. PICK c : Ready(c, m) /\ Restored(c) /\ ~calm
    BY <1>7, <1>8
  <2> QED
    BY <1>1, <2>1 DEF Emptied, h
<1> QED
  BY <1>1, <1>6, <1>8

LEMMA RestoreRight ==
  ASSUME HInv, Careless = {}, NEW m \in 0..HistoryLast, Restore(m)
  PROVE  /\ HInv' /\ Turned(hist, hist', m)
         /\ calm /\ hist'.menu # hist.menu
              => hist'.slot[hist.menu].tree.frames = tree.frames
<1> DEFINE h == Update(hist, tree)
           e == h.slot[m].tree
<1>1. PICK c : /\ Ready(c, m)
               /\ calm => c = h
               /\ tree' = Emptied(e)
               /\ loads' = LoadsFor(e)
               /\ hist' = Marked([c EXCEPT !.menu = m], "star")
               /\ UNCHANGED <<calm, visits, fails, open, faults>>
  BY ReadyIs
<1>2. /\ tree \in Pane /\ ListRight(hist, calm) /\ hist.used \in Nat
      /\ hist.used > 0 /\ hist.menu \in 0..(hist.used - 1) /\ m \in 0..(hist.used - 1)
      /\ hist.menu \in 0..HistoryLast
  <2>1. m < hist.used
    BY DEF Restore
  <2>2. hist.used \in Nat /\ hist.used > 0
    BY <2>1, HistUsed, HistoryAssumption
  <2>3. ListRight(hist, calm) /\ hist.menu \in 0..(hist.used - 1)
    BY <2>2, HistUsed DEF HInv
  <2> QED
    BY <2>1, <2>2, <2>3, EntryRight DEF HInv
<1>3. /\ ListRight(h, calm)
      /\ h.used = hist.used /\ h.menu = hist.menu
      /\ Agree(tree, hist.slot[hist.menu].tree)
           => h.slot[hist.menu].tree.frames = tree.frames
  BY <1>2, UpdateIs
<1> HIDE DEF h
<1>4. /\ e \in Pane /\ HasDoc(e) /\ Proper(e, calm)
      /\ \A k \in DOMAIN e.frames : e.frames[k] \in Shown \cup {Absent}
  BY <1>2, <1>3, EntryRight
<1> HIDE DEF e
<1>5. /\ LoadsRight(LoadsFor(e), Emptied(e), hist'.used)
      /\ LoadsFor(e) # <<>>
      /\ Restoring(Emptied(e), LoadsFor(e), e)
  BY <1>4, RestoringIs
<1>6. /\ Emptied(e) \in Pane /\ SameShape(Emptied(e), e)
      /\ \A k \in DOMAIN e.frames : Emptied(e).frames[k] = Absent
  BY <1>4, EmptiedIs
<1>7. /\ ListRight(hist', calm)
      /\ hist'.used = c.used /\ hist'.menu = m
      /\ hist'.slot[m].tree = c.slot[m].tree
      /\ Mark(hist') = "star"
      /\ MarkedRight(hist', FALSE, fails > 0)
      /\ \A i \in 0..HistoryLast : i # m => hist'.slot[i] = c.slot[i]
      /\ \A i \in 0..(c.used - 1) :
           Recorded(hist'.slot[i].tree) = Recorded(c.slot[i].tree)
  <2> DEFINE g == Marked([c EXCEPT !.menu = m], "star")
             short == fails > 0
  <2>1. /\ ListRight(c, calm) /\ m \in 0..(c.used - 1) /\ Unmarked(c, "star")
        /\ short \in BOOLEAN /\ (short \/ Unmarked(c, "dot"))
    BY <1>1 DEF Ready
  <2> HIDE DEF short
  <2>2. /\ ListRight(g, calm)
        /\ g.used = c.used /\ g.menu = m
        /\ g.slot[m].tree = c.slot[m].tree
        /\ Mark(g) = "star"
        /\ MarkedRight(g, FALSE, short)
        /\ \A i \in 0..HistoryLast : i # m => g.slot[i] = c.slot[i]
        /\ \A i \in 0..(c.used - 1) :
             Recorded(g.slot[i].tree) = Recorded(c.slot[i].tree)
    BY ONLY <2>1, RestoredIs, ZenonT(40)
  <2> HIDE DEF g
  <2>3. hist' = g
    BY <1>1 DEF g
  <2> QED
    BY ONLY <2>2, <2>3 DEF short
<1>8. ASSUME calm
      PROVE  Calmly(Emptied(e), LoadsFor(e), hist')
  <2>1. hist'.slot[hist'.menu].tree = e
    BY <1>1, <1>7, <1>8 DEF e
  <2>2. \A k \in DOMAIN Emptied(e).frames : Emptied(e).frames[k] # Bare
    BY <1>6, Apart DEF SameShape
  <2> QED
    BY <1>5, <1>7, <2>1, <2>2 DEF Calmly
<1>9. HInv'
  <2>1. tree' \in Pane /\ Proper(tree', calm')
    <3>1. Proper(Emptied(e), calm)
      BY <1>6, Apart DEF Proper, SameShape
    <3> QED
      BY <1>1, <1>6, <3>1
  <2>2. ListRight(hist', calm') /\ LoadsRight(loads', tree', hist'.used)
    BY <1>1, <1>5, <1>7
  <2>3. MarkedRight(hist', Quiet', fails' > 0)
    <3>1. Quiet' = FALSE
      BY <1>1, <1>5 DEF Quiet
    <3> QED
      BY <1>1, <1>7, <3>1
  <2>4. calm' => Calmly(tree', loads', hist') /\ fails' = 0
    BY <1>1, <1>8 DEF HInv
  <2>5. /\ visits' \in 0..MaxVisits /\ calm' \in BOOLEAN /\ open' \in BOOLEAN
        /\ fails' \in 0..MaxFails /\ faults' = {}
    BY <1>1 DEF HInv
  <2> QED
    BY <2>1, <2>2, <2>3, <2>4, <2>5 DEF HInv
<1>10. Turned(hist, hist', m)
  <2>1. \A n \in 0..c.used : SameTrees(hist, c, n, 0) => SameTrees(hist, hist', n, 0)
    <3> SUFFICES ASSUME NEW n \in 0..c.used, SameTrees(hist, c, n, 0)
                 PROVE  SameTrees(hist, hist', n, 0)
      OBVIOUS
    <3>1. c.used \in Nat
      <4>1. c \in ListOf
        BY <1>1 DEF Ready, ListRight
      <4> QED
        BY <4>1, ListIs
    <3>2. \A i \in 0..(n - 1) : i \in 0..(c.used - 1)
      BY <3>1
    <3> QED
      BY <1>7, <3>2 DEF SameTrees
  <2>2. CASE c.used = hist.used /\ SameTrees(hist, c, hist.used, 0)
    <3>1. SameTrees(hist, hist', hist.used, 0)
      BY <1>2, <2>1, <2>2
    <3> QED
      BY <1>2, <1>7, <2>2, <3>1 DEF Turned
  <2>3. CASE /\ Gone(hist) = 0 /\ c.used = Current(hist) + 1
             /\ m \in 0..hist.menu /\ SameTrees(hist, c, Current(hist), 0)
    <3>1. Current(hist) \in 0..c.used
      BY <1>2, <2>3 DEF Current
    <3>2. SameTrees(hist, hist', Current(hist), 0)
      BY <2>1, <2>3, <3>1
    <3> QED
      BY <1>2, <1>7, <2>3, <3>2 DEF Turned
  <2> QED
    BY <1>1, <2>2, <2>3 DEF Ready
<1>11. ASSUME calm, hist'.menu # hist.menu
       PROVE  hist'.slot[hist.menu].tree.frames = tree.frames
  <2>1. Quiet
    BY <1>11 DEF Restore
  <2>2. Agree(tree, hist.slot[hist.menu].tree)
    BY <1>2, <1>11, <2>1 DEF HInv, Calmly, Quiet
  <2>3. hist'.slot[hist.menu] = h.slot[hist.menu]
    BY <1>1, <1>2, <1>7, <1>11
  <2> QED
    BY <1>3, <2>2, <2>3
<1> QED
  BY <1>9, <1>10, <1>11

-----------------------------------------------------------------------------
(***************************************************************************)
(* The invariant holds.                                                    *)
(***************************************************************************)
LEMMA InitRight == HistoryInit => HInv
<1> SUFFICES ASSUME HistoryInit PROVE HInv
  OBVIOUS
<1> DEFINE r == [t \in Title |-> 0]
<1>1. /\ tree = EmptyPane /\ loads = <<>> /\ hist = NoHistory(r)
      /\ calm \in BOOLEAN /\ visits = 0 /\ fails = 0 /\ open = TRUE /\ faults = {}
  BY DEF HistoryInit
<1>2. /\ r \in [Title -> Nat] /\ \A t \in Title : r[t] = 0
      /\ HistoryLast \in Nat \ {0} /\ MaxVisits \in Nat /\ MaxFails \in Nat
  BY HistoryAssumption
<1> HIDE DEF r
<1>3. /\ hist = [slot |-> NoEntries, used |-> 0, menu |-> 0, reffs |-> r]
      /\ NoEntries \in [0..HistoryLast -> Entry \cup {Absent}]
      /\ 0 \in 0..(HistoryLast + 1) /\ 0 \in 0..HistoryLast
  BY <1>1, <1>2 DEF NoHistory, NoEntries
<1>4. hist \in ListOf
  BY ONLY <1>2, <1>3, IsList
<1>5. hist.slot = NoEntries /\ hist.used = 0 /\ hist.menu = 0 /\ hist.reffs = r
  BY <1>3
<1>6. InUse(hist)
  BY <1>5 DEF InUse, NoEntries
<1>7. ProperEntries(hist, calm) /\ \A t : UsersOf(hist, t) = {}
  BY <1>5 DEF ProperEntries, UsersOf
<1>8. Shared(hist)
  <2>1. \A t \in Title : hist.reffs[t] = Cardinality(UsersOf(hist, t))
    BY <1>2, <1>5, <1>7, FS_EmptySet
  <2> QED
    BY <1>7, <2>1 DEF Shared
<1>9. ListRight(hist, calm)
  BY <1>4, <1>6, <1>7, <1>8 DEF ListRight
<1>10. LoadsRight(<<>>, tree, 0)
  BY DEF LoadsRight
<1>11. Calmly(EmptyPane, <<>>, hist)
  BY <1>5, EmptyPaneIs, Apart DEF Calmly
<1>12. MarkedRight(hist, Quiet, fails > 0)
  BY <1>1, <1>5 DEF MarkedRight, Unmarked, Quiet
<1>13. tree \in Pane /\ Proper(tree, calm)
  BY <1>1, EmptyPaneIs, Apart DEF Proper
<1>14. LoadsRight(loads, tree, hist.used)
  BY <1>1, <1>5, <1>10
<1>15. calm => Calmly(tree, loads, hist) /\ fails = 0
  BY <1>1, <1>11
<1> QED
  BY <1>1, <1>2, <1>9, <1>12, <1>13, <1>14, <1>15 DEF HInv

\* What a step may do to the list
Moves(h, g) ==
  \/ Told(h, g)
  \/ g.used = 0
  \/ \E m \in 0..HistoryLast : Turned(h, g, m)

\* Mark(hist') = "star" says that the step is one of Restore, or that the entry
\* that is shown stays the same.
Keeps ==
  calm /\ hist'.menu # hist.menu /\ Mark(hist') = "star"
    => hist'.slot[hist.menu].tree.frames = tree.frames

LEMMA ToldKeeps ==
  ASSUME Told(hist, hist')
  PROVE  Moves(hist, hist') /\ Keeps
BY DEF Told, Kept, Moves, Keeps

LEMMA KeptKeeps ==
  ASSUME Kept(hist, hist')
  PROVE  Moves(hist, hist') /\ Keeps
BY ToldKeeps DEF Told

LEMMA NextRight ==
  ASSUME HInv, Careless = {}, HistoryNext
  PROVE  HInv' /\ Moves(hist, hist') /\ Keeps
<1>1. CASE \E k \in Containers, d \in Doc : Follow(k, d)
  BY <1>1, FollowRight, KeptKeeps
<1>2. CASE \E k \in DOMAIN tree.frames : ScrollFrame(k)
  BY <1>2, ScrollFrameRight, KeptKeeps
<1>3. CASE Stop
  BY <1>3, StopRight, ToldKeeps
<1>4. CASE \E m \in 0..HistoryLast : Restore(m)
  BY <1>4, RestoreRight DEF Moves, Keeps
<1>5. CASE Close
  <2>1. HInv' /\ hist'.used = 0
    BY <1>5, CloseRight
  <2> QED
    BY <2>1 DEF Moves, Keeps, Mark
<1>6. CASE Open
  BY <1>6, OpenRight, KeptKeeps
<1>7. CASE \E i \in DOMAIN loads : Begin(i)
  BY <1>7, BeginRight, KeptKeeps
<1>8. CASE \E i \in DOMAIN loads : NoPage(i)
  BY <1>8, NoPageRight, ToldKeeps
<1>9. CASE \E i \in DOMAIN loads : Divide(i)
  BY <1>9, DivideRight, KeptKeeps
<1>10. CASE \E i \in DOMAIN loads : Done(i)
  BY <1>10, DoneRight, ToldKeeps
<1> QED
  BY <1>1, <1>2, <1>3, <1>4, <1>5, <1>6, <1>7, <1>8, <1>9, <1>10
     DEF HistoryNext, User, Loading

LEMMA StutterRight ==
  ASSUME HInv, UNCHANGED historyVars
  PROVE  HInv'
<1>1. UNCHANGED <<tree, loads, hist, calm, visits, fails, open, faults>>
  BY DEF historyVars
<1>2. MarkedRight(hist', Quiet', fails' > 0)
  BY <1>1 DEF Quiet, HInv
<1> QED
  BY <1>1, <1>2 DEF HInv

LEMMA Invariance ==
  ASSUME Careless = {}
  PROVE  HistorySpec => []HInv
<1>1. HistoryInit => HInv
  BY InitRight
<1>2. HInv /\ [HistoryNext]_historyVars => HInv'
  BY NextRight, StutterRight
<1> QED
  BY <1>1, <1>2, PTL DEF HistorySpec

-----------------------------------------------------------------------------
(***************************************************************************)
(* What follows from it.                                                   *)
(***************************************************************************)
LEMMA EntriesFollow ==
  ASSUME HInv
  PROVE  Entries
<1>1. /\ tree \in Pane /\ ListRight(hist, calm)
      /\ LoadsRight(loads, tree, hist.used)
      /\ MarkedRight(hist, Quiet, fails > 0)
      /\ calm \in BOOLEAN /\ open \in BOOLEAN
      /\ visits \in 0..MaxVisits /\ fails \in 0..MaxFails /\ faults = {}
  BY DEF HInv
<1>2. hist \in ListOf /\ InUse(hist) /\ Shared(hist)
  BY <1>1 DEF ListRight
<1>3. HistoryTypeOK
  BY <1>1, <1>2 DEF HistoryTypeOK, ListOf, LoadsRight
<1>4. Slots
  <2> SUFFICES ASSUME NEW i \in 0..HistoryLast
               PROVE  IF i < hist.used
                      THEN hist.slot[i] # Absent
                           /\ \E k \in DOMAIN hist.slot[i].tree.frames :
                                hist.slot[i].tree.frames[k] # Absent
                      ELSE hist.slot[i] = Absent
    BY <1>1, <1>2 DEF Slots, InUse
  <2>1. CASE i < hist.used
    <3>1. hist.slot[i] \in Entry /\ HasDoc(hist.slot[i].tree)
      BY <1>2, <2>1 DEF InUse
    <3> QED
      BY <2>1, <3>1, Apart DEF HasDoc
  <2>2. CASE ~(i < hist.used)
    BY <1>2, <2>2 DEF InUse
  <2> QED
    BY <2>1, <2>2
<1>5. Titles
  BY <1>2 DEF Titles, Shared, UsersOf
<1>6. Marks
  BY <1>1 DEF Marks, MarkedRight, Unmarked, MarkedAtMost
<1> QED
  BY <1>3, <1>4, <1>5, <1>6 DEF Entries

LEMMA InHistoryFollows ==
  ASSUME HInv
  PROVE  InHistory
<1> SUFFICES ASSUME calm, Quiet, hist.used > 0
             PROVE  Recorded(tree) = Recorded(hist.slot[hist.menu].tree)
  BY DEF InHistory
<1>1. Agree(tree, hist.slot[hist.menu].tree) /\ tree \in Pane
  BY DEF HInv, Calmly, Quiet
<1>2. hist.slot[hist.menu].tree \in Pane
  BY HistUsed
<1> QED
  BY <1>1, <1>2, AgreeRecorded

\* The entries in use are there with a document, the titles are counted and
\* the marks are where they belong, if the code meets nothing that it does not
\* survive (Careless): History[] is never read outside of its entries and no
\* entry or title is freed twice (hist_append(), history_destroy()).
THEOREM EntriesStay == Careless = {} => (HistorySpec => []Entries)
<1> SUFFICES ASSUME Careless = {} PROVE HistorySpec => []Entries
  OBVIOUS
<1>1. HistorySpec => []HInv
  BY Invariance
<1>2. HInv => Entries
  BY EntriesFollow
<1> QED
  BY <1>1, <1>2, PTL

\* While nobody interrupts a load, what the window shows once nothing is loaded
\* is what the entry says that the menu shows as the current one
\* (history_create(), history_update(), containr_process()).
THEOREM ShownInHistory == Careless = {} => (HistorySpec => []InHistory)
<1> SUFFICES ASSUME Careless = {} PROVE HistorySpec => []InHistory
  OBVIOUS
<1>1. HistorySpec => []HInv
  BY Invariance
<1>2. HInv => InHistory
  BY InHistoryFollows
<1> QED
  BY <1>1, <1>2, PTL

\* Whoever leaves a page for another entry (hwWind_history()) finds it as it
\* was left: its entry has the scroll bars that the containers had.
THEOREM LeftAsShown == Careless = {} => (HistorySpec => Remembers)
<1> SUFFICES ASSUME Careless = {} PROVE HistorySpec => Remembers
  OBVIOUS
<1>1. HistorySpec => []HInv
  BY Invariance
<1>2. HInv /\ [HistoryNext]_historyVars
        => [calm /\ hist'.menu # hist.menu /\ Mark(hist') = "star"
              => hist'.slot[hist.menu].tree.frames = tree.frames]_historyVars
  BY NextRight DEF Keeps
<1> QED
  BY <1>1, <1>2, PTL DEF HistorySpec, Remembers

-----------------------------------------------------------------------------
(***************************************************************************)
(* The list is one of visited pages.                                       *)
(***************************************************************************)
PagesOf(h) == [i \in 1..h.used |-> Recorded(h.slot[i - 1].tree)]

LEMMA PagesIs ==
  ASSUME NEW h, NEW w, ListRight(h, w)
  PROVE  /\ PagesOf(h) \in Seq(Pane) /\ Len(PagesOf(h)) = h.used
         /\ h.used \in Nat /\ h \in ListOf
         /\ \A i \in 1..h.used : PagesOf(h)[i] = Recorded(h.slot[i - 1].tree)
<1>1. h \in ListOf
  BY DEF ListRight
<1>2. h.used \in Nat
  BY <1>1, ListIs
<1>3. \A i \in 1..h.used : Recorded(h.slot[i - 1].tree) \in Pane
  <2> TAKE i \in 1..h.used
  <2>1. i - 1 \in 0..(h.used - 1)
    BY <1>2
  <2>2. h.slot[i - 1].tree \in Pane
    BY <2>1, EntryRight
  <2> QED
    BY <2>2, RecordedIs
<1>4. /\ PagesOf(h) \in [1..h.used -> Pane]
      /\ \A i \in 1..h.used : PagesOf(h)[i] = Recorded(h.slot[i - 1].tree)
  BY <1>3 DEF PagesOf
<1> QED
  BY <1>1, <1>2, <1>4

LEMMA PagesMoved ==
  ASSUME NEW h, NEW g, NEW w, ListRight(h, w), ListRight(g, w),
         NEW n \in Nat, NEW s \in Nat, n <= g.used, SameTrees(h, g, n, s)
  PROVE  \A i \in 1..n : i + s \in 1..h.used /\ PagesOf(g)[i] = PagesOf(h)[i + s]
<1>1. /\ h.used \in Nat /\ g.used \in Nat
      /\ \A i \in 1..h.used : PagesOf(h)[i] = Recorded(h.slot[i - 1].tree)
      /\ \A i \in 1..g.used : PagesOf(g)[i] = Recorded(g.slot[i - 1].tree)
  BY PagesIs
<1> TAKE i \in 1..n
<1>2. i - 1 \in 0..(n - 1) /\ i \in 1..g.used /\ (i - 1) + s = (i + s) - 1
  BY <1>1
<1>3. (i - 1) + s \in 0..(h.used - 1)
      /\ Recorded(g.slot[i - 1].tree) = Recorded(h.slot[(i - 1) + s].tree)
  BY <1>2 DEF SameTrees
<1>4. i + s \in 1..h.used
  BY <1>1, <1>2, <1>3
<1> QED
  BY <1>1, <1>2, <1>3, <1>4

LEMMA PagesKept ==
  ASSUME NEW h, NEW g, NEW w, ListRight(h, w), ListRight(g, w),
         g.used = h.used, SameTrees(h, g, h.used, 0)
  PROVE  PagesOf(g) = PagesOf(h)
<1>1. /\ PagesOf(h) \in Seq(Pane) /\ Len(PagesOf(h)) = h.used /\ h.used \in Nat
      /\ PagesOf(g) \in Seq(Pane) /\ Len(PagesOf(g)) = g.used
  BY PagesIs
<1>2. \A i \in 1..h.used : i + 0 \in 1..h.used /\ PagesOf(g)[i] = PagesOf(h)[i + 0]
  BY <1>1, PagesMoved
<1>3. \A i \in 1..h.used : PagesOf(g)[i] = PagesOf(h)[i]
  BY <1>2
<1> QED
  BY <1>1, <1>3, SeqEqual

\* The pages up to the one that is shown
LEMMA BehindIs ==
  ASSUME NEW h, NEW w, ListRight(h, w)
  PROVE  /\ SubSeq(PagesOf(h), 1, Current(h)) \in Seq(Pane)
         /\ Len(SubSeq(PagesOf(h), 1, Current(h))) = Current(h)
         /\ \A i \in 1..Current(h) :
              SubSeq(PagesOf(h), 1, Current(h))[i] = PagesOf(h)[i]
<1> DEFINE p == PagesOf(h)
           n == Current(h)
           b == SubSeq(p, 1, n)
<1>1. p \in Seq(Pane) /\ Len(p) = h.used /\ h.used \in Nat /\ h \in ListOf
  BY PagesIs
<1>2. n \in Nat /\ n <= h.used
  <2>1. h.used > 0 => h.menu < h.used
    BY DEF ListRight, InUse
  <2>2. h.menu \in Nat
    BY <1>1, ListIs
  <2> QED
    BY <1>1, <2>1, <2>2 DEF Current
<1> HIDE DEF p, n
<1>3. 1 \in Int /\ n \in Int /\ \A i \in 1..n : p[i] \in Pane
  BY <1>1, <1>2
<1>4. /\ b \in Seq(Pane)
      /\ Len(b) = IF 1 <= n THEN n - 1 + 1 ELSE 0
      /\ \A i \in 1..(n - 1 + 1) : b[i] = p[1 + i - 1]
  BY ONLY <1>3, SubSeqProperties
<1> HIDE DEF b
<1>5. Len(b) = n /\ \A i \in 1..n : i \in 1..(n - 1 + 1) /\ 1 + i - 1 = i
  BY <1>2, <1>4
<1> QED
  BY <1>4, <1>5 DEF b, p, n

\* A page comes behind the one that is shown, s pages go from the begin.
LEMMA AddedIs ==
  ASSUME NEW h, NEW g, NEW w, ListRight(h, w), ListRight(g, w),
         g.used = Current(h) - Gone(h) + 1,
         SameTrees(h, g, Current(h) - Gone(h), Gone(h))
  PROVE  /\ PagesOf(g) # <<>>
         /\ Front(PagesOf(g)) =
              IF Len(SubSeq(PagesOf(h), 1, Current(h))) = HistoryLast + 1
              THEN Tail(SubSeq(PagesOf(h), 1, Current(h)))
              ELSE SubSeq(PagesOf(h), 1, Current(h))
<1> DEFINE p == PagesOf(g)
           q == PagesOf(h)
           b == SubSeq(q, 1, Current(h))
           s == Gone(h)
           n == Current(h) - s
           f == Front(p)
<1>1. /\ p \in Seq(Pane) /\ Len(p) = g.used /\ g.used \in Nat
      /\ q \in Seq(Pane) /\ Len(q) = h.used /\ h.used \in Nat /\ h \in ListOf
  BY PagesIs
<1>2. /\ b \in Seq(Pane) /\ Len(b) = Current(h)
      /\ \A i \in 1..Current(h) : b[i] = q[i]
  BY BehindIs
<1>3. /\ Current(h) \in 0..(HistoryLast + 1) /\ s \in {0, 1}
      /\ n \in 0..HistoryLast /\ n \in Nat /\ s \in Nat
      /\ s = 1 <=> Current(h) = HistoryLast + 1
      /\ HistoryLast \in Nat
  <2>1. HistoryLast \in Nat
    BY HistoryAssumption
  <2>2. h.used > 0 => h.menu < h.used
    BY DEF ListRight, InUse
  <2>3. Current(h) \in 0..(HistoryLast + 1) /\ s \in {0, 1} /\ n \in 0..HistoryLast
    BY <1>1, <2>2, OutdatedIs
  <2>4. s = 1 <=> Current(h) = HistoryLast + 1
    BY <2>1, <2>3 DEF Gone
  <2> QED
    BY <2>1, <2>3, <2>4
<1>4. g.used = n + 1 /\ SameTrees(h, g, n, s)
  OBVIOUS
<1>5. Current(h) = n + s
  BY <1>3
<1> HIDE DEF n, s
<1>6. \A i \in 1..n : i + s \in 1..h.used /\ p[i] = q[i + s]
  <2>1. n <= g.used
    BY <1>3, <1>4
  <2> QED
    BY <1>3, <1>4, <2>1, PagesMoved
<1> HIDE DEF p, q, b
<1>7. p # <<>>
  BY <1>1, <1>3, <1>4
<1>8. f \in Seq(Pane) /\ Len(f) = n /\ \A i \in 1..n : f[i] = p[i]
  <2>1. Len(p) - 1 = n
    BY <1>1, <1>3, <1>4
  <2>2. f = SubSeq(p, 1, n)
    BY <2>1 DEF Front
  <2> HIDE DEF f
  <2>3. 1 \in Int /\ n \in Int /\ \A i \in 1..n : p[i] \in Pane
    BY <1>1, <1>3, <2>1
  <2>4. /\ f \in Seq(Pane)
        /\ Len(f) = IF 1 <= n THEN n - 1 + 1 ELSE 0
        /\ \A i \in 1..(n - 1 + 1) : f[i] = p[1 + i - 1]
    BY ONLY <2>2, <2>3, SubSeqProperties
  <2>5. Len(f) = n /\ \A i \in 1..n : i \in 1..(n - 1 + 1) /\ 1 + i - 1 = i
    BY <1>3, <2>4
  <2> QED
    BY <2>4, <2>5
<1> HIDE DEF f
<1>9. CASE s = 0
  <2>1. Len(b) # HistoryLast + 1
    BY <1>2, <1>3, <1>9
  <2>2. Len(f) = Len(b) /\ \A i \in 1..Len(f) : f[i] = b[i]
    BY <1>2, <1>3, <1>5, <1>6, <1>8, <1>9
  <2>3. f = b
    BY <1>2, <1>8, <2>2, SeqEqual
  <2> QED
    BY <1>7, <2>1, <2>3 DEF p, q, b, f
<1>10. CASE s = 1
  <2>1. Len(b) = HistoryLast + 1 /\ b # <<>>
    BY <1>2, <1>3, <1>10
  <2> DEFINE c == Tail(b)
  <2>2. c \in Seq(Pane) /\ Len(c) = Len(b) - 1 /\ \A i \in 1..Len(c) : c[i] = b[i + 1]
    BY <1>2, <2>1, HeadTailProperties
  <2> HIDE DEF c
  <2>3. Len(c) = n /\ \A i \in 1..n : i + 1 \in 1..Current(h)
    BY <1>2, <1>3, <1>5, <1>10, <2>2
  <2>4. Len(f) = Len(c) /\ \A i \in 1..Len(f) : f[i] = c[i]
    BY <1>2, <1>6, <1>8, <1>10, <2>2, <2>3
  <2>5. f = c
    BY <1>8, <2>2, <2>4, SeqEqual
  <2> QED
    BY <1>7, <2>1, <2>5 DEF p, q, b, f, c
<1> QED
  BY <1>3, <1>9, <1>10 DEF s

\* What a step may do to the list is what Browsing allows.
LEMMA MovesIs ==
  ASSUME NEW w, ListRight(hist, w), ListRight(hist', w), Moves(hist, hist')
  PROVE  [Visited!Next]_(Visited!vars)
<1> DEFINE pages == PagesOf(hist)
           at == Current(hist)
           b == SubSeq(pages, 1, at)
           pagesN == PagesOf(hist')
           atN == Current(hist')
<1>1. Visited!vars = <<pages, at>>
  BY DEF Visited!vars, PagesOf, Current
<1>2. Visited!vars' = <<pagesN, atN>>
  BY DEF Visited!vars, PagesOf, Current
<1>3. /\ pages \in Seq(Pane) /\ Len(pages) = hist.used /\ hist.used \in Nat
      /\ pagesN \in Seq(Pane) /\ Len(pagesN) = hist'.used /\ hist'.used \in Nat
      /\ hist \in ListOf /\ hist' \in ListOf
  BY PagesIs
<1>4. /\ hist.menu \in Nat /\ hist'.menu \in Nat
      /\ hist.used > 0 => hist.menu < hist.used
      /\ Current(hist) \in Nat /\ Current(hist) <= hist.used
      /\ Gone(hist) \in {0, 1} /\ Current(hist) - Gone(hist) \in Nat
  <2>1. hist.used > 0 => hist.menu < hist.used
    BY DEF ListRight, InUse
  <2>2. /\ Current(hist) \in 0..(HistoryLast + 1) /\ Gone(hist) \in {0, 1}
        /\ Current(hist) - Gone(hist) \in 0..HistoryLast
        /\ Current(hist) <= hist.used
    BY <1>3, <2>1, OutdatedIs
  <2>3. hist.menu \in Nat /\ hist'.menu \in Nat
    BY <1>3, ListIs
  <2> QED
    BY <2>1, <2>2, <2>3
<1>a. Visited!Behind = b
  BY DEF Visited!Behind, PagesOf, Current
<1>b. Visited!Added <=> /\ pagesN # <<>>
                        /\ Front(pagesN) = IF Len(b) = HistoryLast + 1 THEN Tail(b) ELSE b
  <2> HIDE DEF b
  <2> QED
    BY <1>a DEF Visited!Added, Visited!Front, Front, PagesOf
<1>5. Visited!Visit <=> Visited!Added /\ atN = Len(pagesN)
  BY DEF Visited!Visit, PagesOf, Current
<1>6. Visited!Pass <=> Visited!Added /\ atN \in 1..at
  BY DEF Visited!Pass, PagesOf, Current
<1>7. Visited!Go <=> atN \in DOMAIN pages /\ pagesN = pages
  BY DEF Visited!Go, PagesOf, Current
<1>8. Visited!Forget <=> pagesN = b /\ atN = at
  BY DEF Visited!Forget, Visited!Behind, PagesOf, Current
<1>9. Visited!Close <=> pagesN = <<>> /\ atN = 0
  BY DEF Visited!Close, PagesOf, Current
<1>10. CASE Kept(hist, hist')
  <2>1. pagesN = pages
    BY <1>10, PagesKept DEF Kept
  <2>2. atN = at
    BY <1>10 DEF Kept, Current
  <2> QED
    BY <1>1, <1>2, <2>1, <2>2
<1>11. CASE Appended(hist, hist')
  <2>1. /\ pagesN # <<>>
        /\ Front(pagesN) = IF Len(b) = HistoryLast + 1 THEN Tail(b) ELSE b
    BY <1>11, AddedIs DEF Appended
  <2>2. atN = Len(pagesN)
    <3>1. hist'.used = hist'.menu + 1 /\ hist'.used # 0
      BY <1>4, <1>11 DEF Appended
    <3> QED
      BY <1>3, <3>1 DEF Current
  <2>3. Visited!Visit
    BY <1>b, <1>5, <2>1, <2>2
  <2> QED
    BY <2>3 DEF Visited!Next
<1>12. CASE Forgotten(hist, hist')
  <2>1. /\ hist'.used = Current(hist) /\ hist'.menu = hist.menu
        /\ SameTrees(hist, hist', Current(hist), 0)
    BY <1>12 DEF Forgotten
  <2>2. atN = at
    BY <1>3, <1>4, <2>1 DEF Current
  <2>3. /\ b \in Seq(Pane) /\ Len(b) = at /\ \A i \in 1..at : b[i] = pages[i]
    BY BehindIs
  <2>4. \A i \in 1..at : i + 0 \in 1..hist.used /\ pagesN[i] = pages[i + 0]
    <3>1. Current(hist) <= hist'.used /\ 0 \in Nat /\ Current(hist) \in Nat
      BY <1>4, <2>1
    <3> QED
      BY <2>1, <3>1, PagesMoved
  <2>5. Len(pagesN) = Len(b) /\ \A i \in 1..Len(pagesN) : pagesN[i] = b[i]
    BY <1>3, <1>4, <2>1, <2>3, <2>4
  <2> HIDE DEF b, pagesN
  <2>6. pagesN = b
    BY <1>3, <2>3, <2>5, SeqEqual
  <2>7. Visited!Forget
    BY <1>8, <2>2, <2>6
  <2> QED
    BY <2>7 DEF Visited!Next
<1>13. CASE hist'.used = 0
  <2>1. pagesN = <<>> /\ atN = 0
    BY <1>3, <1>13 DEF Current
  <2> QED
    BY <1>9, <2>1 DEF Visited!Next
<1>14. ASSUME NEW m \in 0..HistoryLast, Turned(hist, hist', m)
       PROVE  Visited!Next
  <2>1. CASE /\ hist'.used = hist.used /\ m \in 0..(hist.used - 1)
             /\ SameTrees(hist, hist', hist.used, 0)
    <3>1. pagesN = pages
      BY <2>1, PagesKept
    <3>2. atN = m + 1 /\ DOMAIN pages = 1..hist.used
      BY <1>3, <1>14, <2>1 DEF Current, Turned
    <3>3. atN \in DOMAIN pages
      BY <1>3, <2>1, <3>2
    <3> QED
      BY <1>7, <3>1, <3>3 DEF Visited!Next
  <2>2. CASE /\ hist.used > 0 /\ Gone(hist) = 0 /\ hist'.used = Current(hist) + 1
             /\ m \in 0..hist.menu /\ SameTrees(hist, hist', Current(hist), 0)
    <3>1. Current(hist) - Gone(hist) = Current(hist)
      BY <1>4, <2>2
    <3>2. /\ pagesN # <<>>
          /\ Front(pagesN) = IF Len(b) = HistoryLast + 1 THEN Tail(b) ELSE b
      BY <2>2, <3>1, AddedIs
    <3>3. atN \in 1..at
      BY <1>3, <1>4, <1>14, <2>2 DEF Current, Turned
    <3> QED
      BY <1>b, <1>6, <3>2, <3>3 DEF Visited!Next
  <2> QED
    BY <1>14, <2>1, <2>2 DEF Turned
<1> QED
  BY <1>10, <1>11, <1>12, <1>13, <1>14 DEF Moves, Told

LEMMA CalmStays ==
  ASSUME [HistoryNext]_historyVars
  PROVE  calm' = calm
BY DEF HistoryNext, User, Loading, Follow, ScrollFrame, Stop, Restore, Close, Open,
       Begin, NoPage, Divide, Done, historyVars

\* The entries are the pages visited, the oldest first: a new one comes behind
\* the one that is shown and takes the place of those that followed, the oldest
\* goes when the list is full, and whoever goes back or forward changes none
\* of them (hist_append(), hwWind_history()).
THEOREM ListOfPages == Careless = {} => (HistorySpec => RefinesBrowsing)
<1> SUFFICES ASSUME Careless = {} PROVE HistorySpec => RefinesBrowsing
  OBVIOUS
<1>1. HistorySpec => []HInv
  BY Invariance
<1>2. HistoryInit => Visited!Init
  <2> SUFFICES ASSUME HistoryInit PROVE Visited!Init
    OBVIOUS
  <2>1. hist.used = 0
    BY DEF HistoryInit, NoHistory
  <2> QED
    BY <2>1 DEF Visited!Init
<1>3. HInv /\ HInv' /\ [HistoryNext]_historyVars => [Visited!Next]_(Visited!vars)
  <2> SUFFICES ASSUME HInv, HInv', [HistoryNext]_historyVars
               PROVE  [Visited!Next]_(Visited!vars)
    OBVIOUS
  <2>1. CASE UNCHANGED historyVars
    BY <2>1 DEF historyVars, Visited!vars
  <2>2. CASE HistoryNext
    <3>1. Moves(hist, hist')
      BY <2>2, NextRight
    <3>2. ListRight(hist, calm) /\ ListRight(hist', calm)
      BY CalmStays DEF HInv
    <3> QED
      BY <3>1, <3>2, MovesIs
  <2> QED
    BY <2>1, <2>2
<1> QED
  BY <1>1, <1>2, <1>3, PTL DEF HistorySpec, RefinesBrowsing, Visited!Spec

-----------------------------------------------------------------------------
(***************************************************************************)
(* The scheduler.                                                          *)
(***************************************************************************)

USE DEF JOB_DONE, JOB_KEEP, JOB_AGED, JOB_NOOP

-----------------------------------------------------------------------------
(***************************************************************************)
(* Type correctness.                                                       *)
(***************************************************************************)

LEMMA PrioSortIn ==
  ASSUME NEW q \in Seq(Job), NEW p \in [Job -> Nat], NEW j \in Job,
         NEW order \in BOOLEAN
  PROVE  /\ SortIn(q, p, j, order) \in Seq(Job)
         /\ SortIn(q, p, j, order) # <<>>
         /\ Len(SortIn(q, p, j, order)) = Len(q) + 1
         /\ ToSet(SortIn(q, p, j, order)) = ToSet(q) \cup {j}
<1>1. p \in [Job -> Int]
  OBVIOUS
<1> QED
  BY <1>1, SortInElements

\* What ClearFrom() finds, if there is anything to find.
LEMMA ClearFromElements ==
  ASSUME NEW q \in Seq(Job), NEW from, NEW hash, Pending(q, from, hash) # {}
  PROVE  LET i == Min(Pending(q, from, hash))
         IN  /\ i \in 1 .. Len(q)
             /\ ClearFrom(q, from, hash).hash = hash
             /\ ClearFrom(q, from, hash).sched = q[i]
             /\ ClearFrom(q, from, hash).next =
                  IF i = Len(q) THEN Nil ELSE q[i + 1]
             /\ hash \in Hash => ClearFrom(q, from, hash) \in ClearCall
<1> DEFINE i == Min(Pending(q, from, hash))
<1>1. Len(q) \in Nat
  BY LenProperties
<1>2. Pending(q, from, hash) \in SUBSET (1 .. Len(q))
  BY LenProperties DEF Pending
<1>3. i \in 1 .. Len(q)
  <2>1. Pending(q, from, hash) \in SUBSET Nat
    BY <1>2
  <2>2. i \in Pending(q, from, hash)
    BY <2>1, MinOfNats
  <2> QED
    BY <1>2, <2>2
<1> HIDE DEF i
<1>4. ClearFrom(q, from, hash) =
        [hash |-> hash, sched |-> q[i],
         next |-> IF i = Len(q) THEN Nil ELSE q[i + 1]]
  BY DEF ClearFrom, i
<1>5. ASSUME NEW k \in 1 .. Len(q)
      PROVE  q[k] \in Job /\ (k # Len(q) => q[k + 1] \in Job)
  <2>1. k # Len(q) => k + 1 \in 1 .. Len(q)
    BY <1>1
  <2>2. \A l \in 1 .. Len(q) : q[l] \in Job
    BY ElementOfSeq
  <2> QED
    BY <2>1, <2>2
<1>6. hash \in Hash => ClearFrom(q, from, hash) \in ClearCall
  BY <1>3, <1>4, <1>5 DEF ClearCall
<1> QED
  BY <1>3, <1>4, <1>6 DEF i

LEMMA TypeInit == Init => TypeOK
<1> SUFFICES ASSUME Init
             PROVE  TypeOK
  OBVIOUS
<1>1. queue \in Seq(Job) /\ clears \in Seq(ClearCall)
  BY EmptySeq DEF Init
<1>2. /\ prio \in [Job -> Nat]
      /\ born \in SUBSET Job
      /\ running \in Job \cup {Nil}
      /\ left \in Nat
      /\ current_prio \in Nat
  BY DEF Init
<1>3. on_off \in BOOLEAN /\ timer \in BOOLEAN /\ pruned \in BOOLEAN
  BY DEF Init
<1> QED
  BY <1>1, <1>2, <1>3 DEF TypeOK

LEMMA TypeStep ==
  ASSUME TypeOK, [Next]_vars
  PROVE  TypeOK'
<1> USE JobAssumption DEF TypeOK
<1>1. CASE SchedInit
  BY <1>1 DEF SchedInit
<1>2. ASSUME NEW j \in Job, NEW p \in PrioArg, SchedInsert(j, p)
      PROVE  TypeOK'
  <2>1. prio' \in [Job -> Nat]
    BY <1>2 DEF SchedInsert
  <2>2. queue' \in Seq(Job)
    BY <1>2, <2>1, PrioSortIn DEF SchedInsert
  <2>3. timer' \in BOOLEAN
    BY <1>2 DEF SchedInsert
  <2> QED
    BY <1>2, <2>1, <2>2, <2>3 DEF SchedInsert
<1>3. ASSUME NEW f \in Func \cup {AnyFunc}, NEW v \in Value, SchedRemove(f, v)
      PROVE  TypeOK'
  <2>1. queue' \in Seq(Job)
    BY <1>3, MoveOutElements DEF SchedRemove
  <2>2. prio' \in [Job -> Nat]
    BY <1>3 DEF SchedRemove
  <2>3. timer' \in BOOLEAN /\ pruned' \in BOOLEAN
    BY <1>3 DEF SchedRemove, TimerAfterRemoval
  <2> QED
    BY <1>3, <2>1, <2>2, <2>3 DEF SchedRemove
<1>4. ASSUME NEW h \in Hash, SchedClear(h)
      PROVE  TypeOK'
  <2>1. ClearFrom(queue, Head(queue), h) \in ClearCall
    BY <1>4, ClearFromElements DEF SchedClear
  <2>2. clears' \in Seq(ClearCall)
    BY <1>4, <2>1, AppendProperties DEF SchedClear
  <2> QED
    BY <1>4, <2>2 DEF SchedClear
<1>5. CASE ClearReturn
  <2> DEFINE top  == Last(clears)
             rest == MoveOut(queue, {top.sched})
  <2>1. clears # <<>> /\ Len(clears) \in Nat \ {0}
    BY <1>5, EmptySeq DEF ClearReturn, InCallback
  <2>2. top \in ClearCall
    BY <2>1, ElementOfSeq DEF Last
  <2>3. rest \in Seq(Job)
    BY MoveOutElements
  <2>4. Front(clears) \in Seq(ClearCall)
    BY <2>1, FrontElements
  <2>5. Pending(rest, top.next, top.hash) # {}
          => ClearFrom(rest, top.next, top.hash) \in ClearCall
    BY <2>2, <2>3, ClearFromElements DEF ClearCall
  <2>6. clears' \in Seq(ClearCall)
    BY <1>5, <2>4, <2>5, AppendProperties DEF ClearReturn
  <2>7. prio' \in [Job -> Nat] /\ timer' \in BOOLEAN /\ pruned' \in BOOLEAN
    BY <1>5 DEF ClearReturn, TimerAfterRemoval
  <2> QED
    BY <1>5, <2>3, <2>6, <2>7 DEF ClearReturn
<1>6. ASSUME NEW m \in MaxDo, Schedule(m)
      PROVE  TypeOK'
  <2>1. queue # <<>> /\ Len(queue) \in Nat
    BY <1>6, LenProperties DEF Schedule
  <2>2. Head(queue) \in Job /\ Tail(queue) \in Seq(Job)
    BY <2>1, HeadTailProperties
  <2>3. left' \in Nat
    BY <1>6, <2>1 DEF Schedule
  <2> QED
    BY <1>6, <2>2, <2>3 DEF Schedule
<1>8. ASSUME NEW r \in Results, ScheduleReturn(r)
      PROVE  TypeOK'
  <2> DEFINE q == IF r = JOB_DONE
                  THEN queue
                  ELSE SortIn(queue, prio', running, r # JOB_NOOP)
  <2>1. running \in Job
    BY <1>8 DEF ScheduleReturn, InJob
  <2>2. prio' \in [Job -> Nat]
    <3>1. prio[running] \in Nat /\ Aged(prio[running]) \in Nat
      BY <2>1 DEF Aged
    <3>2. (CASE r = JOB_DONE               -> 0
             [] r \in {JOB_AGED, JOB_NOOP} -> Aged(prio[running])
             [] r = JOB_KEEP               -> prio[running]) \in Nat
      BY <3>1
    <3> QED
      BY <1>8, <2>1, <3>2 DEF ScheduleReturn
  <2>3. q \in Seq(Job)
    BY <2>1, <2>2, PrioSortIn
  <2>4. \/ /\ left # 1 /\ q # <<>>
           /\ queue' = Tail(q) /\ running' = Head(q)
           /\ left' = IF left = 0 THEN 0 ELSE left - 1
           /\ current_prio' = prio'[Head(q)]
           /\ timer' = timer
        \/ /\ queue' = q /\ running' = Nil /\ left' = 0
           /\ current_prio' = 1
           /\ timer' = TimerAfterRemoval(q)
    BY <1>8 DEF ScheduleReturn
  <2>5. pruned' = FALSE /\ UNCHANGED <<born, clears, on_off>>
    BY <1>8 DEF ScheduleReturn
  <2> HIDE DEF q
  <2>6. q # <<>> => Head(q) \in Job /\ Tail(q) \in Seq(Job)
    BY <2>3, HeadTailProperties
  <2>7. queue' \in Seq(Job) /\ running' \in Job \cup {Nil}
    BY <2>3, <2>4, <2>6
  <2>8. left' \in Nat
    BY <2>4
  <2>9. current_prio' \in Nat
    BY <2>2, <2>4, <2>6
  <2>10. timer' \in BOOLEAN
    BY <2>4 DEF TimerAfterRemoval
  <2> QED
    BY <2>2, <2>5, <2>7, <2>8, <2>9, <2>10
<1>9. CASE UNCHANGED vars
  BY <1>9 DEF vars
<1> QED
  BY <1>1, <1>2, <1>3, <1>4, <1>5, <1>6, <1>8, <1>9 DEF Next

\* The variables of schedule.c and of its nested calls keep their types.
THEOREM TypeCorrect == Spec => []TypeOK
<1>1. Init => TypeOK
  BY TypeInit
<1>2. TypeOK /\ [Next]_vars => TypeOK'
  BY TypeStep
<1> QED
  BY <1>1, <1>2, PTL DEF Spec

-----------------------------------------------------------------------------
(***************************************************************************)
(* No job is linked twice or freed while it is linked.                     *)
(***************************************************************************)

LEMMA LinkedStep ==
  ASSUME TypeOK, LinkedOnce, [Next]_vars
  PROVE  LinkedOnce'
<1> USE DEF TypeOK, LinkedOnce
<1>1. CASE SchedInit
  BY <1>1 DEF SchedInit
<1>2. ASSUME NEW j \in Job, NEW p \in PrioArg, SchedInsert(j, p)
      PROVE  LinkedOnce'
  <2>1. prio' \in [Job -> Nat]
    BY <1>2, TypeStep DEF Next
  <2>2. prio' \in [Job -> Int] /\ j \notin ToSet(queue) /\ j # running
    BY <1>2, <2>1, JobAssumption DEF SchedInsert
  <2>3. queue' = SortIn(queue, prio', j, TRUE)
    BY <1>2 DEF SchedInsert
  <2>4. IsInjective(queue')
    BY <2>2, <2>3, SortInInjective
  <2>5. ToSet(queue') = ToSet(queue) \cup {j}
    BY <2>1, <2>3, PrioSortIn
  <2>6. running' = running /\ born' = born \cup {j}
    BY <1>2 DEF SchedInsert
  <2> QED
    BY <2>2, <2>4, <2>5, <2>6
<1>3. ASSUME NEW f \in Func \cup {AnyFunc}, NEW v \in Value, SchedRemove(f, v)
      PROVE  LinkedOnce'
  <2>1. /\ queue' = MoveOut(queue, Matching(f, v))
        /\ UNCHANGED <<born, running>>
    BY <1>3 DEF SchedRemove
  <2>2. ToSet(queue') = ToSet(queue) \ Matching(f, v)
    BY <2>1, MoveOutElements
  <2>3. IsInjective(queue')
    BY <2>1, MoveOutKeeps
  <2> QED
    BY <2>1, <2>2, <2>3
<1>4. ASSUME NEW h \in Hash, SchedClear(h)
      PROVE  LinkedOnce'
  BY <1>4 DEF SchedClear
<1>5. CASE ClearReturn
  <2>1. /\ queue' = MoveOut(queue, {Last(clears).sched})
        /\ UNCHANGED <<born, running>>
    BY <1>5 DEF ClearReturn
  <2>2. ToSet(queue') = ToSet(queue) \ {Last(clears).sched}
    BY <2>1, MoveOutElements
  <2>3. IsInjective(queue')
    BY <2>1, MoveOutKeeps
  <2> QED
    BY <2>1, <2>2, <2>3
<1>6. ASSUME NEW m \in MaxDo, Schedule(m)
      PROVE  LinkedOnce'
  <2>1. /\ queue # <<>> /\ running' = Head(queue) /\ queue' = Tail(queue)
        /\ born' = born
    BY <1>6 DEF Schedule
  <2> QED
    BY <2>1, HeadAndTail
<1>8. ASSUME NEW r \in Results, ScheduleReturn(r)
      PROVE  LinkedOnce'
  <2> DEFINE q == IF r = JOB_DONE
                  THEN queue
                  ELSE SortIn(queue, prio', running, r # JOB_NOOP)
  <2>1. running \in Job /\ born' = born
    BY <1>8 DEF ScheduleReturn, InJob
  <2>2. prio' \in [Job -> Nat]
    BY <1>8, TypeStep DEF Next
  <2>3. q \in Seq(Job) /\ ToSet(q) \subseteq ToSet(queue) \cup {running}
    BY <2>1, <2>2, PrioSortIn
  <2>4. IsInjective(q)
    <3>1. prio' \in [Job -> Int]
      BY <2>2
    <3> QED
      BY <2>1, <3>1, SortInInjective
  <2>5. \/ q # <<>> /\ queue' = Tail(q) /\ running' = Head(q)
        \/ queue' = q /\ running' = Nil
    BY <1>8 DEF ScheduleReturn
  <2> HIDE DEF q
  <2>6. ToSet(q) \subseteq Job /\ Nil \notin Job
    BY <2>1, <2>3, JobAssumption
  <2>7. ToSet(q) \subseteq born
    BY <2>1, <2>3, JobAssumption
  <2>8. CASE q # <<>> /\ queue' = Tail(q) /\ running' = Head(q)
    <3>1. /\ ToSet(q) = {Head(q)} \cup ToSet(Tail(q))
          /\ IsInjective(Tail(q))
          /\ Head(q) \notin ToSet(Tail(q))
      BY <2>3, <2>4, <2>8, HeadAndTail
    <3> QED
      BY <2>1, <2>7, <2>8, <3>1
  <2>9. CASE queue' = q /\ running' = Nil
    BY <2>1, <2>4, <2>6, <2>7, <2>9
  <2> QED
    BY <2>5, <2>8, <2>9
<1>9. CASE UNCHANGED vars
  BY <1>9 DEF vars
<1> QED
  BY <1>1, <1>2, <1>3, <1>4, <1>5, <1>6, <1>8, <1>9 DEF Next

\* sched_insert(), sched_remove(), sched_clear() and schedule(), nested in
\* each other as jobs and callbacks nest them, never link a node twice, and
\* never leave the running job's node in the list.
THEOREM LinkedOnceHolds == Spec => []LinkedOnce
<1>1. Init => LinkedOnce
  <2> SUFFICES ASSUME Init
               PROVE  LinkedOnce
    OBVIOUS
  <2>1. DOMAIN queue = {}
    BY DEF Init
  <2>2. ToSet(queue) = {}
    BY <2>1 DEF ToSet
  <2> QED
    BY <2>1, <2>2 DEF Init, LinkedOnce, IsInjective
<1>2. TypeOK /\ LinkedOnce /\ [Next]_vars => LinkedOnce'
  BY LinkedStep
<1> QED
  BY <1>1, <1>2, TypeCorrect, PTL DEF Spec

-----------------------------------------------------------------------------
(***************************************************************************)
(* The timer.  TimerArmed is not inductive: while schedule() runs a job    *)
(* the list may be empty and the timer must be set nevertheless, for the   *)
(* job may be sorted in again without a call of the control function.      *)
(***************************************************************************)
TimerInv ==
  /\ TimerArmed
  /\ TimerWhileRunning
  /\ running # Nil => on_off

LEMMA EmptyAfterMoveOut ==
  ASSUME NEW q \in Seq(Job), NEW gone, MoveOut(q, gone) # <<>>
  PROVE  q # <<>>
<1> DEFINE s == MoveOut(q, gone)
<1>1. s \in Seq(Job) /\ ToSet(s) = ToSet(q) \ gone
  BY MoveOutElements
<1> HIDE DEF s
<1>2. s # <<>>
  BY DEF s
<1>3. Head(s) \in ToSet(s)
  BY <1>1, <1>2, HeadAndTail
<1>4. ToSet(q) # {}
  BY <1>1, <1>3
<1>5. DOMAIN q # {}
  BY <1>4 DEF ToSet
<1> QED
  BY <1>5

LEMMA TimerStep ==
  ASSUME TypeOK, TimerInv, [Next]_vars, Obliging
  PROVE  TimerInv'
<1> USE DEF TypeOK, TimerInv, TimerArmed, TimerWhileRunning, InMain, InCallback
<1>1. CASE SchedInit
  BY <1>1 DEF SchedInit
<1>2. ASSUME NEW j \in Job, NEW p \in PrioArg, SchedInsert(j, p)
      PROVE  TimerInv'
  <2>1. prio' \in [Job -> Nat]
    BY <1>2, TypeStep DEF Next
  <2>3. Len(queue') = Len(queue) + 1
    BY <1>2, <2>1, PrioSortIn DEF SchedInsert
  <2>4. queue = <<>> => Len(queue') = 1
    BY <2>3
  <2>6. queue' # <<>>
    <3>1. queue' \in Seq(Job)
      BY <1>2, <2>1, PrioSortIn DEF SchedInsert
    <3>2. Len(queue) \in Nat
      BY LenProperties
    <3>3. Len(queue') # 0
      BY <2>3, <3>2
    <3> QED
      BY <3>1, <3>3, EmptySeq
  <2>5. /\ timer' = (timer \/ (on_off /\ Len(queue') = 1))
        /\ UNCHANGED <<running, on_off, pruned>>
    BY <1>2 DEF SchedInsert
  <2> QED
    BY <2>4, <2>5, <2>6
<1>3. ASSUME NEW f \in Func \cup {AnyFunc}, NEW v \in Value, SchedRemove(f, v)
      PROVE  TimerInv'
  <2>1. /\ queue' = MoveOut(queue, Matching(f, v))
        /\ timer' = TimerAfterRemoval(queue')
        /\ pruned' = (running # Nil)
        /\ UNCHANGED <<running, on_off>>
    BY <1>3 DEF SchedRemove
  <2>2. queue' # <<>> => queue # <<>>
    BY <2>1, EmptyAfterMoveOut
  <2> QED
    BY <2>1, <2>2 DEF TimerAfterRemoval
<1>4. ASSUME NEW h \in Hash, SchedClear(h)
      PROVE  TimerInv'
  BY <1>4 DEF SchedClear
<1>5. CASE ClearReturn
  <2>1. /\ queue' = MoveOut(queue, {Last(clears).sched})
        /\ timer' = TimerAfterRemoval(queue')
        /\ pruned' = (running # Nil)
        /\ UNCHANGED <<running, on_off>>
    BY <1>5 DEF ClearReturn
  <2>2. queue' # <<>> => queue # <<>>
    BY <2>1, EmptyAfterMoveOut
  <2> QED
    BY <2>1, <2>2 DEF TimerAfterRemoval
<1>6. ASSUME NEW m \in MaxDo, Schedule(m)
      PROVE  TimerInv'
  <2>1. queue # <<>> /\ running' = Head(queue) /\ on_off' /\ timer'
    BY <1>6 DEF Schedule
  <2>2. running' # Nil
    BY <2>1, HeadAndTail, JobAssumption
  <2> QED
    BY <2>1, <2>2
<1>8. ASSUME NEW r \in Results, ScheduleReturn(r)
      PROVE  TimerInv'
  <2> DEFINE q == IF r = JOB_DONE
                  THEN queue
                  ELSE SortIn(queue, prio', running, r # JOB_NOOP)
  <2>1. /\ running # Nil
        /\ pruned => r = JOB_DONE
        /\ on_off' = on_off
    BY <1>8 DEF ScheduleReturn, InJob
  <2>2. \/ q # <<>> /\ timer' = timer /\ running' = Head(q)
        \/ /\ queue' = q /\ running' = Nil
           /\ timer' = TimerAfterRemoval(q)
    BY <1>8 DEF ScheduleReturn
  <2>3. q # <<>> => timer
    BY <2>1
  <2>6. q \in Seq(Job)
    <3>1. prio' \in [Job -> Nat]
      BY <1>8, TypeStep DEF Next
    <3>2. running \in Job
      BY <2>1
    <3> QED
      BY <3>1, <3>2, PrioSortIn
  <2> HIDE DEF q
  <2>4. CASE q # <<>> /\ timer' = timer /\ running' = Head(q)
    <3>1. running' # Nil
      BY <2>4, <2>6, HeadAndTail, JobAssumption
    <3> QED
      BY <2>1, <2>3, <2>4, <3>1
  <2>5. CASE queue' = q /\ running' = Nil /\ timer' = TimerAfterRemoval(q)
    BY <2>1, <2>3, <2>5 DEF TimerAfterRemoval
  <2> QED
    BY <2>2, <2>4, <2>5
<1>9. CASE UNCHANGED vars
  BY <1>9 DEF vars
<1> QED
  BY <1>1, <1>2, <1>3, <1>4, <1>5, <1>6, <1>8, <1>9 DEF Next

\* If every job that has unregistered another one returns JOB_DONE, there is
\* no lost wakeup: MU_TIMER is set whenever a job waits, and when the main
\* loop waits for events it is set only then.
THEOREM NoLostWakeup == Obliging /\ Spec => []TimerArmed /\ []TimerWhileRunning
<1>1. Init => TimerInv
  BY DEF Init, TimerInv, TimerArmed, TimerWhileRunning
<1>2. Obliging /\ TypeOK /\ TimerInv /\ [Next]_vars => TimerInv'
  BY TimerStep
<1>3. TimerInv => TimerArmed /\ TimerWhileRunning
  BY DEF TimerInv
<1>4. CASE Obliging
  <2>1. TypeOK /\ TimerInv /\ [Next]_vars => TimerInv'
    BY <1>2, <1>4
  <2> QED
    BY <1>1, <1>3, <2>1, TypeCorrect, PTL DEF Spec
<1> QED
  BY <1>4

-----------------------------------------------------------------------------
(***************************************************************************)
(* Priorities.  A 0 passed to sched_insert() is replaced by the priority   *)
(* of the running job, so that has to be positive as well.                 *)
(***************************************************************************)
PriorityInv ==
  /\ PriorityPositive
  /\ running # Nil => current_prio > 0

LEMMA PriorityStep ==
  ASSUME TypeOK, LinkedOnce, PriorityInv, [Next]_vars
  PROVE  PriorityInv'
<1> USE JobAssumption DEF TypeOK, PriorityInv, PriorityPositive
<1>1. CASE SchedInit
  BY <1>1 DEF SchedInit
<1>2. ASSUME NEW j \in Job, NEW p \in PrioArg, SchedInsert(j, p)
      PROVE  PriorityInv'
  <2>1. /\ prio' \in [Job -> Nat]
        /\ prio' = [prio EXCEPT ![j] = IF p = 0 THEN current_prio ELSE p]
        /\ UNCHANGED <<running, current_prio>>
    BY <1>2, TypeStep DEF Next, SchedInsert
  <2>2. ToSet(queue') = ToSet(queue) \cup {j}
    BY <1>2, <2>1, PrioSortIn DEF SchedInsert
  <2>3. p = 0 => current_prio > 0
    BY <1>2 DEF SchedInsert, InJob
  <2>4. prio'[j] > 0
    BY <2>1, <2>3
  <2>5. j \notin ToSet(queue) \cup ({running} \ {Nil})
    BY <1>2 DEF SchedInsert, LinkedOnce
  <2> QED
    BY <2>1, <2>2, <2>4, <2>5
<1>3. ASSUME NEW f \in Func \cup {AnyFunc}, NEW v \in Value, SchedRemove(f, v)
      PROVE  PriorityInv'
  <2>1. /\ ToSet(queue') = ToSet(queue) \ Matching(f, v)
        /\ prio' = [j \in Job |-> IF j \in Matching(f, v) THEN 0 ELSE prio[j]]
        /\ UNCHANGED <<running, current_prio>>
    BY <1>3, MoveOutElements DEF SchedRemove
  <2>2. running \notin Matching(f, v)
    BY DEF Matching, LinkedOnce
  <2>3. ToSet(queue) \subseteq Job
    BY ElementOfSeq, LenProperties DEF ToSet
  <2> QED
    BY <2>1, <2>2, <2>3
<1>4. ASSUME NEW h \in Hash, SchedClear(h)
      PROVE  PriorityInv'
  BY <1>4 DEF SchedClear
<1>5. CASE ClearReturn
  <2> DEFINE gone == Last(clears).sched
  <2>1. /\ ToSet(queue') = ToSet(queue) \ {gone}
        /\ gone \in ToSet(queue)
        /\ prio' = [prio EXCEPT ![gone] = 0]
        /\ UNCHANGED <<running, current_prio>>
    BY <1>5, MoveOutElements DEF ClearReturn
  <2>2. running # gone
    BY <2>1 DEF LinkedOnce
  <2>3. ToSet(queue) \subseteq Job
    BY ElementOfSeq, LenProperties DEF ToSet
  <2> HIDE DEF gone
  <2> QED
    BY <2>1, <2>2, <2>3
<1>6. ASSUME NEW m \in MaxDo, Schedule(m)
      PROVE  PriorityInv'
  <2>1. /\ queue # <<>> /\ running' = Head(queue) /\ queue' = Tail(queue)
        /\ prio' = prio /\ current_prio' = prio[Head(queue)]
    BY <1>6 DEF Schedule
  <2> QED
    BY <2>1, HeadAndTail
<1>8. ASSUME NEW r \in Results, ScheduleReturn(r)
      PROVE  PriorityInv'
  <2> DEFINE q == IF r = JOB_DONE
                  THEN queue
                  ELSE SortIn(queue, prio', running, r # JOB_NOOP)
  <2>1. running \in Job /\ prio[running] > 0 /\ prio[running] \in Nat
    BY <1>8 DEF ScheduleReturn, InJob
  <2>2. prio' \in [Job -> Nat]
    BY <1>8, TypeStep DEF Next
  <2>3. \A j \in Job : j # running => prio'[j] = prio[j]
    BY <1>8 DEF ScheduleReturn
  <2>4. r # JOB_DONE => prio'[running] > 0
    <3>1. prio'[running] = CASE r = JOB_DONE               -> 0
                             [] r \in {JOB_AGED, JOB_NOOP} -> Aged(prio[running])
                             [] r = JOB_KEEP               -> prio[running]
      BY <1>8, <2>1 DEF ScheduleReturn
    <3> QED
      BY <2>1, <3>1 DEF Aged
  <2>5. /\ q \in Seq(Job)
        /\ r = JOB_DONE  => ToSet(q) = ToSet(queue)
        /\ r # JOB_DONE => ToSet(q) = ToSet(queue) \cup {running}
    BY <2>1, <2>2, PrioSortIn
  <2>6. \/ /\ q # <<>> /\ queue' = Tail(q) /\ running' = Head(q)
           /\ current_prio' = prio'[Head(q)]
        \/ queue' = q /\ running' = Nil
    BY <1>8 DEF ScheduleReturn
  <2> HIDE DEF q
  <2>7. ToSet(q) \subseteq Job
    BY <2>5, ElementOfSeq, LenProperties DEF ToSet
  <2>8. \A j \in ToSet(q) : prio'[j] > 0
    BY <2>3, <2>4, <2>5, <2>7 DEF LinkedOnce
  <2>9. CASE /\ q # <<>> /\ queue' = Tail(q) /\ running' = Head(q)
             /\ current_prio' = prio'[Head(q)]
    BY <2>5, <2>8, <2>9, HeadAndTail
  <2>10. CASE queue' = q /\ running' = Nil
    BY <2>8, <2>10
  <2> QED
    BY <2>6, <2>9, <2>10
<1>9. CASE UNCHANGED vars
  BY <1>9 DEF vars
<1> QED
  BY <1>1, <1>2, <1>3, <1>4, <1>5, <1>6, <1>8, <1>9 DEF Next

\* Whatever jobs return and however often they age, no priority drops below
\* the 1 at which all jobs share the time.
THEOREM PriorityStaysPositive == Spec => []PriorityPositive
<1>1. Init => PriorityInv
  <2> SUFFICES ASSUME Init
               PROVE  PriorityInv
    OBVIOUS
  <2>1. ToSet(queue) = {}
    BY DEF Init, ToSet
  <2> QED
    BY <2>1 DEF Init, PriorityInv, PriorityPositive
<1>2. TypeOK /\ LinkedOnce /\ PriorityInv /\ [Next]_vars => PriorityInv'
  BY PriorityStep
<1>3. PriorityInv => PriorityPositive
  BY DEF PriorityInv
<1> QED
  BY <1>1, <1>2, <1>3, TypeCorrect, LinkedOnceHolds, PTL DEF Spec

-----------------------------------------------------------------------------
(***************************************************************************)
(* The order of the list.                                                  *)
(***************************************************************************)

\* What is in order stays so when only priorities of other jobs change.
LEMMA OrderOfOthers ==
  ASSUME NEW q \in Seq(Job), NEW p, NEW pp, InPrioOrder(q, p),
         \A j \in ToSet(q) : pp[j] = p[j]
  PROVE  InPrioOrder(q, pp)
BY DEF InPrioOrder, ToSet

\* A job sorted in is followed by jobs of a lower priority only.
LEMMA SortedInBehindEquals ==
  ASSUME NEW q \in Seq(Job), NEW p \in [Job -> Nat], NEW j \in Job,
         InPrioOrder(q, p), j \notin ToSet(q),
         NEW i \in DOMAIN SortIn(q, p, j, TRUE),
         NEW k \in DOMAIN SortIn(q, p, j, TRUE),
         SortIn(q, p, j, TRUE)[i] = j, i < k
  PROVE  p[SortIn(q, p, j, TRUE)[k]] < p[j]
<1> DEFINE s == SortIn(q, p, j, TRUE)
<1>1. p \in [Job -> Int]
  OBVIOUS
<1>2. PICK n \in 1 .. Len(q) + 1 :
        /\ s \in Seq(Job)
        /\ Len(s) = Len(q) + 1
        /\ \A m \in 1 .. Len(q) + 1 :
             s[m] = IF m < n THEN q[m] ELSE IF m = n THEN j ELSE q[m - 1]
        /\ q = <<>> \/ p[Last(q)] >= p[j] => n = Len(q) + 1
        /\ ~(q = <<>> \/ p[Last(q)] >= p[j]) /\ TRUE =>
             /\ InPrioOrder(q, p) =>
                  \A m \in 1 .. Len(q) : m >= n => p[q[m]] < p[j]
             /\ n > 1 => p[q[n - 1]] >= p[j]
  BY <1>1, SortInShape
<1>3. i \in DOMAIN s /\ k \in DOMAIN s /\ s[i] = j
  OBVIOUS
<1> HIDE DEF s
<1>4. Len(q) \in Nat
  BY LenProperties
<1>5. i \in 1 .. Len(q) + 1 /\ k \in 1 .. Len(q) + 1
  BY <1>2, <1>3, LenProperties
<1>6. \A m \in 1 .. Len(q) : q[m] # j
  BY LenProperties DEF ToSet
<1>7. i = n
  <2>3. s[i] = IF i < n THEN q[i] ELSE IF i = n THEN j ELSE q[i - 1]
    BY <1>2, <1>5
  <2>1. CASE i < n
    <3>1. i \in 1 .. Len(q)
      BY <1>4, <1>5, <2>1
    <3>2. s[i] = q[i]
      BY <2>1, <2>3
    <3> QED
      BY <1>3, <1>6, <3>1, <3>2
  <2>2. CASE i > n
    <3>1. i - 1 \in 1 .. Len(q)
      BY <1>4, <1>5, <2>2
    <3>2. s[i] = q[i - 1]
      BY <1>5, <2>2, <2>3
    <3> QED
      BY <1>3, <1>6, <3>1, <3>2
  <2> QED
    BY <1>5, <2>1, <2>2
<1>8. k - 1 \in 1 .. Len(q) /\ k - 1 >= n
  BY <1>4, <1>5, <1>7
<1>9. s[k] = q[k - 1]
  BY <1>2, <1>5, <1>7
<1>10. ~(q = <<>> \/ p[Last(q)] >= p[j])
  <2>1. n # Len(q) + 1
    BY <1>4, <1>8
  <2> QED
    BY ONLY <1>2, <2>1
<1> QED
  BY <1>2, <1>8, <1>9, <1>10 DEF s

LEMMA SortedStep ==
  ASSUME TypeOK, LinkedOnce, Sorted, [Next]_vars, JOB_NOOP \notin Results
  PROVE  Sorted'
<1> USE DEF TypeOK
<1> SUFFICES ASSUME InPrioOrder(queue, prio)
             PROVE  InPrioOrder(queue', prio')
  BY DEF Sorted, InPrioOrder
<1>0. prio' \in [Job -> Nat]
  BY TypeStep
<1>1. CASE SchedInit
  BY <1>1 DEF SchedInit
<1>2. ASSUME NEW j \in Job, NEW p \in PrioArg, SchedInsert(j, p)
      PROVE  InPrioOrder(queue', prio')
  <2>1. \A i \in ToSet(queue) : prio'[i] = prio[i]
    <3>1. j \notin ToSet(queue)
      BY <1>2 DEF SchedInsert, LinkedOnce
    <3>2. ToSet(queue) \subseteq Job
      BY ElementOfSeq, LenProperties DEF ToSet
    <3> QED
      BY <1>2, <3>1, <3>2 DEF SchedInsert
  <2>2. InPrioOrder(queue, prio')
    BY <2>1, OrderOfOthers
  <2>3. prio' \in [Job -> Int]
    BY <1>0
  <2> QED
    BY <1>2, <2>2, <2>3, SortInKeepsOrder DEF SchedInsert
<1>3. ASSUME NEW f \in Func \cup {AnyFunc}, NEW v \in Value, SchedRemove(f, v)
      PROVE  InPrioOrder(queue', prio')
  <2>1. /\ queue' = MoveOut(queue, Matching(f, v))
        /\ prio' = [j \in Job |-> IF j \in Matching(f, v) THEN 0 ELSE prio[j]]
    BY <1>3 DEF SchedRemove
  <2>2. /\ queue' \in Seq(Job)
        /\ ToSet(queue') = ToSet(queue) \ Matching(f, v)
        /\ InPrioOrder(queue', prio)
    BY <2>1, MoveOutElements, MoveOutKeeps
  <2>3. ToSet(queue') \subseteq Job
    BY <2>2, ElementOfSeq, LenProperties DEF ToSet
  <2>4. \A i \in ToSet(queue') : prio'[i] = prio[i]
    BY <2>1, <2>2, <2>3
  <2> QED
    BY <2>2, <2>4, OrderOfOthers
<1>4. ASSUME NEW h \in Hash, SchedClear(h)
      PROVE  InPrioOrder(queue', prio')
  BY <1>4 DEF SchedClear
<1>5. CASE ClearReturn
  <2> DEFINE gone == Last(clears).sched
  <2>1. queue' = MoveOut(queue, {gone}) /\ prio' = [prio EXCEPT ![gone] = 0]
    BY <1>5 DEF ClearReturn
  <2>2. /\ queue' \in Seq(Job)
        /\ ToSet(queue') = ToSet(queue) \ {gone}
        /\ InPrioOrder(queue', prio)
    BY <2>1, MoveOutElements, MoveOutKeeps
  <2>3. ToSet(queue') \subseteq Job
    BY <2>2, ElementOfSeq, LenProperties DEF ToSet
  <2> HIDE DEF gone
  <2>4. \A i \in ToSet(queue') : prio'[i] = prio[i]
    BY <2>1, <2>2, <2>3
  <2> QED
    BY <2>2, <2>4, OrderOfOthers
<1>6. ASSUME NEW m \in MaxDo, Schedule(m)
      PROVE  InPrioOrder(queue', prio')
  <2>1. queue # <<>> /\ queue' = Tail(queue) /\ prio' = prio
    BY <1>6 DEF Schedule
  <2> QED
    BY <2>1, HeadAndTail
<1>8. ASSUME NEW r \in Results, ScheduleReturn(r)
      PROVE  InPrioOrder(queue', prio')
  <2> DEFINE q == IF r = JOB_DONE
                  THEN queue
                  ELSE SortIn(queue, prio', running, r # JOB_NOOP)
  <2>1. running \in Job
    BY <1>8 DEF ScheduleReturn, InJob
  <2>2. InPrioOrder(queue, prio')
    <3>1. ToSet(queue) \subseteq Job
      BY ElementOfSeq, LenProperties DEF ToSet
    <3>2. \A i \in ToSet(queue) : prio'[i] = prio[i]
      BY <1>8, <3>1 DEF ScheduleReturn, LinkedOnce
    <3> QED
      BY <3>2, OrderOfOthers
  <2>3. q \in Seq(Job)
    BY <1>0, <2>1, PrioSortIn
  <2>4. InPrioOrder(q, prio')
    <3>1. prio' \in [Job -> Int] /\ (r # JOB_NOOP) = TRUE
      BY <1>0
    <3> QED
      BY <2>1, <2>2, <3>1, SortInKeepsOrder
  <2>5. (q # <<>> /\ queue' = Tail(q)) \/ queue' = q
    BY <1>8 DEF ScheduleReturn
  <2> HIDE DEF q
  <2> QED
    BY <2>3, <2>4, <2>5, HeadAndTail
<1>9. CASE UNCHANGED vars
  BY <1>9 DEF vars
<1> QED
  BY <1>1, <1>2, <1>3, <1>4, <1>5, <1>6, <1>8, <1>9 DEF Next

\* Without JOB_NOOP no job waits behind one of a lower priority.
THEOREM SortedHolds == JOB_NOOP \notin Results /\ Spec => []Sorted
<1>1. Init => Sorted
  BY DEF Init, Sorted
<1>2. CASE JOB_NOOP \notin Results
  <2>1. TypeOK /\ LinkedOnce /\ Sorted /\ [Next]_vars => Sorted'
    BY <1>2, SortedStep
  <2> QED
    BY <1>1, <2>1, TypeCorrect, LinkedOnceHolds, PTL DEF Spec
<1> QED
  BY <1>2

-----------------------------------------------------------------------------
(***************************************************************************)
(* sched_clear() and its callbacks.                                        *)
(***************************************************************************)

\* What a call of sched_clear() has to go through yet: if callbacks make no
\* calls, every job with its hash is the one that is called, or stands in the
\* list at or behind the successor that was read.
Walked(c, q) ==
  \A l \in DOMAIN q : HashOf[q[l]] = c.hash =>
    \/ q[l] = c.sched
    \/ \E k \in 1 .. l : q[k] = c.next /\ q[k] # c.sched

WalkInv ==
  /\ Len(clears) <= 1
  /\ \A i \in DOMAIN clears : Walked(clears[i], queue)

\* The jobs behind one that stays are still behind it when another has gone.
LEMMA MoveOutBehind ==
  ASSUME NEW q \in Seq(Job), IsInjective(q), NEW gone,
         NEW i \in 1 .. Len(q), NEW k \in 1 .. i, q[k] \notin gone,
         NEW l \in DOMAIN MoveOut(q, gone), MoveOut(q, gone)[l] = q[i]
  PROVE  \E m \in 1 .. l : MoveOut(q, gone)[m] = q[k]
<1> DEFINE s == MoveOut(q, gone)
           before == [j \in Job |-> IF \E n \in 1 .. k : q[n] = j THEN 1 ELSE 0]
<1>1. /\ Len(q) \in Nat /\ DOMAIN q = 1 .. Len(q)
      /\ \A n \in 1 .. Len(q) : q[n] \in Job
  BY LenProperties, ElementOfSeq
<1>2. /\ s \in Seq(Job) /\ ToSet(s) = ToSet(q) \ gone
      /\ InPrioOrder(q, before) => InPrioOrder(s, before)
  BY MoveOutElements, MoveOutKeeps
<1>3. Len(s) \in Nat /\ DOMAIN s = 1 .. Len(s)
  BY <1>2, LenProperties
<1>4. \A n \in 1 .. Len(q) : before[q[n]] = IF n <= k THEN 1 ELSE 0
  <2> SUFFICES ASSUME NEW n \in 1 .. Len(q)
               PROVE  (\E r \in 1 .. k : q[r] = q[n]) <=> n <= k
    BY <1>1
  <2>1. \A r \in 1 .. k : r \in 1 .. Len(q)
    BY <1>1
  <2>2. ASSUME NEW r \in 1 .. k, q[r] = q[n]
        PROVE  n <= k
    BY <1>1, <2>1, <2>2 DEF IsInjective
  <2>3. n <= k => n \in 1 .. k
    BY <1>1
  <2> QED
    BY <2>2, <2>3
<1> HIDE DEF before
<1>5. InPrioOrder(q, before)
  BY <1>1, <1>4 DEF InPrioOrder
<1> HIDE DEF s
<1>6. k \in 1 .. Len(q) /\ q[k] \in ToSet(q) \ gone
  BY <1>1 DEF ToSet
<1>7. PICK m \in DOMAIN s : s[m] = q[k]
  BY <1>2, <1>6 DEF ToSet
<1>8. l \in DOMAIN s /\ s[l] = q[i]
  BY DEF s
<1>9. m <= l
  <2>1. CASE i = k
    <3>1. IsInjective(s)
      BY MoveOutKeeps DEF s
    <3>2. m = l
      BY <1>7, <1>8, <2>1, <3>1 DEF IsInjective
    <3> QED
      BY <1>3, <1>8, <3>2
  <2>2. CASE i # k
    <3>1. before[s[m]] = 1 /\ before[s[l]] = 0
      BY <1>1, <1>4, <1>6, <1>7, <1>8, <2>2
    <3>2. ~(l < m)
      BY <1>2, <1>5, <1>7, <1>8, <3>1 DEF InPrioOrder
    <3> QED
      BY <1>3, <1>7, <1>8, <3>2
  <2> QED
    BY <2>1, <2>2
<1>10. m \in 1 .. l
  BY <1>3, <1>7, <1>8, <1>9
<1> QED
  BY <1>7, <1>10 DEF s

\* From one callback to the next nothing is passed over.
LEMMA ClearFromWalks ==
  ASSUME NEW q \in Seq(Job), IsInjective(q), NEW from, NEW hash,
         Pending(q, from, hash) # {},
         \A l \in DOMAIN q : HashOf[q[l]] = hash => \E k \in 1 .. l : q[k] = from
  PROVE  Walked(ClearFrom(q, from, hash), q)
<1> DEFINE i == Min(Pending(q, from, hash))
           c == ClearFrom(q, from, hash)
<1>1. /\ i \in 1 .. Len(q) /\ c.hash = hash
      /\ c.sched = q[i]
      /\ c.next = IF i = Len(q) THEN Nil ELSE q[i + 1]
  BY ClearFromElements
<1>2. Len(q) \in Nat /\ DOMAIN q = 1 .. Len(q)
  BY LenProperties
<1>3. \A l \in Pending(q, from, hash) : i <= l
  <2>1. Pending(q, from, hash) \in SUBSET Nat
    BY <1>2 DEF Pending
  <2> QED
    BY <2>1, MinOfNats
<1> HIDE DEF i, c
<1>4. ASSUME NEW l \in DOMAIN q, HashOf[q[l]] = hash
      PROVE  \/ q[l] = c.sched
             \/ \E k \in 1 .. l : q[k] = c.next /\ q[k] # c.sched
  <2>1. l \in Pending(q, from, hash)
    BY <1>4 DEF Pending
  <2>2. CASE l = i
    BY <1>1, <2>2
  <2>3. CASE l # i
    <3>1. i + 1 \in 1 .. l /\ i # Len(q) /\ i + 1 \in 1 .. Len(q)
      <4>1. i \in 1 .. Len(q) /\ l \in 1 .. Len(q) /\ i <= l /\ l # i
        BY <1>1, <1>2, <1>3, <2>1, <2>3
      <4> DEFINE N == Len(q)
      <4>2. N \in Nat /\ i \in 1 .. N /\ l \in 1 .. N /\ i <= l /\ l # i
        BY <1>2, <4>1
      <4> HIDE DEF N
      <4>3. i + 1 \in 1 .. l /\ i # N /\ i + 1 \in 1 .. N
        BY ONLY <4>2
      <4> QED
        BY <4>3 DEF N
    <3>2. c.next = q[i + 1]
      BY <1>1, <3>1
    <3>3. i + 1 # i
      <4>1. i \in Nat
        BY <1>1
      <4> QED
        BY ONLY <4>1
    <3>4. q[i + 1] # q[i]
      BY <1>1, <1>2, <3>1, <3>3 DEF IsInjective
    <3> QED
      BY <1>1, <3>1, <3>2, <3>4
  <2> QED
    BY <2>2, <2>3
<1>5. Walked(c, q)
  BY <1>1, <1>4 DEF Walked
<1> QED
  BY <1>5 DEF c

\* The callback of a call has returned.
LEMMA WalksOn ==
  ASSUME TypeOK, LinkedOnce, WalkInv, CallbackCalls = {}, ClearReturn
  PROVE  WalkInv' /\ (Len(clears') < Len(clears) =>
           \A j \in ToSet(queue') : HashOf[j] # Last(clears).hash)
<1> DEFINE top  == Last(clears)
           rest == MoveOut(queue, {top.sched})
           c    == ClearFrom(rest, top.next, top.hash)
<1> HIDE DEF rest, c
<1>1. Len(clears) = 1 /\ top = clears[1] /\ 1 \in DOMAIN clears
  <2>1. clears \in Seq(ClearCall) /\ clears # <<>>
    BY DEF TypeOK, ClearReturn, InCallback
  <2>2. Len(clears) \in Nat \ {0} /\ DOMAIN clears = 1 .. Len(clears)
    BY <2>1, EmptySeq, LenProperties
  <2>3. Len(clears) <= 1
    BY DEF WalkInv
  <2>4. Len(clears) = 1
    BY ONLY <2>2, <2>3
  <2>5. DOMAIN clears = 1 .. 1
    BY <2>2, <2>4
  <2> QED
    BY <2>4, <2>5 DEF Last
<1>2. Front(clears) = <<>>
  <2>1. clears # <<>>
    BY DEF ClearReturn, InCallback
  <2>3. clears \in Seq(ClearCall) /\ Len(clears) = 1
    BY <1>1 DEF TypeOK
  <2>2. Front(clears) \in Seq(ClearCall) /\ Len(Front(clears)) = 0
    BY ONLY <2>1, <2>3, FrontElements
  <2> QED
    BY <2>2, EmptySeq
<1>3. /\ queue' = rest
      /\ clears' = IF Pending(rest, top.next, top.hash) = {} THEN <<>>
                   ELSE <<c>>
  <2>1. /\ queue' = rest
        /\ clears' = IF Pending(rest, top.next, top.hash) = {} THEN Front(clears)
                     ELSE Append(Front(clears), c)
    BY DEF ClearReturn, rest, c
  <2>2. Append(<<>>, c) = <<c>>
    OBVIOUS
  <2> HIDE DEF top
  <2> QED
    BY <1>2, <2>1, <2>2
<1>4. rest \in Seq(Job) /\ IsInjective(rest) /\ ToSet(rest) = ToSet(queue) \ {top.sched}
  BY MoveOutElements, MoveOutKeeps DEF LinkedOnce, TypeOK, rest
<1>5. Walked(top, queue)
  BY <1>1 DEF WalkInv
<1>6. ASSUME NEW l \in DOMAIN rest, HashOf[rest[l]] = top.hash
      PROVE  \E k \in 1 .. l : rest[k] = top.next
  <2>0. queue \in Seq(Job) /\ IsInjective(queue)
    BY DEF TypeOK, LinkedOnce
  <2>1. rest[l] \in ToSet(rest)
    BY DEF ToSet
  <2>2. PICK i \in DOMAIN queue : queue[i] = rest[l]
    BY <1>4, <2>1 DEF ToSet
  <2>3. rest[l] # top.sched
    BY <1>4, <2>1
  <2>4. PICK k \in 1 .. i : queue[k] = top.next /\ queue[k] # top.sched
    BY <1>5, <1>6, <2>2, <2>3 DEF Walked
  <2>5. i \in 1 .. Len(queue) /\ queue[k] \notin {top.sched}
    BY <2>0, <2>2, <2>4, LenProperties
  <2> HIDE DEF top
  <2>6. \E m \in 1 .. l : rest[m] = queue[k]
    BY <2>0, <2>2, <2>5, MoveOutBehind DEF rest
  <2> QED
    BY <2>4, <2>6
<1> HIDE DEF top
<1>7. CASE Pending(rest, top.next, top.hash) = {}
  <2>1. \A l \in DOMAIN rest : HashOf[rest[l]] # top.hash
    BY <1>6, <1>7 DEF Pending
  <2>2. \A j \in ToSet(rest) : HashOf[j] # top.hash
    BY <2>1 DEF ToSet
  <2>3. clears' = <<>>
    BY <1>3, <1>7
  <2> QED
    BY <1>3, <2>2, <2>3 DEF WalkInv, top
<1>8. CASE Pending(rest, top.next, top.hash) # {}
  <2>1. Walked(c, rest)
    BY <1>4, <1>6, <1>8, ClearFromWalks DEF c
  <2>2. clears' = <<c>> /\ queue' = rest
    BY <1>3, <1>8
  <2>3. Len(clears') = 1 /\ DOMAIN clears' = {1} /\ clears'[1] = c
    BY <2>2
  <2> QED
    BY <1>1, <2>1, <2>2, <2>3 DEF WalkInv
<1> QED
  BY <1>7, <1>8

LEMMA WalkStep ==
  ASSUME TypeOK, LinkedOnce, WalkInv, [Next]_vars, CallbackCalls = {}
  PROVE  /\ WalkInv'
         /\ Len(clears') < Len(clears) =>
              \A j \in ToSet(queue') : HashOf[j] # Last(clears).hash
<1>0. Len(clears) \in Nat
  BY LenProperties DEF TypeOK
<1>1. ASSUME clears = <<>>, clears' = clears
      PROVE  WalkInv' /\ ~(Len(clears') < Len(clears))
  BY <1>1, <1>0 DEF WalkInv
<1>2. ASSUME NEW j \in Job, NEW p \in PrioArg, SchedInsert(j, p)
      PROVE  clears = <<>> /\ clears' = clears
  BY <1>2 DEF SchedInsert, May, InCallback
<1>3. ASSUME NEW f \in Func \cup {AnyFunc}, NEW v \in Value, SchedRemove(f, v)
      PROVE  clears = <<>> /\ clears' = clears
  BY <1>3 DEF SchedRemove, May, InCallback
<1>4. ASSUME NEW h \in Hash, SchedClear(h)
      PROVE  WalkInv' /\ ~(Len(clears') < Len(clears))
  <2> DEFINE c == ClearFrom(queue, Head(queue), h)
  <2>1. clears = <<>>
    BY <1>4 DEF SchedClear, May, InCallback
  <2>2. clears' = Append(clears, c) /\ queue' = queue /\ queue # <<>>
    BY <1>4 DEF SchedClear
  <2>3. \A l \in DOMAIN queue : 1 \in 1 .. l /\ queue[1] = Head(queue)
    BY <2>2, LenProperties DEF TypeOK
  <2>4. Walked(c, queue)
    BY <1>4, <2>3, ClearFromWalks DEF SchedClear, LinkedOnce, TypeOK
  <2> HIDE DEF c
  <2>5. clears' = <<c>>
    BY <2>1, <2>2
  <2> QED
    BY <2>1, <2>2, <2>4, <2>5 DEF WalkInv
<1>5. CASE ClearReturn
  BY <1>5, WalksOn
<1>6. CASE \/ SchedInit \/ \E m \in MaxDo : Schedule(m)
           \/ \E r \in Results : ScheduleReturn(r)
  <2>1. clears = <<>> /\ clears' = clears
    BY <1>6 DEF SchedInit, Schedule, ScheduleReturn, InJob, InMain, InCallback
  <2> QED
    BY <1>1, <2>1
<1>7. CASE UNCHANGED vars
  BY <1>0, <1>7 DEF vars, WalkInv
<1> QED
  BY <1>1, <1>2, <1>3, <1>4, <1>5, <1>6, <1>7 DEF Next

\* sched_clear() leaves no job with its hash, however many there are, side by
\* side or not: what it has read before a callback still leads it to the rest
\* after the node was moved out.
THEOREM ClearLeavesNoneHolds ==
  CallbackCalls = {} /\ Spec => ClearLeavesNone
<1> DEFINE Clean == Len(clears') < Len(clears)
                      => \A j \in ToSet(queue') : HashOf[j] # Last(clears).hash
<1>1. Init => WalkInv
  BY DEF Init, WalkInv
<1>2. CASE CallbackCalls = {}
  <2>1. TypeOK /\ LinkedOnce /\ WalkInv /\ [Next]_vars => WalkInv' /\ Clean
    BY <1>2, WalkStep
  <2>2. TypeOK /\ LinkedOnce /\ WalkInv /\ [Next]_vars => WalkInv' /\ [Clean]_vars
    BY <2>1
  <2> QED
    BY <1>1, <2>2, TypeCorrect, LinkedOnceHolds, PTL DEF Spec, ClearLeavesNone
<1> QED
  BY <1>2

-----------------------------------------------------------------------------
(***************************************************************************)
(* The time slices.                                                        *)
(***************************************************************************)

LEMMA RoundRobinStep ==
  ASSUME TypeOK, LinkedOnce, Sorted, Next, JOB_NOOP \notin Results,
         NEW j \in Job, running = j, j \in ToSet(queue'),
         NEW i \in DOMAIN queue', NEW k \in DOMAIN queue',
         queue'[i] = j, k > i
  PROVE  prio'[queue'[k]] < prio'[j]
<1> USE DEF TypeOK
<1>1. j \notin ToSet(queue) /\ j \in born /\ j # Nil
  BY JobAssumption DEF LinkedOnce
<1>2. \E r \in Results : ScheduleReturn(r)
  <2>1. ASSUME NEW jj \in Job, NEW p \in PrioArg, SchedInsert(jj, p)
        PROVE  FALSE
    <3>1. prio' \in [Job -> Nat]
      BY TypeStep
    <3>2. ToSet(queue') = ToSet(queue) \cup {jj}
      BY <2>1, <3>1, PrioSortIn DEF SchedInsert
    <3> QED
      BY <1>1, <2>1, <3>2 DEF SchedInsert
  <2>2. ASSUME NEW f \in Func \cup {AnyFunc}, NEW v \in Value, SchedRemove(f, v)
        PROVE  FALSE
    <3>1. ToSet(queue') = ToSet(queue) \ Matching(f, v)
      BY <2>2, MoveOutElements DEF SchedRemove
    <3> QED
      BY <1>1, <3>1
  <2>3. CASE ClearReturn
    <3>1. ToSet(queue') = ToSet(queue) \ {Last(clears).sched}
      BY <2>3, MoveOutElements DEF ClearReturn
    <3> QED
      BY <1>1, <3>1
  <2>4. ASSUME NEW h \in Hash, SchedClear(h)
        PROVE  FALSE
    BY <1>1, <2>4 DEF SchedClear
  <2>5. CASE SchedInit \/ \E m \in MaxDo : Schedule(m)
    BY <1>1, <2>5 DEF SchedInit, Schedule, InMain
  <2> QED
    BY <2>1, <2>2, <2>3, <2>4, <2>5 DEF Next
<1>3. PICK r \in Results : ScheduleReturn(r)
  BY <1>2
<1> DEFINE q == SortIn(queue, prio', j, TRUE)
<1>4. prio' \in [Job -> Nat]
  BY TypeStep
<1>5. InPrioOrder(queue, prio')
  <2>1. ToSet(queue) \subseteq Job
    BY ElementOfSeq, LenProperties DEF ToSet
  <2>2. \A l \in ToSet(queue) : prio'[l] = prio[l]
    BY <1>1, <1>3, <2>1 DEF ScheduleReturn
  <2>3. InPrioOrder(queue, prio)
    BY DEF Sorted, InPrioOrder
  <2> QED
    BY <2>2, <2>3, OrderOfOthers
<1>6. q \in Seq(Job) /\ q # <<>>
  BY <1>4, PrioSortIn
<1>7. ASSUME NEW a \in DOMAIN q, NEW b \in DOMAIN q, q[a] = j, a < b
      PROVE  prio'[q[b]] < prio'[j]
  BY <1>1, <1>4, <1>5, <1>7, SortedInBehindEquals
<1>8. queue' = Tail(q) \/ queue' = q
  <2>1. CASE r = JOB_DONE
    <3>1. (queue # <<>> /\ queue' = Tail(queue)) \/ queue' = queue
      BY <1>3, <2>1 DEF ScheduleReturn
    <3>3. queue # <<>> => ToSet(Tail(queue)) \subseteq ToSet(queue)
      BY HeadAndTail
    <3>2. ToSet(queue') \subseteq ToSet(queue)
      BY <3>1, <3>3
    <3> QED
      BY <1>1, <3>2
  <2>2. CASE r # JOB_DONE
    <3>1. (r # JOB_NOOP) = TRUE
      OBVIOUS
    <3> QED
      BY <1>3, <2>2, <3>1 DEF ScheduleReturn
  <2> QED
    BY <2>1, <2>2
<1> HIDE DEF q
<1>9. CASE queue' = q
  <2>1. i \in 1 .. Len(q) /\ k \in 1 .. Len(q)
    BY <1>6, <1>9, LenProperties
  <2>2. i < k
    BY <2>1
  <2> QED
    BY <1>7, <1>9, <2>2
<1>10. CASE queue' = Tail(q)
  <2>1. /\ Tail(q) \in Seq(Job)
        /\ Len(Tail(q)) = Len(q) - 1
        /\ \A l \in 1 .. Len(Tail(q)) : Tail(q)[l] = q[l + 1]
    BY <1>6, HeadTailProperties
  <2>2. i \in 1 .. Len(Tail(q)) /\ k \in 1 .. Len(Tail(q))
    BY <1>10, <2>1, LenProperties
  <2>3. Len(q) \in Nat
    BY <1>6, LenProperties
  <2>4. i + 1 \in 1 .. Len(q) /\ k + 1 \in 1 .. Len(q) /\ i + 1 < k + 1
    BY <2>1, <2>2, <2>3, SMTT(20)
  <2>5. q[i + 1] = j /\ q[k + 1] = queue'[k]
    BY <1>10, <2>1, <2>2
  <2>6. i + 1 \in DOMAIN q /\ k + 1 \in DOMAIN q
    BY <1>6, <2>4, LenProperties
  <2> QED
    BY <1>7, <2>4, <2>5, <2>6
<1> QED
  BY <1>8, <1>9, <1>10

\* Without JOB_NOOP a job that comes back waits behind all the jobs that
\* have its priority, the aged one included: the time is shared round robin.
THEOREM RoundRobinHolds == JOB_NOOP \notin Results /\ Spec => RoundRobin
<1> DEFINE Turn == \A j \in Job :
                     /\ running = j
                     /\ j \in ToSet(queue')
                     => \A i, k \in DOMAIN queue' :
                          queue'[i] = j /\ k > i
                            => prio'[queue'[k]] < prio'[j]
<1>1. CASE JOB_NOOP \notin Results
  <2>1. TypeOK /\ LinkedOnce /\ Sorted /\ [Next]_vars => [Turn]_vars
    BY <1>1, RoundRobinStep
  <2>2. Spec => []Sorted
    BY <1>1, SortedHolds
  <2> QED
    BY <2>1, <2>2, TypeCorrect, LinkedOnceHolds, PTL DEF Spec, RoundRobin
<1> QED
  BY <1>1

=============================================================================
