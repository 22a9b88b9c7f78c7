-------------------------- MODULE DownloadTheorems --------------------------
(***************************************************************************)
(* The slots of the download manager, for any number of slots and of       *)
(* downloads.                                                              *)
(*                                                                         *)
(* Slots move, their records do not change when they do: the invariant is  *)
(* stated of the set of the records in use, and what moves and removes     *)
(* slots is described by what it does to that set.                         *)
(***************************************************************************)
EXTENDS Download, BasicTheorems

-----------------------------------------------------------------------------
(***************************************************************************)
(* A table of slots that slot_find(), slot_remove() and slot_byArg() can   *)
(* work with: the strings are a permutation, the slots in use come first.  *)
(***************************************************************************)
Packed(tab) ==
  /\ tab \in [Place -> Slots]
  /\ \A p \in Place : tab[p].used \/ tab[p] = Hidden(tab[p])
  /\ \A p, q \in Place : tab[p].used /\ q < p => tab[q].used
  /\ \A p, q \in Place : tab[p].arg = tab[q].arg => p = q
  /\ \A a \in Arg : \E p \in Place : tab[p].arg = a

\* The records that are in use.
Held(tab) == {tab[p] : p \in Used(tab)}

LEMMA HiddenSlot ==
  ASSUME NEW s \in Slots, NEW a \in Arg
  PROVE  LET h == Hidden([s EXCEPT !.arg = a])
         IN  /\ h \in Slots
             /\ h.arg = a
             /\ ~h.used
             /\ h = Hidden(h)
BY DEF Slots, Hidden, Idle, Text

LEMMA HeldSlots ==
  ASSUME NEW tab, Packed(tab)
  PROVE  /\ Held(tab) \subseteq Slots
         /\ \A s \in Held(tab) : s.used
         /\ \A s \in Held(tab) : \E p \in Place : tab[p].used /\ tab[p] = s
         /\ \A p \in Place : tab[p].used => tab[p] \in Held(tab)
         /\ \A s, t \in Held(tab) : s.arg = t.arg => s = t
BY DEF Packed, Held, Used

-----------------------------------------------------------------------------
(***************************************************************************)
(* Removing a slot.                                                        *)
(***************************************************************************)

\* The slot that is removed leaves its place to the next, the last one in use
\* is the one that gets free.
LEMMA RemovedShape ==
  ASSUME NEW tab, Packed(tab), NEW p \in Place, tab[p].used
  PROVE  \E n \in p .. NSlots :
           /\ \A q \in Place : tab[q].used <=> q <= n
           /\ Removed(tab, p) =
                [q \in Place |->
                   IF q < p \/ q > n THEN tab[q]
                   ELSE IF q < n THEN tab[q + 1]
                   ELSE Hidden([tab[q] EXCEPT !.arg = tab[p].arg])]
<1> USE SlotsAssumption DEF Place
<1> DEFINE IsLast(q) == /\ \A r \in p + 1 .. q : tab[r].used
                        /\ q < NSlots => ~tab[q + 1].used
           Ends == {q \in p .. NSlots : ~(q < NSlots /\ tab[q + 1].used)}
<1>1. NSlots \in Ends /\ Ends \in SUBSET Nat
  OBVIOUS
<1> HIDE DEF Ends
<1>2. PICK n \in Ends : \A k \in Ends : n <= k
  BY <1>1, LeastNat
<1> USE DEF Ends
<1>3. n \in p .. NSlots /\ (n < NSlots => ~tab[n + 1].used)
  BY <1>2
<1>4. tab[n].used
  <2>1. CASE n = p
    BY <2>1
  <2>2. CASE n # p
    <3>1. n - 1 \in p .. NSlots /\ n - 1 \notin Ends
      BY <1>2, <1>3, <2>2
    <3> QED
      BY <3>1
  <2> QED
    BY <2>1, <2>2
<1> HIDE DEF Ends
<1>5. \A q \in Place : tab[q].used <=> q <= n
  <2> SUFFICES ASSUME NEW q \in Place
               PROVE  tab[q].used <=> q <= n
    OBVIOUS
  <2>1. q <= n => tab[q].used
    BY <1>3, <1>4 DEF Packed
  <2>2. q > n /\ tab[q].used => FALSE
    <3>1. SUFFICES ASSUME q > n, tab[q].used
                   PROVE  FALSE
      OBVIOUS
    <3>2. n + 1 \in Place /\ ~tab[n + 1].used
      BY <1>3, <3>1
    <3>3. CASE q = n + 1
      BY <3>1, <3>2, <3>3
    <3>4. CASE n + 1 < q
      BY <3>1, <3>2, <3>4 DEF Packed
    <3> QED
      BY <1>3, <3>1, <3>3, <3>4
  <2> QED
    BY <1>3, <2>1, <2>2
<1>6. IsLast(n)
  BY <1>3, <1>5
<1>7. \A q \in p .. NSlots : IsLast(q) => q = n
  <2> SUFFICES ASSUME NEW q \in p .. NSlots, IsLast(q)
               PROVE  q = n
    OBVIOUS
  <2>1. tab[q].used
    BY DEF Place
  <2>2. q <= n
    BY <1>5, <2>1
  <2>3. CASE q < n
    <3>1. q + 1 \in Place /\ q < NSlots /\ q + 1 <= n
      BY <1>3, <2>3
    <3> QED
      BY <1>5, <3>1
  <2> QED
    BY <1>3, <2>2, <2>3
<1>8. n = CHOOSE q \in p .. NSlots : IsLast(q)
  BY <1>3, <1>6, <1>7
<1>9. Removed(tab, p) =
        LET last == CHOOSE q \in p .. NSlots : IsLast(q)
        IN  [q \in Place |->
               CASE q < p \/ q > last -> tab[q]
                 [] q \in p .. last - 1 -> tab[q + 1]
                 [] q = last -> Hidden([tab[q] EXCEPT !.arg = tab[p].arg])]
  BY DEF Removed
<1> HIDE DEF IsLast
<1>10. Removed(tab, p) =
          [q \in Place |->
             CASE q < p \/ q > n -> tab[q]
               [] q \in p .. n - 1 -> tab[q + 1]
               [] q = n -> Hidden([tab[q] EXCEPT !.arg = tab[p].arg])]
  BY <1>8, <1>9
<1>11. \A q \in Place :
          (CASE q < p \/ q > n -> tab[q]
             [] q \in p .. n - 1 -> tab[q + 1]
             [] q = n -> Hidden([tab[q] EXCEPT !.arg = tab[p].arg]))
          = IF q < p \/ q > n THEN tab[q]
            ELSE IF q < n THEN tab[q + 1]
            ELSE Hidden([tab[q] EXCEPT !.arg = tab[p].arg])
  BY <1>3
<1> QED
  BY <1>3, <1>5, <1>10, <1>11

\* What is left in use is the rest, wherever it has moved to, and the table is
\* still a packed one.
LEMMA RemovedPacked ==
  ASSUME NEW tab, Packed(tab), NEW p \in Place, tab[p].used
  PROVE  Packed(Removed(tab, p))
<1>0. PICK n \in p .. NSlots :
        /\ \A q \in Place : tab[q].used <=> q <= n
        /\ Removed(tab, p) =
             [q \in Place |->
                IF q < p \/ q > n THEN tab[q]
                ELSE IF q < n THEN tab[q + 1]
                ELSE Hidden([tab[q] EXCEPT !.arg = tab[p].arg])]
  BY RemovedShape
<1> USE SlotsAssumption DEF Place
<1> DEFINE new == Removed(tab, p)
<1>1. /\ \A q \in Place : tab[q].used <=> q <= n
      /\ new = [q \in Place |->
                  IF q < p \/ q > n THEN tab[q]
                  ELSE IF q < n THEN tab[q + 1]
                  ELSE Hidden([tab[q] EXCEPT !.arg = tab[p].arg])]
  BY <1>0
<1> HIDE DEF new
<1> DEFINE h == Hidden([tab[n] EXCEPT !.arg = tab[p].arg])
<1>2. n \in Place /\ tab[n] \in Slots /\ tab[p].arg \in Arg
  BY DEF Packed, Slots
<1>3. h \in Slots /\ h.arg = tab[p].arg /\ ~h.used /\ h = Hidden(h)
  BY <1>2, HiddenSlot
<1> HIDE DEF h
<1>4. \A q \in Place :
         /\ q < p \/ q > n => new[q] = tab[q]
         /\ q >= p /\ q < n => new[q] = tab[q + 1] /\ q + 1 \in Place
         /\ q = n => new[q] = h
  BY <1>1 DEF h
<1>5. DOMAIN new = Place /\ new = [q \in Place |-> new[q]]
  BY <1>1
<1>6. \A q \in Place : new[q] \in Slots
  BY <1>2, <1>3, <1>4 DEF Packed
<1>7. new \in [Place -> Slots]
  BY <1>5, <1>6
<1>8. \A q \in Place : new[q].used \/ new[q] = Hidden(new[q])
  <2> SUFFICES ASSUME NEW q \in Place
               PROVE  new[q].used \/ new[q] = Hidden(new[q])
    OBVIOUS
  <2>1. CASE q < p \/ q > n
    BY <1>4, <2>1 DEF Packed
  <2>2. CASE q >= p /\ q < n
    BY <1>4, <2>2 DEF Packed
  <2>3. CASE q = n
    BY <1>3, <1>4, <2>3
  <2> QED
    BY <2>1, <2>2, <2>3
<1>9. \A q \in Place : new[q].used <=> q < n
  <2> SUFFICES ASSUME NEW q \in Place
               PROVE  new[q].used <=> q < n
    OBVIOUS
  <2>1. CASE q < p \/ q > n
    BY <1>1, <1>4, <2>1
  <2>2. CASE q >= p /\ q < n
    BY <1>1, <1>4, <2>2
  <2>3. CASE q = n
    BY <1>3, <1>4, <2>3
  <2> QED
    BY <2>1, <2>2, <2>3
<1>10. \A q, r \in Place : new[q].arg = new[r].arg => q = r
  <2> DEFINE from(q) == IF q < p \/ q > n THEN q ELSE IF q < n THEN q + 1 ELSE p
  <2>1. \A q \in Place : from(q) \in Place /\ new[q].arg = tab[from(q)].arg
    BY <1>2, <1>3, <1>4
  <2>2. \A q, r \in Place : from(q) = from(r) => q = r
    BY <1>2
  <2> HIDE DEF from
  <2> SUFFICES ASSUME NEW q \in Place, NEW r \in Place, new[q].arg = new[r].arg
               PROVE  q = r
    OBVIOUS
  <2>3. from(q) \in Place /\ from(r) \in Place /\ tab[from(q)].arg = tab[from(r)].arg
    BY <2>1
  <2>4. from(q) = from(r)
    BY <2>3 DEF Packed
  <2> QED
    BY <2>2, <2>4
<1>11. \A a \in Arg : \E q \in Place : new[q].arg = a
  <2> SUFFICES ASSUME NEW a \in Arg
               PROVE  \E q \in Place : new[q].arg = a
    OBVIOUS
  <2>1. PICK r \in Place : tab[r].arg = a
    BY DEF Packed
  <2>2. CASE r < p \/ r > n
    BY <1>4, <2>1, <2>2
  <2>3. CASE r = p
    BY <1>2, <1>3, <1>4, <2>1, <2>3
  <2>4. CASE r > p /\ r <= n
    <3>1. r - 1 \in Place /\ r - 1 >= p /\ r - 1 < n
      BY <1>2, <2>4
    <3>2. new[r - 1] = tab[(r - 1) + 1]
      BY <1>4, <3>1
    <3>3. (r - 1) + 1 = r
      OBVIOUS
    <3> QED
      BY <2>1, <3>1, <3>2, <3>3
  <2> QED
    BY <1>2, <2>2, <2>3, <2>4
<1> QED
  BY <1>7, <1>8, <1>9, <1>10, <1>11 DEF Packed, new

LEMMA RemovedPlaces ==
  ASSUME NEW tab, Packed(tab), NEW p \in Place, tab[p].used
  PROVE  /\ Held(Removed(tab, p)) = Held(tab) \ {tab[p]}
         /\ \A q \in Place : q < p => Removed(tab, p)[q] = tab[q]
         /\ \A q \in Place : Removed(tab, p)[q].used
                               => q < NSlots /\ tab[q + 1].used
<1>0. PICK n \in p .. NSlots :
        /\ \A q \in Place : tab[q].used <=> q <= n
        /\ Removed(tab, p) =
             [q \in Place |->
                IF q < p \/ q > n THEN tab[q]
                ELSE IF q < n THEN tab[q + 1]
                ELSE Hidden([tab[q] EXCEPT !.arg = tab[p].arg])]
  BY RemovedShape
<1> USE SlotsAssumption DEF Place
<1> DEFINE new == Removed(tab, p)
<1>1. /\ \A q \in Place : tab[q].used <=> q <= n
      /\ new = [q \in Place |->
                  IF q < p \/ q > n THEN tab[q]
                  ELSE IF q < n THEN tab[q + 1]
                  ELSE Hidden([tab[q] EXCEPT !.arg = tab[p].arg])]
  BY <1>0
<1> HIDE DEF new
<1> DEFINE h == Hidden([tab[n] EXCEPT !.arg = tab[p].arg])
<1>2. n \in Place /\ tab[n] \in Slots /\ tab[p].arg \in Arg
  BY DEF Packed, Slots
<1>3. ~h.used
  BY <1>2, HiddenSlot
<1> HIDE DEF h
<1>4. \A q \in Place :
         /\ q < p \/ q > n => new[q] = tab[q]
         /\ q >= p /\ q < n => new[q] = tab[q + 1] /\ q + 1 \in Place
         /\ q = n => new[q] = h
  BY <1>1 DEF h
<1>5. \A q \in Place : new[q].used => q < n
  <2> SUFFICES ASSUME NEW q \in Place, new[q].used
               PROVE  q < n
    OBVIOUS
  <2>1. CASE q < p \/ q > n
    BY <1>1, <1>4, <2>1
  <2>2. CASE q = n
    BY <1>3, <1>4, <2>2
  <2> QED
    BY <1>2, <2>1, <2>2
<1>6. ASSUME NEW s \in Held(tab), s # tab[p]
      PROVE  s \in Held(new)
  <2>1. PICK r \in Place : tab[r].used /\ tab[r] = s
    BY <1>6 DEF Held, Used
  <2>2. CASE r < p
    BY <1>4, <2>1, <2>2 DEF Held, Used
  <2>3. CASE r > p
    <3>1. r <= n /\ r - 1 \in Place /\ r - 1 >= p /\ r - 1 < n
      BY <1>1, <1>2, <2>1, <2>3
    <3>2. new[r - 1] = tab[(r - 1) + 1]
      BY <1>4, <3>1
    <3>3. (r - 1) + 1 = r
      OBVIOUS
    <3> QED
      BY <2>1, <3>1, <3>2, <3>3 DEF Held, Used
  <2> QED
    BY <1>6, <2>1, <2>2, <2>3
<1>7. ASSUME NEW s \in Held(new)
      PROVE  s \in Held(tab) /\ s # tab[p]
  <2>1. PICK q \in Place : new[q].used /\ new[q] = s
    BY <1>7 DEF Held, Used
  <2>2. CASE q < p
    BY <1>1, <1>2, <1>4, <2>1, <2>2 DEF Held, Used, Packed
  <2>3. CASE q >= p
    <3>1. q < n /\ new[q] = tab[q + 1] /\ q + 1 \in Place
      BY <1>4, <1>5, <2>1, <2>3
    <3>2. tab[q + 1].arg # tab[p].arg
      BY <2>3, <3>1 DEF Packed
    <3> QED
      BY <2>1, <3>1, <3>2 DEF Held, Used
  <2> QED
    BY <2>2, <2>3
<1>8. Held(new) = Held(tab) \ {tab[p]}
  BY <1>6, <1>7
<1>9. \A q \in Place : new[q].used => q < NSlots /\ tab[q + 1].used
  <2> SUFFICES ASSUME NEW q \in Place, new[q].used
               PROVE  q < NSlots /\ tab[q + 1].used
    OBVIOUS
  <2>1. q < n /\ q + 1 \in Place /\ q + 1 <= n
    BY <1>2, <1>5
  <2> QED
    BY <1>1, <1>2, <2>1
<1> QED
  BY <1>4, <1>8, <1>9 DEF new

-----------------------------------------------------------------------------
(***************************************************************************)
(* Removing all the slots of a set: what the loop of dl_manager() and of   *)
(* the window's closer has done after n rounds.                            *)
(***************************************************************************)
State(tab) ==
  {s \in [tab : [Place -> Slots], next : 1 .. NSlots + 1,
          closed : SUBSET (Load \cup {Nil})] : Packed(s.tab)}

Round(s, gone) ==
  IF s.next > NSlots THEN s
  ELSE IF ~s.tab[s.next].used THEN s
  ELSE IF s.tab[s.next].arg \in gone
  THEN [tab |-> Removed(s.tab, s.next), next |-> s.next,
        closed |-> s.closed \cup {s.tab[s.next].Source}]
  ELSE [s EXCEPT !.next = @ + 1]

LEMMA RoundState ==
  ASSUME NEW tab, NEW gone, NEW s \in State(tab)
  PROVE  Round(s, gone) \in State(tab)
<1> USE SlotsAssumption
<1>1. /\ s.tab \in [Place -> Slots] /\ s.next \in 1 .. NSlots + 1
      /\ s.closed \in SUBSET (Load \cup {Nil})
      /\ Packed(s.tab)
      /\ s = [tab |-> s.tab, next |-> s.next, closed |-> s.closed]
  BY DEF State
<1>2. CASE s.next > NSlots
  BY <1>2 DEF Round
<1>3. CASE s.next <= NSlots /\ ~s.tab[s.next].used
  BY <1>3 DEF Round
<1>4. CASE s.next <= NSlots /\ s.tab[s.next].used
  <2>1. s.next \in Place
    BY <1>1, <1>4 DEF Place
  <2>2. CASE s.tab[s.next].arg \in gone
    <3>1. Packed(Removed(s.tab, s.next))
      BY <1>1, <1>4, <2>1, RemovedPacked
    <3>2. Removed(s.tab, s.next) \in [Place -> Slots]
      BY <3>1 DEF Packed
    <3>3. s.tab[s.next].Source \in Load \cup {Nil}
      BY <1>1, <2>1 DEF Slots
    <3>4. Round(s, gone) =
            [tab |-> Removed(s.tab, s.next), next |-> s.next,
             closed |-> s.closed \cup {s.tab[s.next].Source}]
      BY <1>1, <1>4, <2>2 DEF Round
    <3> QED
      BY <1>1, <3>1, <3>2, <3>3, <3>4 DEF State
  <2>3. CASE s.tab[s.next].arg \notin gone
    <3>1. Round(s, gone) = [s EXCEPT !.next = s.next + 1]
      BY <1>1, <1>4, <2>3 DEF Round
    <3>2. s.next + 1 \in 1 .. NSlots + 1
      BY <1>1, <1>4
    <3> QED
      BY <1>1, <3>1, <3>2 DEF State
  <2> QED
    BY <2>2, <2>3
<1> QED
  BY <1>1, <1>2, <1>3, <1>4

\* The loop has passed the places before next and goes round once for each slot
\* that was in use.
After(tab, gone, n, s) ==
  /\ s \in State(tab)
  /\ \A q \in Place : q < s.next => s.tab[q].arg \notin gone
  /\ \A q \in Place : q >= s.next + (NSlots - n) => ~s.tab[q].used
  /\ Held(s.tab) \subseteq Held(tab)
  /\ \A r \in Held(tab) \ Held(s.tab) : r.arg \in gone
  /\ s.closed = {r.Source : r \in Held(tab) \ Held(s.tab)}

LEMMA RoundStep ==
  ASSUME NEW tab, Packed(tab), NEW gone,
         NEW n \in 0 .. NSlots - 1, NEW s, After(tab, gone, n, s)
  PROVE  After(tab, gone, n + 1, Round(s, gone))
<1> USE SlotsAssumption
<1> DEFINE t == Round(s, gone)
<1> SUFFICES After(tab, gone, n + 1, t)
  OBVIOUS
<1>0. s \in State(tab) /\ t \in State(tab)
  BY RoundState DEF After
<1>1. /\ s.next \in 1 .. NSlots + 1
      /\ Packed(s.tab)
      /\ s.tab \in [Place -> Slots]
      /\ s.closed \in SUBSET (Load \cup {Nil})
      /\ s = [tab |-> s.tab, next |-> s.next, closed |-> s.closed]
  BY <1>0 DEF State
<1>2. /\ \A q \in Place : q < s.next => s.tab[q].arg \notin gone
      /\ \A q \in Place : q >= s.next + (NSlots - n) => ~s.tab[q].used
      /\ Held(s.tab) \subseteq Held(tab)
      /\ \A r \in Held(tab) \ Held(s.tab) : r.arg \in gone
      /\ s.closed = {r.Source : r \in Held(tab) \ Held(s.tab)}
  BY DEF After
<1>3. CASE s.next > NSlots
  <2>1. t = s
    BY <1>3 DEF Round
  <2>2. \A q \in Place : q >= s.next + (NSlots - (n + 1)) => ~s.tab[q].used
    BY <1>1, <1>3 DEF Place
  <2> QED
    BY <1>0, <1>2, <2>1, <2>2 DEF After
<1>4. CASE s.next <= NSlots /\ ~s.tab[s.next].used
  <2>1. t = s
    BY <1>4 DEF Round
  <2>2. \A q \in Place : q >= s.next => ~s.tab[q].used
    <3> SUFFICES ASSUME NEW q \in Place, q >= s.next
                 PROVE  ~s.tab[q].used
      OBVIOUS
    <3>1. CASE q = s.next
      BY <1>4, <3>1
    <3>2. CASE s.next < q
      <4>1. s.next \in Place /\ q \in Place
        BY <1>1, <1>4 DEF Place
      <4> QED
        BY <1>1, <1>4, <3>2, <4>1 DEF Packed
    <3> QED
      BY <1>1, <3>1, <3>2 DEF Place
  <2>3. \A q \in Place : q >= s.next + (NSlots - (n + 1)) => ~s.tab[q].used
    BY <1>1, <2>2 DEF Place
  <2> QED
    BY <1>0, <1>2, <2>1, <2>3 DEF After
<1>5. CASE s.next <= NSlots /\ s.tab[s.next].used /\ s.tab[s.next].arg \in gone
  <2> DEFINE p == s.next
  <2>1. p \in Place
    BY <1>1, <1>5 DEF Place
  <2>2. t = [tab |-> Removed(s.tab, p), next |-> p,
             closed |-> s.closed \cup {s.tab[p].Source}]
    BY <1>1, <1>5 DEF Round
  <2>3. /\ Held(Removed(s.tab, p)) = Held(s.tab) \ {s.tab[p]}
        /\ \A q \in Place : q < p => Removed(s.tab, p)[q] = s.tab[q]
        /\ \A q \in Place : Removed(s.tab, p)[q].used
                              => q < NSlots /\ s.tab[q + 1].used
    BY <1>1, <1>5, <2>1, RemovedPlaces
  <2>4. s.tab[p] \in Held(s.tab)
    BY <1>5, <2>1 DEF Held, Used
  <2> DEFINE new == Removed(s.tab, p)
  <2>5. t.tab = new /\ t.next = p /\ t.closed = s.closed \cup {s.tab[p].Source}
    BY <2>2
  <2>6. /\ Held(new) = Held(s.tab) \ {s.tab[p]}
        /\ \A q \in Place : q < p => new[q] = s.tab[q]
        /\ \A q \in Place : new[q].used => q < NSlots /\ s.tab[q + 1].used
    BY <2>3
  <2> HIDE DEF new, t
  <2>7. \A q \in Place : q < p => new[q].arg \notin gone
    BY <1>2, <2>6
  <2>8. \A q \in Place : q >= p + (NSlots - (n + 1)) => ~new[q].used
    <3> SUFFICES ASSUME NEW q \in Place, q >= p + (NSlots - (n + 1)), new[q].used
                 PROVE  FALSE
      OBVIOUS
    <3>1. q < NSlots /\ s.tab[q + 1].used
      BY <2>6
    <3>2. q + 1 \in Place /\ q + 1 >= p + (NSlots - n)
      BY <1>1, <3>1 DEF Place
    <3> QED
      BY <1>2, <3>1, <3>2
  <2>9. Held(tab) \ Held(new) = (Held(tab) \ Held(s.tab)) \cup {s.tab[p]}
    BY <1>2, <2>4, <2>6
  <2>10. Held(new) \subseteq Held(tab)
    BY <1>2, <2>6
  <2>11. \A r \in Held(tab) \ Held(new) : r.arg \in gone
    BY <1>2, <1>5, <2>9
  <2>12. t.closed = {r.Source : r \in Held(tab) \ Held(new)}
    BY <1>2, <2>5, <2>9
  <2> QED
    BY <1>0, <2>5, <2>7, <2>8, <2>10, <2>11, <2>12 DEF After
<1>6. CASE s.next <= NSlots /\ s.tab[s.next].used /\ s.tab[s.next].arg \notin gone
  <2>1. t = [s EXCEPT !.next = s.next + 1]
    BY <1>1, <1>6 DEF Round
  <2>2. t.tab = s.tab /\ t.next = s.next + 1 /\ t.closed = s.closed
    BY <1>1, <2>1
  <2>3. \A q \in Place : q < s.next + 1 => s.tab[q].arg \notin gone
    <3> SUFFICES ASSUME NEW q \in Place, q < s.next + 1
                 PROVE  s.tab[q].arg \notin gone
      OBVIOUS
    <3>1. q < s.next \/ q = s.next
      BY <1>1 DEF Place
    <3> QED
      BY <1>2, <1>6, <3>1
  <2>4. \A q \in Place : q >= (s.next + 1) + (NSlots - (n + 1)) => ~s.tab[q].used
    BY <1>1, <1>2 DEF Place
  <2> HIDE DEF t
  <2> QED
    BY <1>0, <1>2, <2>2, <2>3, <2>4 DEF After
<1> QED
  BY <1>1, <1>3, <1>4, <1>5, <1>6

\* All of them are removed, nothing else is, and their connections are closed.
LEMMA RemovedAll ==
  ASSUME NEW tab, Packed(tab), NEW gone
  PROVE  LET r == RemoveAll(tab, gone)
         IN  /\ Packed(r.tab)
             /\ Held(r.tab) = {s \in Held(tab) : s.arg \notin gone}
             /\ r.closed = {s.Source : s \in {t \in Held(tab) : t.arg \in gone}}
<1> USE SlotsAssumption
<1> DEFINE T == State(tab)
           a == [tab |-> tab, next |-> 1, closed |-> {}]
           G == [s \in T |-> Round(s, gone)]
           Loop(f) == f = [n \in 0 .. NSlots |-> IF n = 0 THEN a
                                                 ELSE Round(f[n - 1], gone)]
           f == CHOOSE g : Loop(g)
<1>1. a \in T
  BY DEF State, Packed
<1>2. G \in [T -> T]
  BY RoundState
<1>3. RemoveAll(tab, gone) = f[NSlots]
  BY DEF RemoveAll, Round
<1>4. \E g \in [0 .. NSlots -> T] : Loop(g)
  <2> HIDE DEF a, T, G
  <2>0. NSlots \in Nat
    OBVIOUS
  <2>a. \E g \in [0 .. NSlots -> T] :
          g = [n \in 0 .. NSlots |-> IF n = 0 THEN a ELSE G[g[n - 1]]]
    BY ONLY <2>0, <1>1, <1>2, Iterated
  <2>1. PICK g \in [0 .. NSlots -> T] :
          g = [n \in 0 .. NSlots |-> IF n = 0 THEN a ELSE G[g[n - 1]]]
    BY <2>a
  <2>2. \A n \in 0 .. NSlots : n # 0 => G[g[n - 1]] = Round(g[n - 1], gone)
    <3> SUFFICES ASSUME NEW n \in 0 .. NSlots, n # 0
                 PROVE  G[g[n - 1]] = Round(g[n - 1], gone)
      OBVIOUS
    <3>1. n - 1 \in 0 .. NSlots
      OBVIOUS
    <3>2. g[n - 1] \in T
      BY <3>1
    <3> QED
      BY <3>2 DEF G
  <2>3. Loop(g)
    BY <2>1, <2>2
  <2> QED
    BY <2>3
<1>5. Loop(f)
  BY <1>4
<1> HIDE DEF f, G
<1>6. /\ f[0] = a
      /\ \A n \in 0 .. NSlots - 1 : f[n + 1] = Round(f[n], gone)
  <2> HIDE DEF a
  <2>1. \A n \in 0 .. NSlots : f[n] = IF n = 0 THEN a ELSE Round(f[n - 1], gone)
    BY <1>5
  <2>2. 0 \in 0 .. NSlots
    OBVIOUS
  <2>3. \A n \in 0 .. NSlots - 1 : n + 1 \in 0 .. NSlots /\ n + 1 # 0 /\ (n + 1) - 1 = n
    OBVIOUS
  <2> QED
    BY <2>1, <2>2, <2>3
<1>7. After(tab, gone, 0, a)
  BY <1>1 DEF After, Place
<1> DEFINE S == {n \in 0 .. NSlots : After(tab, gone, n, f[n])}
<1>8. 0 \in S
  BY <1>6, <1>7
<1>9. \A n \in 0 .. NSlots - 1 : n \in S => n + 1 \in S
  <2> SUFFICES ASSUME NEW n \in 0 .. NSlots - 1, n \in S
               PROVE  n + 1 \in S
    OBVIOUS
  <2>1. After(tab, gone, n + 1, Round(f[n], gone))
    BY RoundStep
  <2> QED
    BY <1>6, <2>1
<1> HIDE DEF S
<1>10. NSlots \in S
  BY <1>8, <1>9, UpTo
<1> USE DEF S
<1> DEFINE r == f[NSlots]
<1>11. After(tab, gone, NSlots, r)
  BY <1>10
<1> HIDE DEF S, r
<1>12. /\ Packed(r.tab)
       /\ r.next \in 1 .. NSlots + 1
       /\ \A q \in Place : q < r.next => r.tab[q].arg \notin gone
       /\ \A q \in Place : q >= r.next + (NSlots - NSlots) => ~r.tab[q].used
       /\ Held(r.tab) \subseteq Held(tab)
       /\ \A s \in Held(tab) \ Held(r.tab) : s.arg \in gone
       /\ r.closed = {s.Source : s \in Held(tab) \ Held(r.tab)}
  BY <1>11 DEF After, State
<1>13. \A s \in Held(r.tab) : s.arg \notin gone
  <2> SUFFICES ASSUME NEW s \in Held(r.tab)
               PROVE  s.arg \notin gone
    OBVIOUS
  <2>1. PICK q \in Place : r.tab[q].used /\ r.tab[q] = s
    BY DEF Held, Used
  <2>2. q < r.next
    BY <1>12, <2>1 DEF Place
  <2> QED
    BY <1>12, <2>1, <2>2
<1>14. Held(tab) \ Held(r.tab) = {t \in Held(tab) : t.arg \in gone}
  BY <1>12, <1>13
<1>15. Held(r.tab) = {s \in Held(tab) : s.arg \notin gone}
  BY <1>12, <1>13
<1> QED
  BY <1>3, <1>12, <1>14, <1>15 DEF r

-----------------------------------------------------------------------------
(***************************************************************************)
(* The inductive invariant, of the set S of the records in use, the        *)
(* loaders L, the jobs J, the open connections O and the downloads B that  *)
(* were started.                                                           *)
(***************************************************************************)

\* The slot s as the loader of d finds it, as a job of the function f does.
Awaits(s, d, a) ==
  /\ s.arg = a /\ s.Location = d
  /\ s.Bttn = "stop" /\ s.Buffer /\ ~s.Target /\ s.Source = Nil

Serves(s, f, a) ==
  s.arg = a /\ s.Bttn = "stop" /\ s.Buffer /\ s.Target = (f # "fsel")

\* A loader exists as long as header_job() or conn_job() is to be called for
\* it, which are never both; it has a connection only for the second.
LoadersServed(S, L, J, B) ==
  \A d \in Load :
    /\ L[d] # Nil <=> <<"header", d>> \in J \/ <<"conn", d>> \in J
    /\ <<"header", d>> \in J => <<"conn", d>> \notin J /\ ~L[d].conn
    /\ L[d] # Nil => d \in B /\ \E s \in S : Awaits(s, d, L[d].arg)

SlotsServed(S, J) ==
  \A f \in SlotJobs : \A a \in Arg : <<f, a>> \in J =>
    /\ \E s \in S : Serves(s, f, a)
    /\ \A g \in SlotJobs : <<g, a>> \in J => g = f

LoaderOrJob(L, J) ==
  \A f \in SlotJobs : \A a \in Arg : \A d \in Load :
    <<f, a>> \in J /\ L[d] # Nil => L[d].arg # a

\* Nobody works for the slot s.
Idles(s, L, J) ==
  /\ \A d \in Load : L[d] # Nil => L[d].arg # s.arg
  /\ \A f \in SlotJobs : <<f, s.arg>> \notin J

Stoppable(S, L, J) ==
  \A s \in S : s.Bttn = "stop" /\ Idles(s, L, J) => s.Buffer /\ ~s.Target

\* A slot has a connection for itself, and not before its loader is done.
Connected(S, L, O, B) ==
  /\ \A s, t \in S : s.Source = t.Source /\ s.Source # Nil => s = t
  /\ \A s \in S : s.Source # Nil => s.Source \in B /\ L[s.Source] = Nil
  /\ \A d \in Load :
       d \in O <=> \/ \E s \in S : s.Source = d
                   \/ L[d] # Nil /\ L[d].conn

Typed(S, L, J, O, B) ==
  /\ S \subseteq Slots
  /\ \A s \in S : s.used
  /\ \A s, t \in S : s.arg = t.arg => s = t
  /\ L \in [Load -> Loaders \cup {Nil}]
  /\ J \subseteq (LoaderJobs \X Load) \cup (SlotJobs \X Arg)
  /\ O \subseteq Load
  /\ B \subseteq Load

Good(S, L, J, O, B) ==
  /\ Typed(S, L, J, O, B)
  /\ LoadersServed(S, L, J, B)
  /\ SlotsServed(S, J)
  /\ LoaderOrJob(L, J)
  /\ Stoppable(S, L, J)
  /\ Connected(S, L, O, B)

IInv ==
  /\ Packed(slot)
  /\ wind \in BOOLEAN
  /\ Good(Held(slot), ldr, job, open, born)

-----------------------------------------------------------------------------
(***************************************************************************)
(* How it is kept.  First when slots are removed for which no loader       *)
(* works, with their jobs and their connections.                           *)
(***************************************************************************)
LEMMA Dropped ==
  ASSUME NEW S, NEW L, NEW J, NEW O, NEW B, Good(S, L, J, O, B),
         NEW S2, S2 \subseteq S,
         \A s \in S \ S2 : \A d \in Load : L[d] # Nil => L[d].arg # s.arg,
         NEW J2,
         J2 = J \ (SlotJobs \X {s.arg : s \in S \ S2})
  PROVE  Good(S2, L, J2, O \ {s.Source : s \in S \ S2}, B)
<1> DEFINE O2 == O \ {s.Source : s \in S \ S2}
<1>1. \A d \in Load : d \in O2 <=> d \in O /\ \A s \in S \ S2 : s.Source # d
  OBVIOUS
<1>2. /\ J2 \subseteq J
      /\ \A f \in LoaderJobs : \A d : <<f, d>> \in J2 <=> <<f, d>> \in J
      /\ \A f \in SlotJobs : \A s \in S \ S2 : <<f, s.arg>> \notin J2
      /\ \A f \in SlotJobs : \A a \in Arg :
           <<f, a>> \in J /\ (\A s \in S \ S2 : s.arg # a) => <<f, a>> \in J2
  BY DEF LoaderJobs, SlotJobs
<1>3. /\ Typed(S, L, J, O, B)
      /\ LoadersServed(S, L, J, B)
      /\ SlotsServed(S, J)
      /\ LoaderOrJob(L, J)
      /\ Stoppable(S, L, J)
      /\ Connected(S, L, O, B)
  BY DEF Good
<1>4. O2 \subseteq O
  OBVIOUS
<1> HIDE DEF O2
<1>5. Typed(S2, L, J2, O2, B)
  BY <1>2, <1>3, <1>4 DEF Typed
<1>6. LoadersServed(S2, L, J2, B)
  <2> SUFFICES ASSUME NEW d \in Load
               PROVE  /\ L[d] # Nil <=> <<"header", d>> \in J2 \/ <<"conn", d>> \in J2
                      /\ <<"header", d>> \in J2 => <<"conn", d>> \notin J2 /\ ~L[d].conn
                      /\ L[d] # Nil => d \in B /\ \E s \in S2 : Awaits(s, d, L[d].arg)
    BY DEF LoadersServed
  <2>1. ASSUME L[d] # Nil
        PROVE  \E s \in S2 : Awaits(s, d, L[d].arg)
    <3>1. PICK s \in S : Awaits(s, d, L[d].arg)
      BY <1>3, <2>1 DEF LoadersServed
    <3>2. s \in S2
      BY <2>1, <3>1 DEF Awaits
    <3> QED
      BY <3>1, <3>2
  <2> QED
    BY <1>2, <1>3, <2>1 DEF LoadersServed, LoaderJobs
<1>7. SlotsServed(S2, J2)
  <2> SUFFICES ASSUME NEW f \in SlotJobs, NEW a \in Arg, <<f, a>> \in J2
               PROVE  /\ \E s \in S2 : Serves(s, f, a)
                      /\ \A g \in SlotJobs : <<g, a>> \in J2 => g = f
    BY DEF SlotsServed
  <2>1. PICK s \in S : Serves(s, f, a)
    BY <1>2, <1>3 DEF SlotsServed
  <2>2. s \in S2
    BY <1>2, <2>1 DEF Serves
  <2> QED
    BY <1>2, <1>3, <2>1, <2>2 DEF SlotsServed
<1>8. LoaderOrJob(L, J2)
  BY <1>2, <1>3 DEF LoaderOrJob
<1>9. Stoppable(S2, L, J2)
  <2> SUFFICES ASSUME NEW s \in S2, s.Bttn = "stop", Idles(s, L, J2)
               PROVE  s.Buffer /\ ~s.Target
    BY DEF Stoppable
  <2>1. s.arg \in Arg /\ s \in S /\ \A t \in S \ S2 : t.arg # s.arg
    BY <1>3 DEF Typed, Slots
  <2>2. Idles(s, L, J)
    BY <1>2, <2>1 DEF Idles
  <2> QED
    BY <1>3, <2>1, <2>2 DEF Stoppable
<1>10. Connected(S2, L, O2, B)
  <2>1. \A s, t \in S2 : s.Source = t.Source /\ s.Source # Nil => s = t
    BY <1>3 DEF Connected
  <2>2. \A s \in S2 : s.Source # Nil => s.Source \in B /\ L[s.Source] = Nil
    BY <1>3 DEF Connected
  <2>3. ASSUME NEW d \in Load, d \in O2
        PROVE  (\E s \in S2 : s.Source = d) \/ (L[d] # Nil /\ L[d].conn)
    BY <1>1, <1>3, <2>3 DEF Connected
  <2>4. ASSUME NEW s \in S2, NEW d \in Load, s.Source = d
        PROVE  d \in O2
    <3>1. d \in O /\ d # Nil
      BY <1>3, <2>4, LoadAssumption DEF Connected
    <3>2. \A t \in S \ S2 : t.Source # d
      BY <1>3, <2>4, <3>1 DEF Connected
    <3> QED
      BY <1>1, <3>1, <3>2
  <2>5. ASSUME NEW d \in Load, L[d] # Nil, L[d].conn
        PROVE  d \in O2
    <3>1. d \in O /\ d # Nil
      BY <1>3, <2>5, LoadAssumption DEF Connected
    <3>2. \A t \in S : t.Source # d
      BY <1>3, <2>5, <3>1 DEF Connected
    <3> QED
      BY <1>1, <3>1, <3>2
  <2> QED
    BY <2>1, <2>2, <2>3, <2>4, <2>5 DEF Connected
<1> QED
  BY <1>5, <1>6, <1>7, <1>8, <1>9, <1>10 DEF Good, O2

(***************************************************************************)
(* Then when a slot is put into use for a download that is new.            *)
(***************************************************************************)
LEMMA FreeArg ==
  ASSUME NEW S, NEW L, NEW J, NEW O, NEW B, Good(S, L, J, O, B),
         NEW a \in Arg, \A s \in S : s.arg # a
  PROVE  /\ \A d \in Load : L[d] # Nil => L[d].arg # a
         /\ \A f \in SlotJobs : <<f, a>> \notin J
<1>1. LoadersServed(S, L, J, B) /\ SlotsServed(S, J)
  BY DEF Good
<1>2. \A d \in Load : L[d] # Nil => L[d].arg # a
  <2> SUFFICES ASSUME NEW d \in Load, L[d] # Nil
               PROVE  L[d].arg # a
    OBVIOUS
  <2>1. PICK s \in S : Awaits(s, d, L[d].arg)
    BY <1>1 DEF LoadersServed
  <2> QED
    BY <2>1 DEF Awaits
<1>3. \A f \in SlotJobs : <<f, a>> \notin J
  BY <1>1 DEF SlotsServed, Serves
<1> QED
  BY <1>2, <1>3

LEMMA NewDownload ==
  ASSUME NEW S, NEW L, NEW J, NEW O, NEW B, Good(S, L, J, O, B),
         NEW d \in Load, d \notin B
  PROVE  /\ L[d] = Nil
         /\ <<"header", d>> \notin J
         /\ <<"conn", d>> \notin J
         /\ d \notin O
         /\ \A s \in S : s.Source # d
<1>1. LoadersServed(S, L, J, B) /\ Connected(S, L, O, B)
  BY DEF Good
<1>2. L[d] = Nil /\ <<"header", d>> \notin J /\ <<"conn", d>> \notin J
  BY <1>1 DEF LoadersServed
<1>3. \A s \in S : s.Source # d
  BY <1>1, LoadAssumption DEF Connected
<1> QED
  BY <1>1, <1>2, <1>3 DEF Connected

LEMMA Added ==
  ASSUME NEW S, NEW L, NEW J, NEW O, NEW B, Good(S, L, J, O, B),
         NEW d \in Load, d \notin B,
         NEW s \in Slots, s.used, s.Location = d, s.Buffer, ~s.Target,
         \A t \in S : t.arg # s.arg,
         NEW L2, NEW J2, NEW O2,
         \/ /\ s.Bttn = "stop" /\ s.Source = Nil
            /\ L2 = [L EXCEPT ![d] = [arg |-> s.arg, conn |-> FALSE]]
            /\ J2 = J \cup {<<"header", d>>}
            /\ O2 = O
         \/ /\ s.Bttn = "stop" /\ s.Source = d
            /\ L2 = L
            /\ J2 = J \cup {<<"fsel", s.arg>>}
            /\ O2 = O \cup {d}
         \/ /\ s.Bttn = "cancel" /\ s.Source = Nil
            /\ L2 = L
            /\ J2 = J
            /\ O2 = O
  PROVE  Good(S \cup {s}, L2, J2, O2, B \cup {d})
<1> DEFINE S2 == S \cup {s}
           B2 == B \cup {d}
           a  == s.arg
<1>1. /\ Typed(S, L, J, O, B)
      /\ LoadersServed(S, L, J, B)
      /\ SlotsServed(S, J)
      /\ LoaderOrJob(L, J)
      /\ Stoppable(S, L, J)
      /\ Connected(S, L, O, B)
  BY DEF Good
<1>2. a \in Arg
  BY DEF Slots
<1>3. /\ \A c \in Load : L[c] # Nil => L[c].arg # a
      /\ \A f \in SlotJobs : <<f, a>> \notin J
  BY <1>2, FreeArg
<1>4. /\ L[d] = Nil
      /\ <<"header", d>> \notin J
      /\ <<"conn", d>> \notin J
      /\ d \notin O
      /\ \A t \in S : t.Source # d
  BY NewDownload
<1>5. d # Nil
  BY LoadAssumption
<1>6. CASE /\ s.Bttn = "stop" /\ s.Source = Nil
           /\ L2 = [L EXCEPT ![d] = [arg |-> a, conn |-> FALSE]]
           /\ J2 = J \cup {<<"header", d>>}
           /\ O2 = O
  <2>1. /\ L2 \in [Load -> Loaders \cup {Nil}]
        /\ L2[d].arg = a /\ ~L2[d].conn
        /\ \A c \in Load : c # d => L2[c] = L[c]
    BY <1>1, <1>2, <1>6 DEF Typed, Loaders
  <2>2. L2[d] # Nil
    <3>1. [arg |-> a, conn |-> FALSE] \in Loaders
      BY <1>2 DEF Loaders
    <3> QED
      BY <1>1, <1>6, <3>1, NilAssumption DEF Typed
  <2>3. Typed(S2, L2, J2, O2, B2)
    BY <1>1, <1>2, <1>6, <2>1 DEF Typed, LoaderJobs
  <2>4. LoadersServed(S2, L2, J2, B2)
    <3>1. Awaits(s, d, a)
      BY <1>6 DEF Awaits
    <3> SUFFICES ASSUME NEW c \in Load
                 PROVE  /\ L2[c] # Nil <=> <<"header", c>> \in J2 \/ <<"conn", c>> \in J2
                        /\ <<"header", c>> \in J2 => <<"conn", c>> \notin J2 /\ ~L2[c].conn
                        /\ L2[c] # Nil => c \in B2 /\ \E t \in S2 : Awaits(t, c, L2[c].arg)
      BY DEF LoadersServed
    <3>2. CASE c = d
      BY <1>4, <1>6, <2>1, <2>2, <3>1, <3>2
    <3>3. CASE c # d
      BY <1>1, <1>6, <2>1, <3>3 DEF LoadersServed
    <3> QED
      BY <3>2, <3>3
  <2>5. SlotsServed(S2, J2)
    BY <1>1, <1>6 DEF SlotsServed, SlotJobs
  <2>6. LoaderOrJob(L2, J2)
    BY <1>1, <1>3, <1>6, <2>1 DEF LoaderOrJob, SlotJobs
  <2>7. Stoppable(S2, L2, J2)
    <3> SUFFICES ASSUME NEW t \in S2, t.Bttn = "stop", Idles(t, L2, J2)
                 PROVE  t.Buffer /\ ~t.Target
      BY DEF Stoppable
    <3>1. t = s \/ Idles(t, L, J)
      BY <1>4, <1>6, <2>1 DEF Idles
    <3> QED
      BY <1>1, <3>1 DEF Stoppable
  <2>8. Connected(S2, L2, O2, B2)
    BY <1>1, <1>4, <1>6, <2>1, LoadAssumption DEF Connected
  <2> QED
    BY <2>3, <2>4, <2>5, <2>6, <2>7, <2>8 DEF Good
<1>7. CASE /\ s.Bttn = "stop" /\ s.Source = d
           /\ L2 = L
           /\ J2 = J \cup {<<"fsel", a>>}
           /\ O2 = O \cup {d}
  <2>1. Typed(S2, L2, J2, O2, B2)
    BY <1>1, <1>2, <1>7 DEF Typed, SlotJobs
  <2>2. LoadersServed(S2, L2, J2, B2)
    BY <1>1, <1>7 DEF LoadersServed
  <2>3. SlotsServed(S2, J2)
    <3>1. Serves(s, "fsel", a)
      BY <1>7 DEF Serves, Slots
    <3> SUFFICES ASSUME NEW f \in SlotJobs, NEW b \in Arg, <<f, b>> \in J2
                 PROVE  /\ \E t \in S2 : Serves(t, f, b)
                        /\ \A g \in SlotJobs : <<g, b>> \in J2 => g = f
      BY DEF SlotsServed
    <3>2. CASE b = a
      BY <1>3, <1>7, <3>1, <3>2
    <3>3. CASE b # a
      BY <1>1, <1>7, <3>3 DEF SlotsServed
    <3> QED
      BY <3>2, <3>3
  <2>4. LoaderOrJob(L2, J2)
    BY <1>1, <1>3, <1>7 DEF LoaderOrJob
  <2>5. Stoppable(S2, L2, J2)
    <3> SUFFICES ASSUME NEW t \in S2, t.Bttn = "stop", Idles(t, L2, J2)
                 PROVE  t.Buffer /\ ~t.Target
      BY DEF Stoppable
    <3>1. t = s \/ Idles(t, L, J)
      BY <1>7 DEF Idles
    <3> QED
      BY <1>1, <3>1 DEF Stoppable
  <2>6. Connected(S2, L2, O2, B2)
    BY <1>1, <1>4, <1>7, LoadAssumption DEF Connected
  <2> QED
    BY <2>1, <2>2, <2>3, <2>4, <2>5, <2>6 DEF Good
<1>8. CASE s.Bttn = "cancel" /\ s.Source = Nil /\ L2 = L /\ J2 = J /\ O2 = O
  <2>1. Typed(S2, L2, J2, O2, B2)
    BY <1>1, <1>2, <1>8 DEF Typed
  <2>2. LoadersServed(S2, L2, J2, B2)
    BY <1>1, <1>8 DEF LoadersServed
  <2>3. SlotsServed(S2, J2)
    BY <1>1, <1>8 DEF SlotsServed
  <2>4. LoaderOrJob(L2, J2)
    BY <1>1, <1>8
  <2>5. Stoppable(S2, L2, J2)
    BY <1>1, <1>8 DEF Stoppable
  <2>6. Connected(S2, L2, O2, B2)
    BY <1>1, <1>4, <1>8, LoadAssumption DEF Connected
  <2> QED
    BY <2>1, <2>2, <2>3, <2>4, <2>5, <2>6 DEF Good
<1> QED
  BY <1>6, <1>7, <1>8

(***************************************************************************)
(* And when a slot in use changes: a job works for it, ...                 *)
(***************************************************************************)
LEMMA Worked ==
  ASSUME NEW S, NEW L, NEW J, NEW O, NEW B, Good(S, L, J, O, B),
         NEW f \in SlotJobs, NEW a \in Arg, <<f, a>> \in J,
         NEW s \in S, Serves(s, f, a),
         NEW t \in Slots, t.used, t.arg = a,
         NEW J2,
         \/ J2 = J \ {<<f, a>>} /\ (t.Bttn = "stop" => t.Buffer /\ ~t.Target)
         \/ \E g \in SlotJobs : /\ J2 = (J \ {<<f, a>>}) \cup {<<g, a>>}
                                /\ Serves(t, g, a),
         NEW O2,
         \/ t.Source = s.Source /\ O2 = O
         \/ t.Source = Nil /\ O2 = O \ {s.Source}
  PROVE  Good((S \ {s}) \cup {t}, L, J2, O2, B)
<1> DEFINE S2 == (S \ {s}) \cup {t}
<1>1. /\ Typed(S, L, J, O, B)
      /\ LoadersServed(S, L, J, B)
      /\ SlotsServed(S, J)
      /\ LoaderOrJob(L, J)
      /\ Stoppable(S, L, J)
      /\ Connected(S, L, O, B)
  BY DEF Good
<1>2. /\ s.arg = a /\ s.used /\ s \in Slots
      /\ \A r \in S \ {s} : r.arg # a /\ r.arg \in Arg
      /\ \A d \in Load : L[d] # Nil => L[d].arg # a
      /\ \A g \in SlotJobs : <<g, a>> \in J => g = f
  <2>1. s.arg = a
    BY DEF Serves
  <2> QED
    BY <1>1, <2>1 DEF Typed, Slots, LoaderOrJob, SlotsServed
<1>3. /\ \A g \in LoaderJobs : \A d \in Load : <<g, d>> \in J2 <=> <<g, d>> \in J
      /\ \A g \in SlotJobs : \A b \in Arg : b # a =>
           (<<g, b>> \in J2 <=> <<g, b>> \in J)
  BY DEF LoaderJobs, SlotJobs
<1>4. \/ t.Bttn = "stop" => t.Buffer /\ ~t.Target
      \/ \E g \in SlotJobs : <<g, a>> \in J2
  OBVIOUS
<1>5. \A g \in SlotJobs : <<g, a>> \in J2 =>
        Serves(t, g, a) /\ \A h \in SlotJobs : <<h, a>> \in J2 => h = g
  BY <1>2
<1>6. J2 \subseteq J \cup (SlotJobs \X Arg)
  OBVIOUS
<1>7. O2 \subseteq O /\ \A d \in O : d # s.Source => d \in O2
  OBVIOUS
<1>8. Typed(S2, L, J2, O2, B)
  BY <1>1, <1>2, <1>6, <1>7 DEF Typed
<1>9. LoadersServed(S2, L, J2, B)
  <2> SUFFICES ASSUME NEW d \in Load
               PROVE  /\ L[d] # Nil <=> <<"header", d>> \in J2 \/ <<"conn", d>> \in J2
                      /\ <<"header", d>> \in J2 => <<"conn", d>> \notin J2 /\ ~L[d].conn
                      /\ L[d] # Nil => d \in B /\ \E r \in S2 : Awaits(r, d, L[d].arg)
    BY DEF LoadersServed
  <2>1. ASSUME L[d] # Nil
        PROVE  \E r \in S2 : Awaits(r, d, L[d].arg)
    <3>1. PICK r \in S : Awaits(r, d, L[d].arg)
      BY <1>1, <2>1 DEF LoadersServed
    <3>2. r # s
      BY <1>2, <2>1, <3>1 DEF Awaits
    <3> QED
      BY <3>1, <3>2
  <2> QED
    BY <1>1, <1>3, <2>1 DEF LoadersServed, LoaderJobs
<1>10. SlotsServed(S2, J2)
  <2> SUFFICES ASSUME NEW g \in SlotJobs, NEW b \in Arg, <<g, b>> \in J2
               PROVE  /\ \E r \in S2 : Serves(r, g, b)
                      /\ \A h \in SlotJobs : <<h, b>> \in J2 => h = g
    BY DEF SlotsServed
  <2>1. CASE b = a
    BY <1>5, <2>1
  <2>2. CASE b # a
    <3>1. <<g, b>> \in J
      BY <1>3, <2>2
    <3>2. PICK r \in S : Serves(r, g, b)
      BY <1>1, <3>1 DEF SlotsServed
    <3>3. r # s
      BY <1>2, <2>2, <3>2 DEF Serves
    <3> QED
      BY <1>1, <1>3, <2>2, <3>1, <3>2, <3>3 DEF SlotsServed
  <2> QED
    BY <2>1, <2>2
<1>11. LoaderOrJob(L, J2)
  <2> SUFFICES ASSUME NEW g \in SlotJobs, NEW b \in Arg, NEW d \in Load,
                      <<g, b>> \in J2, L[d] # Nil
               PROVE  L[d].arg # b
    BY DEF LoaderOrJob
  <2> QED
    BY <1>1, <1>2, <1>3 DEF LoaderOrJob
<1>12. Stoppable(S2, L, J2)
  <2> SUFFICES ASSUME NEW r \in S2, r.Bttn = "stop", Idles(r, L, J2)
               PROVE  r.Buffer /\ ~r.Target
    BY DEF Stoppable
  <2>1. CASE r = t
    BY <1>4, <2>1 DEF Idles
  <2>2. CASE r # t
    <3>1. r \in S \ {s} /\ r.arg # a /\ r.arg \in Arg
      BY <1>2, <2>2
    <3>2. Idles(r, L, J)
      BY <1>3, <3>1 DEF Idles
    <3> QED
      BY <1>1, <3>1, <3>2 DEF Stoppable
  <2> QED
    BY <2>1, <2>2
<1>13. Connected(S2, L, O2, B)
  <2>1. t.Source # Nil => t.Source = s.Source
    OBVIOUS
  <2>2. \A q, r \in S2 : q.Source = r.Source /\ q.Source # Nil => q = r
    BY <1>1, <2>1 DEF Connected
  <2>3. \A r \in S2 : r.Source # Nil => r.Source \in B /\ L[r.Source] = Nil
    BY <1>1, <2>1 DEF Connected
  <2>4. ASSUME NEW d \in Load
        PROVE  d \in O2 <=> \/ \E r \in S2 : r.Source = d
                            \/ L[d] # Nil /\ L[d].conn
    <3>1. d # Nil
      BY LoadAssumption
    <3>2. CASE d = s.Source
      <4>1. L[d] = Nil /\ d \in O /\ \A r \in S \ {s} : r.Source # d
        BY <1>1, <3>1, <3>2 DEF Connected
      <4> QED
        BY <3>1, <3>2, <4>1
    <3>3. CASE d # s.Source
      <4>1. d \in O2 <=> d \in O
        BY <1>7, <3>3
      <4>2. t.Source # d
        BY <2>1, <3>1, <3>3
      <4> QED
        BY <1>1, <3>3, <4>1, <4>2 DEF Connected
    <3> QED
      BY <3>2, <3>3
  <2> QED
    BY <2>2, <2>3, <2>4 DEF Connected
<1> QED
  BY <1>8, <1>9, <1>10, <1>11, <1>12, <1>13 DEF Good

(***************************************************************************)
(* ... or its loader does, and is done.                                    *)
(***************************************************************************)
LEMMA LoaderDone ==
  ASSUME NEW S, NEW L, NEW J, NEW O, NEW B, Good(S, L, J, O, B),
         NEW f \in LoaderJobs, NEW d \in Load, <<f, d>> \in J,
         NEW s \in S, Awaits(s, d, L[d].arg),
         NEW t \in Slots, t.used, t.arg = s.arg,
         NEW J2,
         \/ /\ f = "header" /\ t.Bttn # "stop" /\ t.Source = Nil
            /\ J2 = J \ {<<f, d>>}
         \/ /\ f = "conn" /\ Serves(t, "fsel", s.arg)
            /\ t.Source = IF L[d].conn THEN d ELSE Nil
            /\ J2 = (J \ {<<f, d>>}) \cup {<<"fsel", s.arg>>}
  PROVE  Good((S \ {s}) \cup {t}, [L EXCEPT ![d] = Nil], J2, O, B)
<1> DEFINE S2 == (S \ {s}) \cup {t}
           L2 == [L EXCEPT ![d] = Nil]
           a  == s.arg
<1>1. /\ Typed(S, L, J, O, B)
      /\ LoadersServed(S, L, J, B)
      /\ SlotsServed(S, J)
      /\ LoaderOrJob(L, J)
      /\ Stoppable(S, L, J)
      /\ Connected(S, L, O, B)
  BY DEF Good
<1>2. d # Nil /\ f \in {"header", "conn"}
  BY LoadAssumption DEF LoaderJobs
<1>3. /\ L[d] # Nil /\ d \in B
      /\ f = "header" => ~L[d].conn
      /\ <<"header", d>> \in J => <<"conn", d>> \notin J
  BY <1>1, <1>2 DEF LoadersServed
<1>4. /\ a \in Arg /\ L[d].arg = a /\ s.Source = Nil /\ s.Location = d
      /\ \A r \in S \ {s} : r.arg # a /\ r.arg \in Arg
      /\ \A g \in SlotJobs : <<g, a>> \notin J
  <2>1. L[d].arg = a /\ s.Source = Nil /\ s.Location = d
    BY DEF Awaits
  <2>2. a \in Arg /\ \A r \in S \ {s} : r.arg # a /\ r.arg \in Arg
    BY <1>1 DEF Typed, Slots
  <2> QED
    BY <1>1, <1>3, <2>1, <2>2 DEF LoaderOrJob
<1>5. \A c \in Load : c # d /\ L[c] # Nil => L[c].arg # a
  <2> SUFFICES ASSUME NEW c \in Load, c # d, L[c] # Nil, L[c].arg = a
               PROVE  FALSE
    OBVIOUS
  <2>1. PICK r \in S : Awaits(r, c, a)
    BY <1>1 DEF LoadersServed
  <2>2. r = s
    BY <1>4, <2>1 DEF Awaits
  <2> QED
    BY <1>4, <2>1, <2>2 DEF Awaits
<1>6. /\ L2 \in [Load -> Loaders \cup {Nil}]
      /\ L2[d] = Nil
      /\ \A c \in Load : c # d => L2[c] = L[c]
  BY <1>1 DEF Typed
<1>7. /\ <<"header", d>> \notin J2 /\ <<"conn", d>> \notin J2
      /\ \A g \in LoaderJobs : \A c \in Load : c # d =>
           (<<g, c>> \in J2 <=> <<g, c>> \in J)
      /\ \A g \in SlotJobs : \A b \in Arg : b # a =>
           (<<g, b>> \in J2 <=> <<g, b>> \in J)
      /\ \A g \in SlotJobs : <<g, a>> \in J2 => g = "fsel" /\ Serves(t, g, a)
      /\ f = "conn" => <<"fsel", a>> \in J2
  BY <1>2, <1>3, <1>4 DEF LoaderJobs, SlotJobs
<1>8. J2 \subseteq J \cup (SlotJobs \X Arg)
  BY <1>4 DEF SlotJobs
<1> HIDE DEF L2
<1>9. Typed(S2, L2, J2, O, B)
  BY <1>1, <1>4, <1>6, <1>8 DEF Typed
<1>10. LoadersServed(S2, L2, J2, B)
  <2> SUFFICES ASSUME NEW c \in Load
               PROVE  /\ L2[c] # Nil <=> <<"header", c>> \in J2 \/ <<"conn", c>> \in J2
                      /\ <<"header", c>> \in J2 => <<"conn", c>> \notin J2 /\ ~L2[c].conn
                      /\ L2[c] # Nil => c \in B /\ \E r \in S2 : Awaits(r, c, L2[c].arg)
    BY DEF LoadersServed
  <2>1. CASE c = d
    BY <1>6, <1>7, <2>1
  <2>2. CASE c # d
    <3>1. ASSUME L[c] # Nil
          PROVE  \E r \in S2 : Awaits(r, c, L[c].arg)
      <4>1. PICK r \in S : Awaits(r, c, L[c].arg)
        BY <1>1, <3>1 DEF LoadersServed
      <4>2. r # s
        BY <1>4, <2>2, <4>1 DEF Awaits
      <4> QED
        BY <4>1, <4>2
    <3> QED
      BY <1>1, <1>6, <1>7, <2>2, <3>1 DEF LoadersServed, LoaderJobs
  <2> QED
    BY <2>1, <2>2
<1>11. SlotsServed(S2, J2)
  <2> SUFFICES ASSUME NEW g \in SlotJobs, NEW b \in Arg, <<g, b>> \in J2
               PROVE  /\ \E r \in S2 : Serves(r, g, b)
                      /\ \A h \in SlotJobs : <<h, b>> \in J2 => h = g
    BY DEF SlotsServed
  <2>1. CASE b = a
    BY <1>7, <2>1
  <2>2. CASE b # a
    <3>1. <<g, b>> \in J
      BY <1>7, <2>2
    <3>2. PICK r \in S : Serves(r, g, b)
      BY <1>1, <3>1 DEF SlotsServed
    <3>3. r # s
      BY <2>2, <3>2 DEF Serves
    <3> QED
      BY <1>1, <1>7, <2>2, <3>1, <3>2, <3>3 DEF SlotsServed
  <2> QED
    BY <2>1, <2>2
<1>12. LoaderOrJob(L2, J2)
  <2> SUFFICES ASSUME NEW g \in SlotJobs, NEW b \in Arg, NEW c \in Load,
                      <<g, b>> \in J2, L2[c] # Nil
               PROVE  L2[c].arg # b
    BY DEF LoaderOrJob
  <2>1. c # d /\ L2[c] = L[c]
    BY <1>6
  <2>2. CASE b = a
    BY <1>5, <2>1, <2>2
  <2>3. CASE b # a
    BY <1>1, <1>7, <2>1, <2>3 DEF LoaderOrJob
  <2> QED
    BY <2>2, <2>3
<1>13. Stoppable(S2, L2, J2)
  <2> SUFFICES ASSUME NEW r \in S2, r.Bttn = "stop", Idles(r, L2, J2)
               PROVE  r.Buffer /\ ~r.Target
    BY DEF Stoppable
  <2>1. CASE r = t
    BY <1>2, <1>7, <2>1 DEF Idles, SlotJobs
  <2>2. CASE r # t
    <3>1. r \in S \ {s} /\ r.arg # a /\ r.arg \in Arg
      BY <1>4, <2>2
    <3>2. Idles(r, L, J)
      BY <1>4, <1>6, <1>7, <3>1 DEF Idles
    <3> QED
      BY <1>1, <3>1, <3>2 DEF Stoppable
  <2> QED
    BY <2>1, <2>2
<1>14. Connected(S2, L2, O, B)
  <2>1. t.Source # Nil => t.Source = d /\ L[d].conn
    BY <1>2
  <2>2. \A r \in S : r.Source # d
    BY <1>1, <1>2, <1>3 DEF Connected
  <2>3. \A q, r \in S2 : q.Source = r.Source /\ q.Source # Nil => q = r
    BY <1>1, <2>1, <2>2 DEF Connected
  <2>4. \A r \in S2 : r.Source # Nil => r.Source \in B /\ L2[r.Source] = Nil
    <3> SUFFICES ASSUME NEW r \in S2, r.Source # Nil
                 PROVE  r.Source \in B /\ L2[r.Source] = Nil
      OBVIOUS
    <3>1. CASE r = t
      BY <1>3, <1>6, <2>1, <3>1
    <3>2. CASE r # t
      <4>1. r \in S /\ r.Source \in Load
        BY <1>1, <3>2 DEF Typed, Slots
      <4> QED
        BY <1>1, <1>6, <4>1 DEF Connected
    <3> QED
      BY <3>1, <3>2
  <2>5. ASSUME NEW c \in Load
        PROVE  c \in O <=> \/ \E r \in S2 : r.Source = c
                           \/ L2[c] # Nil /\ L2[c].conn
    <3>1. c # Nil
      BY LoadAssumption
    <3>2. CASE c = d
      <4>1. c \in O <=> L[d].conn
        BY <1>1, <1>3, <2>2, <3>2 DEF Connected
      <4>2. t.Source = c <=> L[d].conn
        BY <1>2, <1>3, <3>2
      <4> QED
        BY <1>6, <2>2, <3>2, <4>1, <4>2
    <3>3. CASE c # d
      BY <1>1, <1>4, <1>6, <2>1, <3>1, <3>3 DEF Connected
    <3> QED
      BY <3>2, <3>3
  <2> QED
    BY <2>3, <2>4, <2>5 DEF Connected
<1> QED
  BY <1>9, <1>10, <1>11, <1>12, <1>13, <1>14 DEF Good, L2

-----------------------------------------------------------------------------
(***************************************************************************)
(* From the table to the set of its records.                               *)
(***************************************************************************)
LEMMA ByArgFinds ==
  ASSUME Packed(slot), NEW s \in Held(slot)
  PROVE  /\ ByArg(s.arg) \in Place
         /\ slot[ByArg(s.arg)] = s
         /\ s.used
<1>1. PICK p \in Place : slot[p].used /\ slot[p] = s
  BY DEF Held, Used
<1>2. \A q \in Place : slot[q].arg = s.arg <=> q = p
  BY <1>1 DEF Packed
<1>3. ByArg(s.arg) = p
  BY <1>2 DEF ByArg
<1> QED
  BY <1>1, <1>3

LEMMA AddedTable ==
  ASSUME NEW tab, Packed(tab), NEW p \in Free(tab),
         NEW t \in Slots, t.used, t.arg = tab[p].arg
  PROVE  /\ Packed([tab EXCEPT ![p] = t])
         /\ Held([tab EXCEPT ![p] = t]) = Held(tab) \cup {t}
         /\ \A s \in Held(tab) : s.arg # t.arg
<1> DEFINE new == [tab EXCEPT ![p] = t]
<1>0. p \in Place /\ ~tab[p].used /\ \A q \in Place : q < p => tab[q].used
  BY DEF Free, Place
<1>1. /\ new \in [Place -> Slots]
      /\ new[p] = t
      /\ \A q \in Place : q # p => new[q] = tab[q]
  BY <1>0 DEF Packed
<1>2. \A q \in Place : new[q].arg = tab[q].arg
  BY <1>1
<1> HIDE DEF new
<1>3. \A q, r \in Place : new[q].used /\ r < q => new[r].used
  <2> SUFFICES ASSUME NEW q \in Place, NEW r \in Place, new[q].used, r < q
               PROVE  new[r].used
    OBVIOUS
  <2>1. CASE q = p
    BY <1>0, <1>1, <2>1 DEF Place
  <2>2. CASE q # p
    BY <1>1, <2>2 DEF Packed
  <2> QED
    BY <2>1, <2>2
<1>4. Packed(new)
  BY <1>1, <1>2, <1>3 DEF Packed
<1>5. Held(new) = Held(tab) \cup {t}
  BY <1>0, <1>1 DEF Held, Used
<1>6. \A s \in Held(tab) : s.arg # t.arg
  BY <1>0 DEF Held, Used, Packed
<1> QED
  BY <1>4, <1>5, <1>6 DEF new

\* The clean-up before a new download takes no slot that can be stopped.
LEMMA TidiedTable ==
  ASSUME IInv
  PROVE  /\ Packed(Tidied.tab)
         /\ Held(Tidied.tab) \subseteq Held(slot)
         /\ \A s \in Held(slot) : s.Bttn = "stop" => s \in Held(Tidied.tab)
         /\ Good(Held(Tidied.tab), ldr, job, open \ Tidied.closed, born)
<1> DEFINE gone == {slot[p].arg : p \in {q \in Place : Finished(slot[q])}}
           r == RemoveAll(slot, gone)
<1>0. Packed(slot) /\ Good(Held(slot), ldr, job, open, born)
  BY DEF IInv
<1>1. CASE Free(slot) # {}
  <2>1. Tidied = [tab |-> slot, closed |-> {}]
    BY <1>1 DEF Tidied
  <2>2. Tidied.tab = slot /\ open \ Tidied.closed = open
    BY <2>1
  <2> QED
    BY <1>0, <2>2
<1>2. CASE Free(slot) = {}
  <2>1. Tidied = r
    BY <1>2 DEF Tidied
  <2>2. /\ Packed(r.tab)
        /\ Held(r.tab) = {s \in Held(slot) : s.arg \notin gone}
        /\ r.closed = {s.Source : s \in {t \in Held(slot) : t.arg \in gone}}
    <3> HIDE DEF gone
    <3> QED
      BY <1>0, RemovedAll
  <2>3. \A s \in Held(slot) : s.arg \in gone => s.Bttn # "stop"
    <3> SUFFICES ASSUME NEW s \in Held(slot), NEW q \in Place,
                        Finished(slot[q]), s.arg = slot[q].arg
                 PROVE  s.Bttn # "stop"
      OBVIOUS
    <3>1. s = slot[q]
      BY <1>0 DEF Held, Used, Packed
    <3> QED
      BY <3>1 DEF Finished
  <2> DEFINE S == Held(slot)
             S2 == Held(r.tab)
  <2> HIDE DEF r, gone
  <2>4. S2 \subseteq S /\ S \ S2 = {t \in S : t.arg \in gone}
    BY <2>2
  <2>5. \A s \in S \ S2 : s.Bttn # "stop" /\ s.arg \in Arg
    BY <1>0, <2>3, <2>4 DEF Good, Typed, Slots
  <2>6. \A s \in S \ S2 : \A d \in Load : ldr[d] # Nil => ldr[d].arg # s.arg
    <3> SUFFICES ASSUME NEW s \in S \ S2, NEW d \in Load, ldr[d] # Nil,
                        ldr[d].arg = s.arg
                 PROVE  FALSE
      OBVIOUS
    <3>1. PICK t \in S : Awaits(t, d, s.arg)
      BY <1>0 DEF Good, LoadersServed
    <3>2. t = s
      BY <1>0, <3>1 DEF Good, Typed, Awaits
    <3> QED
      BY <2>5, <3>1, <3>2 DEF Awaits
  <2>7. \A s \in S \ S2 : \A f \in SlotJobs : <<f, s.arg>> \notin job
    <3> SUFFICES ASSUME NEW s \in S \ S2, NEW f \in SlotJobs,
                        <<f, s.arg>> \in job
                 PROVE  FALSE
      OBVIOUS
    <3>1. PICK t \in S : Serves(t, f, s.arg)
      BY <1>0, <2>5 DEF Good, SlotsServed
    <3>2. t = s
      BY <1>0, <3>1 DEF Good, Typed, Serves
    <3> QED
      BY <2>5, <3>1, <3>2 DEF Serves
  <2>8. job = job \ (SlotJobs \X {s.arg : s \in S \ S2})
    BY <2>7
  <2>9. r.closed = {s.Source : s \in S \ S2}
    BY <2>2, <2>4
  <2> HIDE DEF S, S2
  <2>10. Good(S2, ldr, job, open \ {s.Source : s \in S \ S2}, born)
    BY <1>0, <2>4, <2>6, <2>8, Dropped DEF S
  <2> QED
    BY <2>1, <2>2, <2>3, <2>9, <2>10 DEF S, S2
<1> QED
  BY <1>1, <1>2

-----------------------------------------------------------------------------
(***************************************************************************)
(* The steps.                                                              *)
(***************************************************************************)

\* The download of the slot s is still shown after the step.
StillShown(s) == \E t \in Held(slot') : t.Location = s.Location

LEMMA ChangedSlot ==
  ASSUME IInv, NEW s \in Held(slot),
         NEW t \in Slots, t.used, t.arg = s.arg, t.Location = s.Location,
         slot' = [slot EXCEPT ![ByArg(s.arg)] = t]
  PROVE  /\ Packed(slot')
         /\ Held(slot') = (Held(slot) \ {s}) \cup {t}
         /\ \A r \in Held(slot) : StillShown(r)
<1> DEFINE p == ByArg(s.arg)
<1>1. /\ p \in Place
      /\ slot[p] = s
      /\ s.used
      /\ slot' = [slot EXCEPT ![p] = t]
      /\ Packed(slot)
  BY ByArgFinds DEF IInv
<1> HIDE DEF p
<1> DEFINE new == slot'
<1>2. /\ new \in [Place -> Slots]
      /\ new[p] = t
      /\ \A q \in Place : q # p => new[q] = slot[q]
  <2>1. slot \in [Place -> Slots]
    BY <1>1 DEF Packed
  <2> QED
    BY <1>1, <2>1
<1>3. \A q \in Place : new[q].arg = slot[q].arg /\ (new[q].used <=> slot[q].used)
  BY <1>1, <1>2
<1> HIDE DEF new
<1>4. Packed(new)
  <2>1. \A q \in Place : new[q].used \/ new[q] = Hidden(new[q])
    BY <1>1, <1>2 DEF Packed
  <2>2. \A q, r \in Place : new[q].used /\ r < q => new[r].used
    BY <1>1, <1>3 DEF Packed
  <2>3. \A q, r \in Place : new[q].arg = new[r].arg => q = r
    BY <1>1, <1>3 DEF Packed
  <2>4. \A a \in Arg : \E q \in Place : new[q].arg = a
    BY <1>1, <1>3 DEF Packed
  <2> QED
    BY <1>2, <2>1, <2>2, <2>3, <2>4 DEF Packed
<1>5. ASSUME NEW r \in Held(new)
      PROVE  r \in (Held(slot) \ {s}) \cup {t}
  <2>1. PICK q \in Place : new[q].used /\ new[q] = r
    BY <1>5 DEF Held, Used
  <2>2. CASE q = p
    BY <1>2, <2>1, <2>2
  <2>3. CASE q # p
    <3>1. slot[q].arg # slot[p].arg
      BY <1>1, <2>3 DEF Packed
    <3> QED
      BY <1>1, <1>2, <2>1, <2>3, <3>1 DEF Held, Used
  <2> QED
    BY <2>2, <2>3
<1>6. ASSUME NEW r \in Held(slot), r # s
      PROVE  r \in Held(new)
  <2>1. PICK q \in Place : slot[q].used /\ slot[q] = r
    BY <1>6 DEF Held, Used
  <2> QED
    BY <1>1, <1>2, <1>6, <2>1 DEF Held, Used
<1>7. t \in Held(new)
  BY <1>1, <1>2 DEF Held, Used
<1>8. Packed(slot') /\ Held(slot') = (Held(slot) \ {s}) \cup {t}
  BY <1>4, <1>5, <1>6, <1>7 DEF new
<1>9. \A r \in Held(slot) : StillShown(r)
  BY <1>8 DEF StillShown
<1> QED
  BY <1>8, <1>9

LEMMA SameSlots ==
  ASSUME IInv, UNCHANGED slot
  PROVE  /\ Packed(slot')
         /\ Held(slot') = Held(slot)
         /\ \A r \in Held(slot) : StillShown(r)
BY DEF IInv, StillShown

LEMMA StartStep ==
  ASSUME IInv, NEW d \in Load, Start(d)
  PROVE  IInv' /\ \A s \in Held(slot) : s.Bttn = "stop" => StillShown(s)
<1> DEFINE tab == Tidied.tab
           O   == open \ Tidied.closed
           S   == Held(tab)
<1>1. /\ Packed(tab)
      /\ S \subseteq Held(slot)
      /\ \A s \in Held(slot) : s.Bttn = "stop" => s \in S
      /\ Good(S, ldr, job, O, born)
  BY TidiedTable
<1>2. PICK p \in Free(tab) :
        \/ /\ slot' = Shown(tab, p, d, "stop", Nil)
           /\ ldr' = [ldr EXCEPT ![d] = [arg |-> tab[p].arg, conn |-> FALSE]]
           /\ job' = job \cup {<<"header", d>>}
           /\ open' = O
        \/ /\ slot' = Shown(tab, p, d, "stop", d)
           /\ job' = job \cup {<<"fsel", tab[p].arg>>}
           /\ open' = O \cup {d}
           /\ UNCHANGED ldr
        \/ /\ slot' = Shown(tab, p, d, "cancel", Nil)
           /\ open' = O
           /\ UNCHANGED <<ldr, job>>
  BY DEF Start
<1>3. d \notin born /\ born' = born \cup {d} /\ wind' = TRUE
  BY DEF Start
<1> HIDE DEF tab, O, S
<1> DEFINE t(text, src) ==
             [tab[p] EXCEPT !.used = TRUE, !.Bttn = text, !.Location = d,
                            !.Buffer = TRUE, !.Source = src]
<1>4. p \in Place /\ tab[p] \in Slots /\ ~tab[p].Target
  <2>1. p \in Place /\ ~tab[p].used
    BY DEF Free
  <2>2. tab[p] \in Slots /\ tab[p] = Hidden(tab[p])
    BY <1>1, <2>1 DEF Packed
  <2>3. ~Hidden(tab[p]).Target
    BY DEF Hidden, Idle
  <2> QED
    BY <2>1, <2>2, <2>3
<1>5. ASSUME NEW text \in Text, NEW src \in Load \cup {Nil}
      PROVE  /\ Shown(tab, p, d, text, src) = [tab EXCEPT ![p] = t(text, src)]
             /\ t(text, src) \in Slots /\ t(text, src).used
             /\ t(text, src).arg = tab[p].arg
             /\ t(text, src).Location = d /\ t(text, src).Buffer
             /\ ~t(text, src).Target
             /\ t(text, src).Bttn = text /\ t(text, src).Source = src
  <2>1. tab \in [Place -> Slots]
    BY <1>1 DEF Packed
  <2>2. Shown(tab, p, d, text, src) = [tab EXCEPT ![p] = t(text, src)]
    BY <1>4, <2>1 DEF Shown
  <2> QED
    BY <1>4, <2>2 DEF Slots
<1> HIDE DEF t
<1>6. ASSUME NEW text \in Text, NEW src \in Load \cup {Nil},
             slot' = Shown(tab, p, d, text, src)
      PROVE  /\ Packed(slot')
             /\ Held(slot') = S \cup {t(text, src)}
             /\ \A s \in S : s.arg # t(text, src).arg
  BY <1>1, <1>5, <1>6, AddedTable DEF S
<1>7. \E text \in Text : \E src \in Load \cup {Nil} :
        /\ slot' = Shown(tab, p, d, text, src)
        /\ Good(S \cup {t(text, src)}, ldr', job', open', born')
  <2>0. "stop" \in Text /\ "cancel" \in Text
    BY DEF Text
  <2>1. CASE /\ slot' = Shown(tab, p, d, "stop", Nil)
             /\ ldr' = [ldr EXCEPT ![d] = [arg |-> tab[p].arg, conn |-> FALSE]]
             /\ job' = job \cup {<<"header", d>>}
             /\ open' = O
    <3> DEFINE s == t("stop", Nil)
    <3>1. /\ s \in Slots /\ s.used /\ s.Location = d /\ s.Buffer /\ ~s.Target
          /\ s.Bttn = "stop" /\ s.Source = Nil
          /\ s.arg = tab[p].arg
          /\ \A r \in S : r.arg # s.arg
      BY <1>5, <1>6, <2>0, <2>1
    <3> HIDE DEF s
    <3>2. Good(S \cup {s}, ldr', job', open', born')
      BY <1>1, <1>3, <2>1, <3>1, Added
    <3> QED
      BY <2>0, <2>1, <3>2 DEF s
  <2>2. CASE /\ slot' = Shown(tab, p, d, "stop", d)
             /\ job' = job \cup {<<"fsel", tab[p].arg>>}
             /\ open' = O \cup {d}
             /\ UNCHANGED ldr
    <3> DEFINE s == t("stop", d)
    <3>1. /\ s \in Slots /\ s.used /\ s.Location = d /\ s.Buffer /\ ~s.Target
          /\ s.Bttn = "stop" /\ s.Source = d
          /\ s.arg = tab[p].arg
          /\ \A r \in S : r.arg # s.arg
      BY <1>5, <1>6, <2>0, <2>2
    <3> HIDE DEF s
    <3>2. Good(S \cup {s}, ldr', job', open', born')
      BY <1>1, <1>3, <2>2, <3>1, Added
    <3> QED
      BY <2>0, <2>2, <3>2 DEF s
  <2>3. CASE /\ slot' = Shown(tab, p, d, "cancel", Nil)
             /\ open' = O
             /\ UNCHANGED <<ldr, job>>
    <3> DEFINE s == t("cancel", Nil)
    <3>1. /\ s \in Slots /\ s.used /\ s.Location = d /\ s.Buffer /\ ~s.Target
          /\ s.Bttn = "cancel" /\ s.Source = Nil
          /\ s.arg = tab[p].arg
          /\ \A r \in S : r.arg # s.arg
      BY <1>5, <1>6, <2>0, <2>3
    <3> HIDE DEF s
    <3>2. Good(S \cup {s}, ldr', job', open', born')
      BY <1>1, <1>3, <2>3, <3>1, Added
    <3> QED
      BY <2>0, <2>3, <3>2 DEF s
  <2> QED
    BY <1>2, <2>1, <2>2, <2>3
<1>8. PICK s \in Slots : /\ Packed(slot')
                         /\ Held(slot') = S \cup {s}
                         /\ Good(S \cup {s}, ldr', job', open', born')
  BY <1>5, <1>6, <1>7
<1>9. IInv'
  BY <1>3, <1>8 DEF IInv
<1> QED
  BY <1>1, <1>8, <1>9 DEF StillShown

LEMMA StartFullStep ==
  ASSUME IInv, NEW d \in Load, StartFull(d)
  PROVE  IInv' /\ \A s \in Held(slot) : s.Bttn = "stop" => StillShown(s)
<1>1. /\ Packed(slot)
      /\ Good(Held(slot), ldr, job, open, born)
      /\ wind \in BOOLEAN
  BY DEF IInv
<1>2. PICK tab, O :
        /\ Packed(tab)
        /\ \A s \in Held(slot) : s.Bttn = "stop" => s \in Held(tab)
        /\ Good(Held(tab), ldr, job, O, born)
        /\ slot' = tab /\ open' = O
  <2>1. CASE UNCHANGED <<slot, open>>
    BY <1>1, <2>1
  <2>2. CASE slot' = Tidied.tab /\ open' = open \ Tidied.closed
    BY <2>2, TidiedTable
  <2> QED
    BY <2>1, <2>2 DEF StartFull
<1>3. born' = born \cup {d} /\ ldr' = ldr /\ job' = job /\ wind' = wind
  BY DEF StartFull
<1>4. Good(Held(slot'), ldr', job', open', born')
  BY <1>2, <1>3 DEF Good, Typed, LoadersServed, Connected
<1>5. IInv'
  BY <1>1, <1>2, <1>3, <1>4 DEF IInv
<1> QED
  BY <1>2, <1>5 DEF StillShown

LEMMA HeaderStep ==
  ASSUME IInv, NEW d \in Load, Header(d)
  PROVE  IInv' /\ \A s \in Held(slot) : StillShown(s)
<1> DEFINE S == Held(slot)
<1>1. /\ Typed(S, ldr, job, open, born)
      /\ LoadersServed(S, ldr, job, born)
      /\ SlotsServed(S, job)
      /\ LoaderOrJob(ldr, job)
      /\ Stoppable(S, ldr, job)
      /\ Connected(S, ldr, open, born)
      /\ wind \in BOOLEAN
  BY DEF IInv, Good
<1>2. PICK conn \in BOOLEAN :
        /\ ldr' = [ldr EXCEPT ![d].conn = conn]
        /\ open' = IF conn THEN open \cup {d} ELSE open
  BY DEF Header
<1>3. /\ <<"header", d>> \in job
      /\ job' = (job \ {<<"header", d>>}) \cup {<<"conn", d>>}
      /\ UNCHANGED <<slot, born, wind>>
  BY DEF Header
<1>4. /\ Packed(slot')
      /\ Held(slot') = S
      /\ \A s \in S : StillShown(s)
  BY <1>3, SameSlots
<1> HIDE DEF S
<1>5. ldr[d] # Nil /\ ~ldr[d].conn /\ <<"conn", d>> \notin job
  BY <1>1, <1>3 DEF LoadersServed
<1>6. ldr[d] \in Loaders
  BY <1>1, <1>5 DEF Typed
<1>7. /\ ldr' \in [Load -> Loaders \cup {Nil}]
      /\ \A c \in Load : c # d => ldr'[c] = ldr[c]
      /\ ldr'[d] \in Loaders /\ ldr'[d].arg = ldr[d].arg /\ ldr'[d].conn = conn
  BY <1>1, <1>2, <1>6 DEF Typed, Loaders
<1>8. /\ ldr'[d] # Nil
      /\ \A c \in Load : /\ ldr'[c] # Nil <=> ldr[c] # Nil
                         /\ ldr[c] # Nil => ldr'[c].arg = ldr[c].arg
  BY <1>5, <1>7, NilAssumption
<1>9. /\ \A f \in SlotJobs : \A a \in Arg : <<f, a>> \in job' <=> <<f, a>> \in job
      /\ \A c \in Load : c # d =>
           /\ <<"header", c>> \in job' <=> <<"header", c>> \in job
           /\ <<"conn", c>> \in job' <=> <<"conn", c>> \in job
      /\ <<"header", d>> \notin job' /\ <<"conn", d>> \in job'
  BY <1>3 DEF SlotJobs
<1>10. Typed(S, ldr', job', open', born')
  BY <1>1, <1>2, <1>3, <1>7 DEF Typed, LoaderJobs
<1>11. LoadersServed(S, ldr', job', born')
  <2> SUFFICES ASSUME NEW c \in Load
               PROVE  /\ ldr'[c] # Nil <=> \/ <<"header", c>> \in job'
                                           \/ <<"conn", c>> \in job'
                      /\ <<"header", c>> \in job' => /\ <<"conn", c>> \notin job'
                                                     /\ ~ldr'[c].conn
                      /\ ldr'[c] # Nil =>
                           c \in born' /\ \E s \in S : Awaits(s, c, ldr'[c].arg)
    BY DEF LoadersServed
  <2>1. CASE c = d
    BY <1>1, <1>3, <1>5, <1>8, <1>9, <2>1 DEF LoadersServed
  <2>2. CASE c # d
    BY <1>1, <1>3, <1>7, <1>9, <2>2 DEF LoadersServed
  <2> QED
    BY <2>1, <2>2
<1>12. SlotsServed(S, job')
  BY <1>1, <1>9 DEF SlotsServed
<1>13. LoaderOrJob(ldr', job')
  BY <1>1, <1>8, <1>9 DEF LoaderOrJob
<1>14. Stoppable(S, ldr', job')
  <2> SUFFICES ASSUME NEW s \in S, s.Bttn = "stop", Idles(s, ldr', job')
               PROVE  s.Buffer /\ ~s.Target
    BY DEF Stoppable
  <2>1. s.arg \in Arg
    BY <1>1 DEF Typed, Slots
  <2>2. Idles(s, ldr, job)
    BY <1>8, <1>9, <2>1 DEF Idles
  <2> QED
    BY <1>1, <2>2 DEF Stoppable
<1>15. Connected(S, ldr', open', born')
  <2>1. \A s, t \in S : s.Source = t.Source /\ s.Source # Nil => s = t
    BY <1>1 DEF Connected
  <2>2. \A s \in S : s.Source # Nil => s.Source \in born' /\ ldr'[s.Source] = Nil
    <3> SUFFICES ASSUME NEW s \in S, s.Source # Nil
                 PROVE  s.Source \in born' /\ ldr'[s.Source] = Nil
      OBVIOUS
    <3>1. s.Source \in Load
      BY <1>1 DEF Typed, Slots
    <3> QED
      BY <1>1, <1>3, <1>8, <3>1 DEF Connected
  <2>3. ASSUME NEW c \in Load
        PROVE  c \in open' <=> \/ \E s \in S : s.Source = c
                               \/ ldr'[c] # Nil /\ ldr'[c].conn
    <3>1. CASE c = d
      <4>1. c # Nil
        BY LoadAssumption
      <4>2. \A s \in S : s.Source # c
        BY <1>1, <1>5, <3>1, <4>1 DEF Connected
      <4>3. c \notin open
        BY <1>1, <1>5, <3>1, <4>2 DEF Connected
      <4> QED
        BY <1>2, <1>7, <1>8, <3>1, <4>2, <4>3
    <3>2. CASE c # d
      <4>1. c \in open' <=> c \in open
        BY <1>2, <3>2
      <4> QED
        BY <1>1, <1>7, <3>2, <4>1 DEF Connected
    <3> QED
      BY <3>1, <3>2
  <2> QED
    BY <2>1, <2>2, <2>3 DEF Connected
<1>16. Good(S, ldr', job', open', born')
  BY <1>10, <1>11, <1>12, <1>13, <1>14, <1>15 DEF Good
<1>17. IInv'
  BY <1>1, <1>3, <1>4, <1>16 DEF IInv
<1> QED
  BY <1>4, <1>17 DEF S

\* The slot that a loader, or a job, finds with slot_byArg()
LEMMA AwaitedSlot ==
  ASSUME IInv, NEW d \in Load, NEW f \in LoaderJobs, <<f, d>> \in job
  PROVE  /\ ldr[d] # Nil
         /\ ldr[d].conn \in BOOLEAN
         /\ f = "header" => ~ldr[d].conn
         /\ \E s \in Held(slot) :
              /\ Awaits(s, d, ldr[d].arg)
              /\ s \in Slots
              /\ ByArg(ldr[d].arg) \in Place
              /\ slot[ByArg(ldr[d].arg)] = s
<1>1. Packed(slot) /\ Good(Held(slot), ldr, job, open, born)
  BY DEF IInv
<1>2. f = "header" \/ f = "conn"
  BY DEF LoaderJobs
<1>3. ldr[d] # Nil /\ (f = "header" => ~ldr[d].conn)
  BY <1>1, <1>2 DEF Good, LoadersServed
<1>4. ldr[d].conn \in BOOLEAN
  BY <1>1, <1>3 DEF Good, Typed, Loaders
<1>5. PICK s \in Held(slot) : Awaits(s, d, ldr[d].arg)
  BY <1>1, <1>3 DEF Good, LoadersServed
<1>6. s \in Slots
  BY <1>1 DEF Good, Typed
<1>7. ByArg(s.arg) \in Place /\ slot[ByArg(s.arg)] = s
  BY <1>1, ByArgFinds
<1>8. s.arg = ldr[d].arg
  BY <1>5 DEF Awaits
<1> QED
  BY <1>3, <1>4, <1>5, <1>6, <1>7, <1>8

LEMMA ServedSlot ==
  ASSUME IInv, NEW a \in Arg, NEW f \in SlotJobs, <<f, a>> \in job
  PROVE  \E s \in Held(slot) :
           /\ Serves(s, f, a)
           /\ s \in Slots
           /\ ByArg(a) \in Place
           /\ slot[ByArg(a)] = s
<1>1. Packed(slot) /\ Good(Held(slot), ldr, job, open, born)
  BY DEF IInv
<1>2. PICK s \in Held(slot) : Serves(s, f, a)
  BY <1>1 DEF Good, SlotsServed
<1>3. s \in Slots
  BY <1>1 DEF Good, Typed
<1>4. ByArg(s.arg) \in Place /\ slot[ByArg(s.arg)] = s
  BY <1>1, ByArgFinds
<1>5. s.arg = a
  BY <1>2 DEF Serves
<1> QED
  BY <1>2, <1>3, <1>4, <1>5

LEMMA HeaderFailsStep ==
  ASSUME IInv, NEW d \in Load, HeaderFails(d)
  PROVE  IInv' /\ \A s \in Held(slot) : StillShown(s)
<1> DEFINE p == ByArg(ldr[d].arg)
<1>1. /\ <<"header", d>> \in job
      /\ job' = job \ {<<"header", d>>}
      /\ slot' = [slot EXCEPT ![p].Bttn = "cancel"]
      /\ ldr' = [ldr EXCEPT ![d] = Nil]
      /\ UNCHANGED <<open, born, wind>>
  BY DEF HeaderFails
<1>2. "header" \in LoaderJobs
  BY DEF LoaderJobs
<1>3. PICK s \in Held(slot) :
        /\ Awaits(s, d, ldr[d].arg)
        /\ s \in Slots
        /\ p \in Place
        /\ slot[p] = s
  BY <1>1, <1>2, AwaitedSlot
<1> DEFINE t == [s EXCEPT !.Bttn = "cancel"]
<1>4. s.arg = ldr[d].arg /\ s.Source = Nil /\ s.Location = d
  BY <1>3 DEF Awaits
<1>5. slot' = [slot EXCEPT ![ByArg(s.arg)] = t]
  BY <1>1, <1>3, <1>4
<1>6. s.used /\ wind \in BOOLEAN /\ Good(Held(slot), ldr, job, open, born)
  BY DEF IInv, Good, Typed
<1>7. /\ t \in Slots /\ t.used /\ t.arg = s.arg /\ t.Location = s.Location
      /\ t.Source = Nil /\ t.Bttn # "stop"
  BY <1>3, <1>4, <1>6 DEF Slots, Text
<1> HIDE DEF t, p
<1>8. /\ Packed(slot')
      /\ Held(slot') = (Held(slot) \ {s}) \cup {t}
      /\ \A r \in Held(slot) : StillShown(r)
  BY <1>5, <1>7, ChangedSlot
<1>9. Good((Held(slot) \ {s}) \cup {t}, ldr', job', open, born)
  BY <1>1, <1>2, <1>3, <1>6, <1>7, LoaderDone
<1>10. IInv'
  BY <1>1, <1>6, <1>8, <1>9 DEF IInv
<1> QED
  BY <1>8, <1>10

LEMMA ConnStep ==
  ASSUME IInv, NEW d \in Load, Conn(d)
  PROVE  IInv' /\ \A s \in Held(slot) : StillShown(s)
<1> DEFINE p == ByArg(ldr[d].arg)
<1>1. PICK rest \in BOOLEAN :
        slot' = [slot EXCEPT ![p].Location = d,
                             ![p].Source = IF ldr[d].conn THEN d ELSE Nil,
                             ![p].Blck = rest]
  BY DEF Conn
<1>2. /\ <<"conn", d>> \in job
      /\ job' = (job \ {<<"conn", d>>}) \cup {<<"fsel", slot[p].arg>>}
      /\ ldr' = [ldr EXCEPT ![d] = Nil]
      /\ UNCHANGED <<open, born, wind>>
  BY DEF Conn
<1>3. "conn" \in LoaderJobs
  BY DEF LoaderJobs
<1>4. PICK s \in Held(slot) :
        /\ Awaits(s, d, ldr[d].arg)
        /\ s \in Slots
        /\ p \in Place
        /\ slot[p] = s
  BY <1>2, <1>3, AwaitedSlot
<1> DEFINE src == IF ldr[d].conn THEN d ELSE Nil
           t == [s EXCEPT !.Location = d, !.Source = src, !.Blck = rest]
<1>5. s.arg = ldr[d].arg /\ s.Location = d /\ s.Bttn = "stop" /\ s.Buffer /\ ~s.Target
  BY <1>4 DEF Awaits
<1>6. slot \in [Place -> Slots]
  BY DEF IInv, Packed
<1>7. slot' = [slot EXCEPT ![ByArg(s.arg)] = t]
  BY <1>1, <1>4, <1>5, <1>6
<1>8. s.used /\ wind \in BOOLEAN /\ Good(Held(slot), ldr, job, open, born)
  BY DEF IInv, Good, Typed
<1>9. /\ t \in Slots /\ t.used /\ t.arg = s.arg /\ t.Location = s.Location
      /\ t.Source = src /\ Serves(t, "fsel", s.arg)
  <2>1. src \in Load \cup {Nil}
    OBVIOUS
  <2> HIDE DEF src
  <2> QED
    BY <1>4, <1>5, <1>8, <2>1 DEF Slots, Serves
<1>10. t.Source = IF ldr[d].conn THEN d ELSE Nil
  BY <1>9
<1>11. job' = (job \ {<<"conn", d>>}) \cup {<<"fsel", s.arg>>}
  BY <1>2, <1>4
<1> HIDE DEF t, p, src
<1>12. /\ Packed(slot')
       /\ Held(slot') = (Held(slot) \ {s}) \cup {t}
       /\ \A r \in Held(slot) : StillShown(r)
  BY <1>7, <1>9, ChangedSlot
<1>13. Good((Held(slot) \ {s}) \cup {t}, ldr', job', open, born)
  BY <1>2, <1>3, <1>4, <1>8, <1>9, <1>10, <1>11, LoaderDone
<1>14. IInv'
  BY <1>2, <1>8, <1>12, <1>13 DEF IInv
<1> QED
  BY <1>12, <1>14

LEMMA WorkedStep ==
  ASSUME IInv, NEW f \in SlotJobs, NEW a \in Arg, <<f, a>> \in job,
         NEW s \in Held(slot), Serves(s, f, a),
         NEW t \in Slots, t.used, t.arg = a, t.Location = s.Location,
         slot' = [slot EXCEPT ![ByArg(a)] = t],
         \/ job' = job \ {<<f, a>>} /\ (t.Bttn = "stop" => t.Buffer /\ ~t.Target)
         \/ \E g \in SlotJobs : /\ job' = (job \ {<<f, a>>}) \cup {<<g, a>>}
                                /\ Serves(t, g, a),
         \/ t.Source = s.Source /\ open' = open
         \/ t.Source = Nil /\ open' = open \ {s.Source},
         UNCHANGED <<ldr, born, wind>>
  PROVE  IInv' /\ \A r \in Held(slot) : StillShown(r)
<1>1. s.arg = a
  BY DEF Serves
<1>2. wind \in BOOLEAN /\ Good(Held(slot), ldr, job, open, born)
  BY DEF IInv
<1>3. /\ Packed(slot')
      /\ Held(slot') = (Held(slot) \ {s}) \cup {t}
      /\ \A r \in Held(slot) : StillShown(r)
  BY <1>1, ChangedSlot
<1>4. Good((Held(slot) \ {s}) \cup {t}, ldr, job', open', born)
  BY <1>2, Worked
<1>5. IInv'
  BY <1>2, <1>3, <1>4 DEF IInv
<1> QED
  BY <1>3, <1>5

\* The actions of the jobs of a slot that leave it where it is
Serve(a) ==
  \/ Chooses(a) \/ ChoosesBad(a)
  \/ Receive(a) \/ ReceiveLast(a) \/ ReceiveEnd(a) \/ LoadEnd(a)

LEMMA ServeStep ==
  ASSUME IInv, NEW a \in Arg, Serve(a)
  PROVE  IInv' /\ \A r \in Held(slot) : StillShown(r)
<1> DEFINE p == ByArg(a)
<1>0. "fsel" \in SlotJobs /\ "recv" \in SlotJobs /\ "load" \in SlotJobs
  BY DEF SlotJobs
<1>1. slot \in [Place -> Slots] /\ \A s \in Held(slot) : s.used
  BY DEF IInv, Packed, Good, Typed
<1>2. CASE Chooses(a)
  <2>1. PICK s \in Held(slot) :
          Serves(s, "fsel", a) /\ s \in Slots /\ p \in Place /\ slot[p] = s
    BY <1>0, <1>2, ServedSlot DEF Chooses
  <2> DEFINE t == [s EXCEPT !.Target = TRUE]
             g == IF s.Location \in Remote THEN "recv" ELSE "load"
  <2>2. slot' = [slot EXCEPT ![p] = t]
    BY <1>1, <1>2, <2>1 DEF Chooses
  <2>3. /\ t \in Slots /\ t.used /\ t.arg = a /\ t.Location = s.Location
        /\ t.Source = s.Source
    BY <1>1, <2>1 DEF Slots, Serves
  <2>4. g \in SlotJobs /\ g # "fsel"
    BY DEF SlotJobs
  <2>5. t.Bttn = "stop" /\ t.Buffer /\ t.Target = TRUE
    BY <2>1 DEF Slots, Serves
  <2>6. /\ <<"fsel", a>> \in job
        /\ job' = (job \ {<<"fsel", a>>}) \cup {<<g, a>>}
        /\ UNCHANGED <<ldr, open, born, wind>>
    BY <1>2, <2>1 DEF Chooses
  <2> HIDE DEF t, g, p
  <2>7. Serves(t, g, a)
    BY <2>3, <2>4, <2>5 DEF Serves
  <2> QED
    BY <1>0, <2>1, <2>2, <2>3, <2>4, <2>6, <2>7, WorkedStep DEF p
<1>3. CASE ChoosesBad(a)
  <2>1. PICK s \in Held(slot) :
          Serves(s, "fsel", a) /\ s \in Slots /\ p \in Place /\ slot[p] = s
    BY <1>0, <1>3, ServedSlot DEF ChoosesBad
  <2>2. slot' = [slot EXCEPT ![p] = s]
    BY <1>1, <1>3, <2>1 DEF ChoosesBad
  <2>3. s.used /\ s.arg = a /\ s.Buffer /\ ~s.Target
    BY <1>1, <2>1 DEF Serves
  <2>4. /\ <<"fsel", a>> \in job
        /\ job' = job \ {<<"fsel", a>>}
        /\ UNCHANGED <<ldr, open, born, wind>>
    BY <1>3 DEF ChoosesBad
  <2> HIDE DEF p
  <2> QED
    BY <1>0, <2>1, <2>2, <2>3, <2>4, WorkedStep DEF p
<1>4. CASE Receive(a)
  <2>1. PICK s \in Held(slot) :
          Serves(s, "recv", a) /\ s \in Slots /\ p \in Place /\ slot[p] = s
    BY <1>0, <1>4, ServedSlot DEF Receive
  <2>2. PICK rest \in BOOLEAN : slot' = [slot EXCEPT ![p].Blck = rest]
    BY <1>4 DEF Receive
  <2> DEFINE t == [s EXCEPT !.Blck = rest]
  <2>3. slot' = [slot EXCEPT ![p] = t]
    BY <1>1, <2>1, <2>2
  <2>4. /\ t \in Slots /\ t.used /\ t.arg = a /\ t.Location = s.Location
        /\ t.Source = s.Source /\ Serves(t, "recv", a)
    BY <1>1, <2>1 DEF Slots, Serves
  <2>5. /\ <<"recv", a>> \in job
        /\ job' = (job \ {<<"recv", a>>}) \cup {<<"recv", a>>}
        /\ UNCHANGED <<ldr, open, born, wind>>
    BY <1>4 DEF Receive
  <2> HIDE DEF t, p
  <2> QED
    BY <1>0, <2>1, <2>3, <2>4, <2>5, WorkedStep DEF p
<1>5. CASE ReceiveLast(a)
  <2>1. PICK s \in Held(slot) :
          Serves(s, "recv", a) /\ s \in Slots /\ p \in Place /\ slot[p] = s
    BY <1>0, <1>5, ServedSlot DEF ReceiveLast
  <2> DEFINE t == [s EXCEPT !.Source = Nil, !.Blck = TRUE]
  <2>2. slot' = [slot EXCEPT ![p] = t]
    BY <1>1, <1>5, <2>1 DEF ReceiveLast
  <2>3. /\ t \in Slots /\ t.used /\ t.arg = a /\ t.Location = s.Location
        /\ t.Source = Nil /\ Serves(t, "recv", a)
    BY <1>1, <2>1 DEF Slots, Serves
  <2>4. /\ <<"recv", a>> \in job
        /\ job' = (job \ {<<"recv", a>>}) \cup {<<"recv", a>>}
        /\ open' = open \ {s.Source}
        /\ UNCHANGED <<ldr, born, wind>>
    BY <1>5, <2>1 DEF ReceiveLast
  <2> HIDE DEF t, p
  <2> QED
    BY <1>0, <2>1, <2>2, <2>3, <2>4, WorkedStep DEF p
<1>6. ASSUME NEW f \in {"recv", "load"}, NEW text \in {"ok", "cancel"},
             <<f, a>> \in job,
             slot' = [Saved(a) EXCEPT ![p].Bttn = text],
             open' = open \ {slot[p].Source},
             job' = job \ {<<f, a>>},
             UNCHANGED <<ldr, born, wind>>
      PROVE  IInv' /\ \A r \in Held(slot) : StillShown(r)
  <2>0. f \in SlotJobs
    BY DEF SlotJobs
  <2>1. PICK s \in Held(slot) :
          Serves(s, f, a) /\ s \in Slots /\ p \in Place /\ slot[p] = s
    BY <1>6, <2>0, ServedSlot
  <2> DEFINE t == [s EXCEPT !.Source = Nil, !.Blck = FALSE, !.Target = FALSE,
                            !.Buffer = FALSE, !.Bttn = text]
  <2>2. slot' = [slot EXCEPT ![p] = t]
    BY <1>1, <1>6, <2>1 DEF Saved
  <2>3. /\ t \in Slots /\ t.used /\ t.arg = a /\ t.Location = s.Location
        /\ t.Source = Nil /\ t.Bttn # "stop"
    BY <1>1, <2>1 DEF Slots, Serves, Text
  <2>4. open' = open \ {s.Source}
    BY <1>6, <2>1
  <2>5. job' = job \ {<<f, a>>} /\ (t.Bttn = "stop" => t.Buffer /\ ~t.Target)
    BY <1>6, <2>3
  <2>6. /\ <<f, a>> \in job /\ s \in Held(slot) /\ Serves(s, f, a)
        /\ slot' = [slot EXCEPT ![ByArg(a)] = t]
        /\ t \in Slots /\ t.used /\ t.arg = a /\ t.Location = s.Location
        /\ t.Source = Nil /\ open' = open \ {s.Source}
        /\ UNCHANGED <<ldr, born, wind>>
    BY <1>6, <2>1, <2>2, <2>3, <2>4
  <2> HIDE DEF t, p
  <2> HIDE <1>6
  <2> QED
    BY <2>0, <2>5, <2>6, WorkedStep
<1>7. CASE ReceiveEnd(a)
  BY <1>6, <1>7 DEF ReceiveEnd
<1>8. CASE LoadEnd(a)
  BY <1>6, <1>8 DEF LoadEnd
<1> QED
  BY <1>2, <1>3, <1>4, <1>5, <1>7, <1>8 DEF Serve

\* A slot is removed, with its jobs; no loader works for it.
LEMMA DroppedStep ==
  ASSUME IInv, NEW s \in Held(slot), NEW p \in Place, slot[p] = s,
         \A d \in Load : ldr[d] # Nil => ldr[d].arg # s.arg,
         slot' = Removed(slot, p),
         job' = job \ (SlotJobs \X {s.arg}),
         open' = open \ {s.Source},
         wind' \in BOOLEAN,
         UNCHANGED <<ldr, born>>
  PROVE  IInv' /\ \A r \in Held(slot) : r # s => StillShown(r)
<1> DEFINE S == Held(slot)
           S2 == Held(slot) \ {s}
<1>1. Packed(slot) /\ Good(S, ldr, job, open, born)
  BY DEF IInv
<1>2. slot[p].used
  BY <1>1 DEF Good, Typed
<1>3. Packed(slot') /\ Held(slot') = S2
  BY <1>1, <1>2, RemovedPacked, RemovedPlaces
<1>4. S \ S2 = {s} /\ S2 \subseteq S
  OBVIOUS
<1>5. {r.arg : r \in S \ S2} = {s.arg} /\ {r.Source : r \in S \ S2} = {s.Source}
  BY <1>4
<1>6. \A r \in S \ S2 : \A d \in Load : ldr[d] # Nil => ldr[d].arg # r.arg
  BY <1>4
<1> HIDE DEF S, S2
<1>7. Good(S2, ldr, job', open', born)
  BY <1>1, <1>4, <1>5, <1>6, Dropped
<1>8. IInv'
  BY <1>3, <1>7 DEF IInv
<1> QED
  BY <1>3, <1>8 DEF StillShown, S2

LEMMA ChoosesNoneStep ==
  ASSUME IInv, NEW a \in Arg, ChoosesNone(a)
  PROVE  IInv' /\ \A r \in Held(slot) : r.arg # a => StillShown(r)
<1>1. /\ <<"fsel", a>> \in job
      /\ job' = job \ {<<"fsel", a>>}
      /\ slot' = Removed(slot, ByArg(a))
      /\ open' = open \ {slot[ByArg(a)].Source}
      /\ UNCHANGED <<ldr, born, wind>>
  BY DEF ChoosesNone
<1>2. "fsel" \in SlotJobs
  BY DEF SlotJobs
<1>3. PICK s \in Held(slot) : /\ Serves(s, "fsel", a)
                              /\ ByArg(a) \in Place
                              /\ slot[ByArg(a)] = s
  BY <1>1, <1>2, ServedSlot
<1>4. s.arg = a
  BY <1>3 DEF Serves
<1>5. /\ \A d \in Load : ldr[d] # Nil => ldr[d].arg # a
      /\ \A f \in SlotJobs : <<f, a>> \in job => f = "fsel"
  BY <1>1, <1>2 DEF IInv, Good, LoaderOrJob, SlotsServed
<1>6. job' = job \ (SlotJobs \X {a})
  BY <1>1, <1>2, <1>5
<1>7. wind' \in BOOLEAN
  BY <1>1 DEF IInv
<1>8. IInv' /\ \A r \in Held(slot) : r # s => StillShown(r)
  BY <1>1, <1>3, <1>4, <1>5, <1>6, <1>7, DroppedStep
<1> QED
  BY <1>4, <1>8

LEMMA ButtonStep ==
  ASSUME ~Hasty, IInv, NEW p \in Place, Button(p)
  PROVE  IInv' /\ \A r \in Held(slot) : r # slot[p] => StillShown(r)
<1>1. /\ slot[p].used
      /\ ~Connecting(slot[p])
      /\ job' = Clear(slot[p].arg)
      /\ slot' = Removed(slot, p)
      /\ open' = open \ {slot[p].Source}
      /\ wind' = (Used(slot') # {})
      /\ UNCHANGED <<ldr, born>>
  BY DEF Button
<1>2. slot[p] \in Held(slot)
  BY <1>1 DEF Held, Used
<1>3. \A d \in Load : ldr[d] # Nil => ldr[d].arg # slot[p].arg
  BY <1>1 DEF Connecting
<1>4. job' = job \ (SlotJobs \X {slot[p].arg})
  BY <1>1 DEF Clear
<1>5. wind' \in BOOLEAN
  BY <1>1
<1> QED
  BY <1>1, <1>2, <1>3, <1>4, <1>5, DroppedStep

LEMMA CloseStep ==
  ASSUME ~Hasty, IInv, Close
  PROVE  /\ IInv'
         /\ \A r \in Held(slot) : ~Idles(r, ldr, job) => StillShown(r)
<1> DEFINE gone == {slot[p].arg : p \in {q \in Place : Unused(slot[q])}}
           r == RemoveAll(slot, gone)
           S == Held(slot)
           S2 == Held(r.tab)
<1>1. /\ \A p \in Used(slot) : Unused(slot[p]) => ~Working(slot[p])
      /\ slot' = r.tab
      /\ open' = open \ r.closed
      /\ wind' \in BOOLEAN
      /\ UNCHANGED <<ldr, job, born>>
  BY DEF Close
<1>2. Packed(slot) /\ Good(S, ldr, job, open, born)
  BY DEF IInv
<1>3. /\ Packed(r.tab)
      /\ S2 = {s \in S : s.arg \notin gone}
      /\ r.closed = {s.Source : s \in {t \in S : t.arg \in gone}}
  <2> HIDE DEF gone
  <2> QED
    BY <1>2, RemovedAll
<1>4. \A s \in S : s.arg \in gone => Idles(s, ldr, job)
  <2> SUFFICES ASSUME NEW s \in S, NEW q \in Place,
                      Unused(slot[q]), s.arg = slot[q].arg
               PROVE  Idles(s, ldr, job)
    OBVIOUS
  <2>1. s = slot[q] /\ slot[q].used
    BY <1>2 DEF Held, Used, Packed
  <2>2. ~Working(s)
    BY <1>1, <2>1 DEF Used
  <2> QED
    BY <2>2 DEF Working, Connecting, Idles
<1> HIDE DEF gone, r, S, S2
<1>5. S2 \subseteq S /\ S \ S2 = {t \in S : t.arg \in gone}
  BY <1>3
<1>6. \A s \in S \ S2 : Idles(s, ldr, job)
  BY <1>4, <1>5
<1>7. /\ \A s \in S \ S2 : \A d \in Load : ldr[d] # Nil => ldr[d].arg # s.arg
      /\ job' = job \ (SlotJobs \X {s.arg : s \in S \ S2})
  BY <1>1, <1>6 DEF Idles
<1>8. open' = open \ {s.Source : s \in S \ S2}
  BY <1>1, <1>3, <1>5
<1>9. Good(S2, ldr, job', open', born)
  BY <1>2, <1>5, <1>7, <1>8, Dropped
<1>10. IInv'
  BY <1>1, <1>3, <1>9 DEF IInv, S2
<1>11. \A s \in S : ~Idles(s, ldr, job) => s \in S2
  BY <1>5, <1>6
<1> QED
  BY <1>1, <1>10, <1>11 DEF StillShown, S, S2

LEMMA InvInit == Init => IInv
<1> SUFFICES ASSUME Init
             PROVE  IInv
  OBVIOUS
<1> USE SlotsAssumption
<1>1. \A p \in Place : Idle(p) \in Slots /\ Idle(p).arg = p /\ ~Idle(p).used
  BY DEF Place, Arg, Idle, Slots, Text
<1>2. slot \in [Place -> Slots] /\ \A p \in Place : slot[p] = Idle(p)
  BY <1>1 DEF Init
<1>3. \A p \in Place : slot[p] = Hidden(slot[p])
  <2>1. \A a : Hidden(Idle(a)) = Idle(a)
    BY DEF Hidden, Idle
  <2> QED
    BY <1>2, <2>1
<1>4. Packed(slot)
  BY <1>1, <1>2, <1>3 DEF Packed, Place, Arg
<1>5. Held(slot) = {}
  BY <1>1, <1>2 DEF Held, Used
<1>6. /\ ldr \in [Load -> Loaders \cup {Nil}] /\ \A d \in Load : ldr[d] = Nil
      /\ job = {} /\ open = {} /\ born = {} /\ wind = FALSE
  BY DEF Init
<1>7. Good({}, ldr, job, open, born)
  BY <1>6 DEF Good, Typed, LoadersServed, SlotsServed, LoaderOrJob, Stoppable,
              Connected
<1> QED
  BY <1>4, <1>5, <1>6, <1>7 DEF IInv

\* Every step keeps the invariant, and every download where the user sees it.
LEMMA InvStep ==
  ASSUME ~Hasty, IInv, [Next]_vars
  PROVE  IInv' /\ [Stays]_vars
<1>1. ASSUME NEW p \in Place, slot[p].used, NEW q \in Place, slot[q].used,
             StillShown(slot[p])
      PROVE  \E r \in Place : /\ slot'[r].used
                              /\ slot'[r].Location = slot[p].Location
  BY <1>1 DEF StillShown, Held, Used
<1>2. ASSUME \A r \in Held(slot) : r.Bttn = "stop" => StillShown(r)
      PROVE  Stays
  BY <1>1, <1>2 DEF Stays, Held, Used
<1>3. CASE UNCHANGED vars
  <2>1. UNCHANGED <<slot, ldr, job, open, born, wind>>
    BY <1>3 DEF vars
  <2>2. IInv'
    BY <2>1 DEF IInv
  <2> QED
    BY <1>3, <2>2
<1>4. CASE LoaderJob
  BY <1>2, <1>4, HeaderStep, HeaderFailsStep, ConnStep DEF LoaderJob
<1>5. ASSUME NEW a \in Arg, Serve(a)
      PROVE  IInv' /\ Stays
  BY <1>2, <1>5, ServeStep
<1>6. ASSUME NEW a \in Arg, ChoosesNone(a)
      PROVE  IInv' /\ Stays
  <2>1. IInv' /\ \A r \in Held(slot) : r.arg # a => StillShown(r)
    BY <1>6, ChoosesNoneStep
  <2>2. \A p \in Place : slot[p].used => slot[p] \in Held(slot)
    BY DEF Held, Used
  <2> QED
    BY <1>1, <1>6, <2>1, <2>2 DEF Stays
<1>7. CASE SlotJob
  BY <1>5, <1>6, <1>7 DEF SlotJob, Serve
<1>8. ASSUME NEW d \in Load, Start(d)
      PROVE  IInv' /\ Stays
  BY <1>2, <1>8, StartStep
<1>9. ASSUME NEW d \in Load, StartFull(d)
      PROVE  IInv' /\ Stays
  BY <1>2, <1>9, StartFullStep
<1>10. ASSUME NEW p \in Place, Button(p)
       PROVE  IInv' /\ Stays
  <2>1. IInv' /\ \A r \in Held(slot) : r # slot[p] => StillShown(r)
    BY <1>10, ButtonStep
  <2>2. \A q \in Place : slot[q].used => slot[q] \in Held(slot)
    BY DEF Held, Used
  <2>3. \A q \in Place : slot[q] = slot[p] => q = p
    BY DEF IInv, Packed
  <2> QED
    BY <1>1, <1>10, <2>1, <2>2, <2>3 DEF Stays
<1>11. ASSUME Close
       PROVE  IInv' /\ Stays
  <2>1. IInv' /\ \A r \in Held(slot) : ~Idles(r, ldr, job) => StillShown(r)
    BY <1>11, CloseStep
  <2>2. \A q \in Place : slot[q].used => slot[q] \in Held(slot)
    BY DEF Held, Used
  <2>3. \A q \in Place : Working(slot[q]) => ~Idles(slot[q], ldr, job)
    BY DEF Working, Connecting, Idles
  <2> QED
    BY <1>1, <2>1, <2>2, <2>3 DEF Stays
<1>12. CASE User
  BY <1>8, <1>9, <1>10, <1>11, <1>12 DEF User
<1> QED
  BY <1>3, <1>4, <1>7, <1>12 DEF Next

LEMMA Invariant == ~Hasty => (Spec => []IInv)
<1> SUFFICES ASSUME ~Hasty
             PROVE  Spec => []IInv
  OBVIOUS
<1>1. IInv /\ [Next]_vars => IInv'
  BY InvStep
<1> QED
  BY <1>1, InvInit, PTL DEF Spec

LEMMA OwnSlotHolds == IInv => OwnSlot
<1> SUFFICES ASSUME IInv
             PROVE  OwnSlot
  OBVIOUS
<1>1. Packed(slot) /\ Good(Held(slot), ldr, job, open, born) /\ wind \in BOOLEAN
  BY DEF IInv
<1>2. TypeOK
  BY <1>1 DEF Packed, Good, Typed, TypeOK
<1>3. Compact
  <2>1. \A p \in Place : slot[p].used => \A q \in 1 .. p : slot[q].used
    <3> SUFFICES ASSUME NEW p \in Place, slot[p].used, NEW q \in 1 .. p
                 PROVE  slot[q].used
      OBVIOUS
    <3>1. q \in Place /\ (q = p \/ q < p)
      BY SlotsAssumption DEF Place
    <3> QED
      BY <1>1, <3>1 DEF Packed
  <2> QED
    BY <1>1, <1>2, <2>1 DEF Compact, Packed
<1>4. ASSUME NEW d \in Load, ldr[d] # Nil
      PROVE  LET s == slot[ByArg(ldr[d].arg)]
             IN  s.used /\ s.Location = d /\ s.Buffer /\ s.Source = Nil
  <2>1. PICK s \in Held(slot) : Awaits(s, d, ldr[d].arg)
    BY <1>1, <1>4 DEF Good, LoadersServed
  <2>2. slot[ByArg(s.arg)] = s /\ s.used
    BY <1>1, ByArgFinds
  <2> QED
    BY <2>1, <2>2 DEF Awaits
<1>5. ASSUME NEW a \in Arg, NEW f \in SlotJobs, <<f, a>> \in job
      PROVE  LET s == slot[ByArg(a)]
             IN  s.used /\ s.Bttn = "stop" /\ s.Buffer /\ s.Target = (f # "fsel")
  <2>1. PICK s \in Held(slot) : Serves(s, f, a)
    BY <1>1, <1>5 DEF Good, SlotsServed
  <2>2. slot[ByArg(s.arg)] = s /\ s.used
    BY <1>1, ByArgFinds
  <2> QED
    BY <2>1, <2>2 DEF Serves
<1> QED
  BY <1>3, <1>4, <1>5 DEF OwnSlot

LEMMA OneWorkerHolds == IInv => OneWorker
<1> SUFFICES ASSUME IInv, NEW p \in Place
             PROVE  LET s == slot[p]
                        n == Cardinality({d \in Load : ldr[d] # Nil /\ ldr[d].arg = s.arg})
                             + Cardinality({f \in SlotJobs : <<f, s.arg>> \in job})
                    IN  /\ n <= 1
                        /\ s.used /\ s.Bttn = "stop" /\ n = 0
                             => s.Buffer /\ ~s.Target
  BY DEF OneWorker
<1> DEFINE s == slot[p]
           D == {d \in Load : ldr[d] # Nil /\ ldr[d].arg = s.arg}
           F == {f \in SlotJobs : <<f, s.arg>> \in job}
<1>1. Packed(slot) /\ Good(Held(slot), ldr, job, open, born)
  BY DEF IInv
<1>2. s.arg \in Arg
  BY <1>1 DEF Packed, Slots
<1>3. \A c, d \in D : c = d
  <2> SUFFICES ASSUME NEW c \in D, NEW d \in D
               PROVE  c = d
    OBVIOUS
  <2>1. PICK q \in Held(slot) : Awaits(q, c, s.arg)
    BY <1>1 DEF Good, LoadersServed
  <2>2. PICK r \in Held(slot) : Awaits(r, d, s.arg)
    BY <1>1 DEF Good, LoadersServed
  <2>3. q = r
    BY <1>1, <2>1, <2>2 DEF Good, Typed, Awaits
  <2> QED
    BY <2>1, <2>2, <2>3 DEF Awaits
<1>4. \A f, g \in F : f = g
  BY <1>1, <1>2 DEF Good, SlotsServed
<1>5. D = {} \/ F = {}
  BY <1>1, <1>2 DEF Good, LoaderOrJob
<1>6. s.used /\ s.Bttn = "stop" /\ D = {} /\ F = {} => s.Buffer /\ ~s.Target
  BY <1>1 DEF Good, Stoppable, Idles, Held, Used
<1> HIDE DEF D, F
<1>7. Cardinality(D) = IF D = {} THEN 0 ELSE 1
  BY <1>3, AtMostOne
<1>8. Cardinality(F) = IF F = {} THEN 0 ELSE 1
  BY <1>4, AtMostOne
<1>9. Cardinality(D) + Cardinality(F) <= 1
  BY <1>5, <1>7, <1>8
<1>10. Cardinality(D) + Cardinality(F) = 0 => D = {} /\ F = {}
  BY <1>7, <1>8
<1> QED
  BY <1>6, <1>9, <1>10 DEF D, F

LEMMA ConnOwnedHolds == IInv => ConnOwned
<1> SUFFICES ASSUME IInv, NEW d \in Load
             PROVE  Cardinality({p \in Place : slot[p].Source = d})
                      + (IF ldr[d] # Nil /\ ldr[d].conn THEN 1 ELSE 0)
                      = IF d \in open THEN 1 ELSE 0
  BY DEF ConnOwned
<1> DEFINE P == {p \in Place : slot[p].Source = d}
           l == ldr[d] # Nil /\ ldr[d].conn
<1>1. Packed(slot) /\ Connected(Held(slot), ldr, open, born)
  BY DEF IInv, Good
<1>2. d # Nil
  BY LoadAssumption
<1>3. \A p \in P : slot[p] \in Held(slot)
  <2>1. \A p \in Place : ~slot[p].used => slot[p].Source = Nil
    <3>1. \A r : Hidden(r).Source = Nil
      BY DEF Hidden, Idle
    <3> QED
      BY <1>1, <3>1 DEF Packed
  <2> QED
    BY <1>2, <2>1 DEF Held, Used
<1>4. \A p, q \in P : p = q
  BY <1>1, <1>2, <1>3 DEF Connected, Packed
<1>5. P # {} => ldr[d] = Nil
  BY <1>1, <1>2, <1>3 DEF Connected
<1>6. d \in open <=> P # {} \/ l
  <2>1. P # {} <=> \E s \in Held(slot) : s.Source = d
    BY <1>3 DEF Held, Used
  <2> QED
    BY <1>1, <2>1 DEF Connected
<1> HIDE DEF P, l
<1>7. Cardinality(P) = IF P = {} THEN 0 ELSE 1
  BY <1>4, AtMostOne
<1>8. P = {} \/ ~l
  BY <1>5 DEF l
<1>9. Cardinality(P) + (IF l THEN 1 ELSE 0) = IF d \in open THEN 1 ELSE 0
  BY <1>6, <1>7, <1>8
<1> QED
  BY <1>9 DEF P, l

-----------------------------------------------------------------------------
\* Unless the user is hasty: wherever slots move when others are removed,
\* every loader and every job finds its own, in the state that it relies on.
THEOREM SlotsFound == ~Hasty => (Spec => []OwnSlot)
<1> SUFFICES ASSUME ~Hasty
             PROVE  Spec => []OwnSlot
  OBVIOUS
<1> QED
  BY Invariant, OwnSlotHolds, PTL

\* ... one at most works for a slot, and a slot that can be stopped has one or
\* could not be opened; a connection is open if and only if one slot or one
\* loader has it.
THEOREM SlotsOwned == ~Hasty => (Spec => []Owned)
<1> SUFFICES ASSUME ~Hasty
             PROVE  Spec => []Owned
  OBVIOUS
<1>1. IInv => Owned
  BY OneWorkerHolds, ConnOwnedHolds DEF Owned
<1> QED
  BY <1>1, Invariant, PTL

\* ... and no download that is under way disappears from the window, unless the
\* user presses its button or chooses no file for it.
THEOREM DownloadsStay == ~Hasty => (Spec => StaysShown)
<1> SUFFICES ASSUME ~Hasty
             PROVE  Spec => StaysShown
  OBVIOUS
<1>1. IInv /\ [Next]_vars => [Stays]_vars
  BY InvStep
<1> QED
  BY <1>1, Invariant, PTL DEF Spec, StaysShown

=============================================================================
