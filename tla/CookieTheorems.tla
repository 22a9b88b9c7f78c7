--------------------------- MODULE CookieTheorems ---------------------------
(***************************************************************************)
(* Theorems about Cookies: the shape of the jars, in memory and in the     *)
(* file, and the agreement of unchanged jars with the file.                *)
(***************************************************************************)
EXTENDS Cookies, BasicTheorems

-----------------------------------------------------------------------------
(***************************************************************************)
(* The slots of a jar: no cookie behind an empty one; and, unless a torn   *)
(* cookie was read into it, no two with the same name and path.            *)
(***************************************************************************)
SameCookie(c, d) == c.name = d.name /\ c.path = d.path

Dense(s) == \A i \in Slot : s[i] # Nil => \A q \in 1 .. i : s[q] # Nil

Distinct(s) ==
  \A i, k \in Slot :
    s[i] # Nil /\ s[k] # Nil /\ SameCookie(s[i], s[k]) => i = k

Slots == {s \in [Slot -> Cookie \cup {Nil}] : Dense(s)}

\* What is left when the slot i closes up
Closed(s, i) == [q \in Slot |-> IF q < i THEN s[q]
                                ELSE IF q = JarSize THEN Nil ELSE s[q + 1]]

LEMMA SlotsShown ==
  ASSUME NEW s \in Slots
  PROVE  /\ s \in [Slot -> Cookie \cup {Nil}]
         /\ Shown(s) = {i \in Slot : s[i] # Nil}
         /\ Shown(s) # Slot => s[JarSize] = Nil
         /\ \A i \in Shown(s) : s[i] \in Cookie
<1>1. s \in [Slot -> Cookie \cup {Nil}] /\ Dense(s)
  BY DEF Slots
<1>2. JarSize \in Nat \ {0}
  BY JarSizeAssumption
<1>3. Shown(s) = {i \in Slot : s[i] # Nil}
  BY <1>1, <1>2 DEF Shown, Dense, Slot
<1>4. s[JarSize] # Nil => Shown(s) = Slot
  BY <1>1, <1>2, <1>3 DEF Dense, Slot
<1>5. \A i \in Shown(s) : s[i] \in Cookie
  BY <1>1, <1>3
<1> QED
  BY <1>1, <1>3, <1>4, <1>5

LEMMA EmptySlots ==
  Empty \in Slots /\ Distinct(Empty)
BY DEF Empty, Slots, Dense, Distinct

LEMMA ClosedSlots ==
  ASSUME NEW s \in Slots, NEW i \in Slot
  PROVE  /\ Closed(s, i) \in Slots
         /\ Distinct(s) => Distinct(Closed(s, i))
         /\ Closed(s, i)[JarSize] = Nil
         /\ \A q \in Slot : Closed(s, i)[q] # Nil =>
              \E p \in Slot : s[p] = Closed(s, i)[q]
<1> DEFINE t == Closed(s, i)
           Of(q) == IF q < i THEN q ELSE q + 1
<1>1. /\ s \in [Slot -> Cookie \cup {Nil}]
      /\ Dense(s)
  BY DEF Slots
<1>2. JarSize \in Nat \ {0} /\ Slot = 1 .. JarSize
  BY JarSizeAssumption DEF Slot
<1>3. t \in [Slot -> Cookie \cup {Nil}]
  <2>1. ASSUME NEW q \in Slot
        PROVE  t[q] \in Cookie \cup {Nil}
    <3>1. q < i \/ q = JarSize \/ q + 1 \in Slot
      BY <1>2
    <3> QED
      BY <1>1, <3>1 DEF Closed
  <2> QED
    BY <2>1 DEF Closed
<1>4. t[JarSize] = Nil
  BY <1>2 DEF Closed
<1>5. ASSUME NEW q \in Slot, t[q] # Nil
      PROVE  Of(q) \in Slot /\ t[q] = s[Of(q)]
  <2>1. q < i \/ q + 1 \in Slot
    BY <1>2, <1>5 DEF Closed
  <2> QED
    BY <1>2, <1>5, <2>1 DEF Closed
<1>6. Dense(t)
  <2> SUFFICES ASSUME NEW q \in Slot, t[q] # Nil, NEW p \in 1 .. q
               PROVE  t[p] # Nil
    BY DEF Dense
  <2>1. Of(q) \in Slot /\ s[Of(q)] # Nil
    BY <1>5
  <2>2. p \in Slot /\ Of(p) \in 1 .. Of(q)
    BY <1>2
  <2>3. s[Of(p)] # Nil
    BY <1>1, <2>1, <2>2 DEF Dense
  <2>4. p < i \/ p # JarSize
    BY <1>2, <2>1
  <2> QED
    BY <2>2, <2>3, <2>4 DEF Closed
<1>7. ASSUME Distinct(s)
      PROVE  Distinct(t)
  <2> SUFFICES ASSUME NEW q \in Slot, NEW p \in Slot,
                      t[q] # Nil, t[p] # Nil, SameCookie(t[q], t[p])
               PROVE  q = p
    BY DEF Distinct
  <2>1. /\ Of(q) \in Slot /\ t[q] = s[Of(q)]
        /\ Of(p) \in Slot /\ t[p] = s[Of(p)]
    BY <1>5
  <2>2. Of(q) = Of(p)
    BY <1>7, <2>1 DEF Distinct
  <2> QED
    BY <1>2, <2>2
<1>8. t \in Slots
  BY <1>3, <1>6 DEF Slots
<1> QED
  BY <1>4, <1>5, <1>7, <1>8

\* destroy_cookie() closes a slot up if the length goes to the last slot, or
\* if that is empty.
LEMMA DestroyedCloses ==
  ASSUME NEW s \in [Slot -> Cookie \cup {Nil}], NEW i \in Slot
  PROVE  /\ Destroyed(s, i, Behind(i)) = Closed(s, i)
         /\ Destroyed(s, JarSize, 0) = Closed(s, JarSize)
         /\ s[JarSize] = Nil /\ s[i] # Nil
              => Destroyed(s, i, JarSize - i) = Closed(s, i)
<1>1. JarSize \in Nat \ {0} /\ Slot = 1 .. JarSize
  BY JarSizeAssumption DEF Slot
<1>2. Destroyed(s, i, Behind(i)) = Closed(s, i)
  BY <1>1 DEF Destroyed, Behind, Closed
<1>3. Destroyed(s, JarSize, 0) = Closed(s, JarSize)
  BY <1>1 DEF Destroyed, Closed
<1>4. ASSUME s[JarSize] = Nil, s[i] # Nil
      PROVE  Destroyed(s, i, JarSize - i) = Closed(s, i)
  <2>1. i < JarSize
    BY <1>1, <1>4
  <2>2. ASSUME NEW q \in Slot
        PROVE  Destroyed(s, i, JarSize - i)[q] = Closed(s, i)[q]
    <3>1. CASE JarSize - i > 1
      BY <1>1, <1>4, <2>1, <3>1 DEF Destroyed, Closed
    <3>2. CASE JarSize - i = 1
      BY <1>1, <1>4, <2>1, <3>2 DEF Destroyed, Closed
    <3> QED
      BY <1>1, <2>1, <3>1, <3>2
  <2> QED
    BY <2>2 DEF Destroyed, Closed
<1> QED
  BY <1>2, <1>3, <1>4

LEMMA FirstOf ==
  ASSUME NEW S \in SUBSET Nat, S # {}
  PROVE  First(S) \in S /\ \A q \in S : First(S) <= q
BY LeastNat DEF First

\* No cookie but the one at e is like c.
Only(s, e, c) == \A q \in Slot : s[q] # Nil /\ SameCookie(s[q], c) => q = e

LEMMA ToFrontSlots ==
  ASSUME NEW s \in Slots, NEW e \in Slot, NEW c \in Cookie,
         \A q \in Slot : q < e => s[q] # Nil
  PROVE  /\ ToFront(s, e, c) \in Slots
         /\ Distinct(s) /\ Only(s, e, c) => Distinct(ToFront(s, e, c))
<1> DEFINE t == ToFront(s, e, c)
<1>1. /\ s \in [Slot -> Cookie \cup {Nil}]
      /\ Dense(s)
  BY DEF Slots
<1>2. JarSize \in Nat \ {0} /\ Slot = 1 .. JarSize /\ c # Nil
  BY JarSizeAssumption, NilAssumption DEF Slot
<1>3. /\ t[1] = c
      /\ \A q \in Slot : q # 1 /\ q <= e => q - 1 \in Slot /\ t[q] = s[q - 1]
      /\ \A q \in Slot : q # 1 /\ q > e => t[q] = s[q]
  BY <1>2 DEF ToFront
<1>4. t \in [Slot -> Cookie \cup {Nil}]
  <2>1. \A q \in Slot : t[q] \in Cookie \cup {Nil}
    BY <1>1, <1>2, <1>3
  <2> QED
    BY <2>1 DEF ToFront
<1>5. \A q \in Slot : q <= e => t[q] # Nil
  BY <1>2, <1>3
<1> HIDE DEF t
<1>6. Dense(t)
  <2> SUFFICES ASSUME NEW q \in Slot, t[q] # Nil, NEW p \in 1 .. q
               PROVE  t[p] # Nil
    BY DEF Dense
  <2>1. p \in Slot
    BY <1>2
  <2>2. CASE p <= e
    BY <1>5, <2>1, <2>2
  <2>3. CASE p > e
    <3>1. t[q] = s[q] /\ t[p] = s[p]
      BY <1>2, <1>3, <2>1, <2>3
    <3> QED
      BY <1>1, <3>1 DEF Dense
  <2> QED
    BY <1>2, <2>2, <2>3
\* Every other cookie of the jar comes from a place of its own.
<1>7. ASSUME NEW q \in Slot, t[q] # Nil, q # 1
      PROVE  \E p \in Slot : /\ p # e /\ t[q] = s[p]
                             /\ p = IF q <= e THEN q - 1 ELSE q
  BY <1>2, <1>3, <1>7
<1>8. ASSUME Distinct(s), Only(s, e, c)
      PROVE  Distinct(t)
  <2> SUFFICES ASSUME NEW i \in Slot, NEW k \in Slot,
                      t[i] # Nil, t[k] # Nil, SameCookie(t[i], t[k])
               PROVE  i = k
    BY DEF Distinct
  <2>1. SameCookie(t[k], t[i])
    BY DEF SameCookie
  <2>2. CASE i = 1 /\ k # 1
    <3>1. PICK p \in Slot : p # e /\ t[k] = s[p]
      BY <1>7, <2>2
    <3> QED
      BY <1>3, <1>8, <2>1, <2>2, <3>1 DEF Only
  <2>3. CASE i # 1 /\ k = 1
    <3>1. PICK p \in Slot : p # e /\ t[i] = s[p]
      BY <1>7, <2>3
    <3> QED
      BY <1>3, <1>8, <2>3, <3>1 DEF Only
  <2>4. CASE i # 1 /\ k # 1
    <3>1. PICK p \in Slot : /\ p # e /\ t[i] = s[p]
                            /\ p = IF i <= e THEN i - 1 ELSE i
      BY <1>7, <2>4
    <3>2. PICK r \in Slot : /\ r # e /\ t[k] = s[r]
                            /\ r = IF k <= e THEN k - 1 ELSE k
      BY <1>7, <2>4
    <3>3. p = r
      BY <1>8, <3>1, <3>2 DEF Distinct
    <3> QED
      BY <1>2, <3>1, <3>2, <3>3
  <2> QED
    BY <2>2, <2>3, <2>4
<1>9. t \in Slots
  BY <1>4, <1>6 DEF Slots
<1> QED
  BY <1>8, <1>9 DEF t

\* There is a place for a new cookie.
LEMMA RoomSlots ==
  ASSUME NEW s \in Slots
  PROVE  /\ Room(s) \in Slots
         /\ Distinct(s) => Distinct(Room(s))
         /\ {i \in Slot : Room(s)[i] = Nil} # {}
         /\ \A q \in Slot : Room(s)[q] # Nil =>
              \E p \in Slot : s[p] = Room(s)[q]
<1>1. JarSize \in Slot
  BY JarSizeAssumption DEF Slot
<1>2. s \in [Slot -> Cookie \cup {Nil}] /\ (Shown(s) # Slot => s[JarSize] = Nil)
  BY SlotsShown
<1>3. CASE Shown(s) = Slot
  <2>1. Room(s) = Closed(s, JarSize)
    BY <1>1, <1>2, <1>3, DestroyedCloses DEF Room
  <2> QED
    BY <1>1, <2>1, ClosedSlots
<1>4. CASE Shown(s) # Slot
  BY <1>1, <1>2, <1>4 DEF Room
<1> QED
  BY <1>3, <1>4

\* A new cookie before the first empty place, where no other is like it
LEMMA CreateSlots ==
  ASSUME NEW s \in Slots, NEW c \in Cookie, Same(s, c.name, c.path) = {},
         NEW d \in Cookie, SameCookie(d, c)
  PROVE  LET t == ToFront(Room(s), First({i \in Slot : Room(s)[i] = Nil}), d)
         IN  t \in Slots /\ (Distinct(s) => Distinct(t))
<1> DEFINE r == Room(s)
           Free == {i \in Slot : r[i] = Nil}
           e == First(Free)
<1>1. /\ r \in Slots
      /\ Distinct(s) => Distinct(r)
      /\ Free # {}
      /\ \A q \in Slot : r[q] # Nil => \E p \in Slot : s[p] = r[q]
  BY RoomSlots
<1>2. e \in Free /\ \A q \in Free : e <= q
  <2>1. Free \in SUBSET Nat
    BY DEF Slot
  <2> QED
    BY <1>1, <2>1, FirstOf
<1>3. JarSize \in Nat \ {0} /\ Slot = 1 .. JarSize
  BY JarSizeAssumption DEF Slot
<1>4. \A q \in Slot : q < e => r[q] # Nil
  BY <1>2, <1>3
<1>5. ASSUME NEW q \in Slot, r[q] # Nil, SameCookie(r[q], d)
      PROVE  FALSE
  <2>1. PICK p \in Slot : s[p] = r[q]
    BY <1>1, <1>5
  <2>2. p \in Shown(s)
    BY <1>5, <2>1, SlotsShown
  <2>3. p \in Same(s, c.name, c.path)
    BY <1>5, <2>1, <2>2 DEF Same, SameCookie
  <2> QED
    BY <2>3
<1>6. Only(r, e, d)
  BY <1>5 DEF Only
<1> HIDE DEF r, e
<1>7. /\ ToFront(r, e, d) \in Slots
      /\ Distinct(s) => Distinct(ToFront(r, e, d))
  BY <1>1, <1>2, <1>4, <1>6, ToFrontSlots
<1> QED
  BY <1>7 DEF r, e

\* A cookie that changes keeps its name and path.
LEMMA ChangeSlots ==
  ASSUME NEW s \in Slots, NEW i \in Shown(s), NEW k \in Cookie,
         SameCookie(k, s[i])
  PROVE  /\ ToFront(s, i, k) \in Slots
         /\ Distinct(s) => Distinct(ToFront(s, i, k))
<1>1. /\ i \in Slot /\ s[i] # Nil
      /\ Shown(s) = {q \in Slot : s[q] # Nil}
  BY SlotsShown
<1>2. Dense(s)
  BY DEF Slots
<1>3. JarSize \in Nat \ {0} /\ Slot = 1 .. JarSize
  BY JarSizeAssumption DEF Slot
<1>4. \A q \in Slot : q < i => s[q] # Nil
  BY <1>1, <1>2, <1>3 DEF Dense
<1>5. Distinct(s) => Only(s, i, k)
  BY <1>1 DEF Distinct, SameCookie, Only
<1> QED
  BY <1>1, <1>4, <1>5, ToFrontSlots

-----------------------------------------------------------------------------
(***************************************************************************)
(* Cookies that have expired leave a jar.                                  *)
(***************************************************************************)

\* One round of the loop
Purge(t) ==
  LET gone == {i \in Shown(t) : Expired(t[i])}
  IN  IF gone = {} THEN t
      ELSE Destroyed(t, First(gone), JarSize - First(gone))

LEMMA PurgedRounds ==
  ASSUME NEW T, NEW s \in T, \A t \in T : Purge(t) \in T
  PROVE  \E f : /\ f[0] = s /\ Purged(s) = f[JarSize]
                /\ \A n \in 0 .. JarSize : f[n] \in T
                /\ \A n \in 0 .. JarSize - 1 : f[n + 1] = Purge(f[n])
<1> DEFINE G == [t \in T |-> Purge(t)]
           Loop(f) == f = [n \in 0 .. JarSize |->
                             IF n = 0 THEN s ELSE Purge(f[n - 1])]
           step == CHOOSE f : Loop(f)
<1>1. JarSize \in Nat
  BY JarSizeAssumption
<1>2. G \in [T -> T]
  OBVIOUS
<1>3. \E f : Loop(f)
  <2> HIDE DEF G
  <2>0. s \in T
    OBVIOUS
  <2>1. PICK g \in [0 .. JarSize -> T] :
          g = [n \in 0 .. JarSize |-> IF n = 0 THEN s ELSE G[g[n - 1]]]
    BY ONLY <2>0, <1>1, <1>2, Iterated, SMTT(20)
  <2>2. \A n \in 0 .. JarSize : n # 0 => G[g[n - 1]] = Purge(g[n - 1])
    <3> SUFFICES ASSUME NEW n \in 0 .. JarSize, n # 0
                 PROVE  G[g[n - 1]] = Purge(g[n - 1])
      OBVIOUS
    <3>1. g[n - 1] \in T
      BY <1>1
    <3> QED
      BY <3>1 DEF G
  <2> QED
    BY <2>1, <2>2
<1>4. Loop(step)
  BY <1>3
<1> HIDE DEF step
<1> DEFINE S == {n \in 0 .. JarSize : step[n] \in T}
<1>5. step[0] = s /\ 0 \in S
  BY <1>1, <1>4
<1>6. \A n \in 0 .. JarSize - 1 : step[n + 1] = Purge(step[n])
  <2> SUFFICES ASSUME NEW n \in 0 .. JarSize - 1
               PROVE  step[n + 1] = Purge(step[n])
    OBVIOUS
  <2>1. n + 1 \in 0 .. JarSize /\ n + 1 # 0 /\ (n + 1) - 1 = n
    BY <1>1
  <2> QED
    BY <1>4, <2>1
<1>7. \A n \in 0 .. JarSize - 1 : n \in S => n + 1 \in S
  BY <1>1, <1>6
<1> HIDE DEF S
<1>8. \A n \in 0 .. JarSize : n \in S
  BY <1>1, <1>5, <1>7, UpTo
<1>9. \A n \in 0 .. JarSize : step[n] \in T
  BY <1>8 DEF S
<1>10. Purged(s) = step[JarSize]
  BY DEF Purged, Purge, step
<1> QED
  BY <1>5, <1>6, <1>9, <1>10

LEMMA PurgedStays ==
  ASSUME NEW T, NEW s \in T, \A t \in T : Purge(t) \in T
  PROVE  Purged(s) \in T
<1>1. JarSize \in 0 .. JarSize
  BY JarSizeAssumption
<1>2. \E f : Purged(s) = f[JarSize] /\ \A n \in 0 .. JarSize : f[n] \in T
  BY PurgedRounds
<1> QED
  BY <1>1, <1>2

\* In a jar that is not full a round closes up the slot of a cookie that has
\* expired, if there is one.
LEMMA PurgeCloses ==
  ASSUME NEW t \in Slots, t[JarSize] = Nil
  PROVE  \/ Purge(t) = t /\ \A i \in Shown(t) : ~Expired(t[i])
         \/ \E i \in Shown(t) : Purge(t) = Closed(t, i)
<1> DEFINE gone == {i \in Shown(t) : Expired(t[i])}
           i == First(gone)
<1>1. CASE gone = {}
  BY <1>1 DEF Purge
<1>2. CASE gone # {}
  <2>1. gone \in SUBSET Nat
    BY DEF Shown, Slot
  <2>2. i \in gone
    BY <1>2, <2>1, FirstOf
  <2> HIDE DEF i
  <2>3. i \in Slot /\ t[i] # Nil /\ t \in [Slot -> Cookie \cup {Nil}]
    BY <2>2, SlotsShown
  <2>4. Destroyed(t, i, JarSize - i) = Closed(t, i)
    BY <2>3, DestroyedCloses
  <2>5. Purge(t) = Closed(t, i)
    BY <1>2, <2>4 DEF Purge, i
  <2> QED
    BY <2>2, <2>5
<1> QED
  BY <1>1, <1>2

\* In a jar that is not full, and in one that nothing leaves
LEMMA PurgedSlots ==
  ASSUME NEW s \in Slots,
         Shown(s) = Slot => \A i \in Slot : ~Expired(s[i])
  PROVE  /\ Purged(s) \in Slots
         /\ Distinct(s) => Distinct(Purged(s))
         /\ \A i \in Shown(Purged(s)) : ~Expired(Purged(s)[i])
<1>1. JarSize \in Nat \ {0} /\ Slot = 1 .. JarSize
  BY JarSizeAssumption DEF Slot
<1>2. CASE Shown(s) # Slot
  <2> DEFINE T == {t \in Slots : /\ t[JarSize] = Nil
                                 /\ Distinct(s) => Distinct(t)}
             Fresh(t) == \A i \in Shown(t) : ~Expired(t[i])
             Short(t, n) == \A q \in Slot : q >= JarSize - n => t[q] = Nil
  <2>1. s \in T
    BY <1>2, SlotsShown
  <2>2. \A t \in T : \/ Purge(t) = t /\ Fresh(t)
                     \/ \E i \in Shown(t) : Purge(t) = Closed(t, i)
    BY PurgeCloses
  <2>3. \A t \in T : Purge(t) \in T
    <3>1. \A t \in T : \A i \in Shown(t) : Closed(t, i) \in T
      BY ClosedSlots DEF Shown
    <3> QED
      BY <2>2, <3>1
  <2> HIDE DEF T
  <2>4. PICK f : /\ f[0] = s /\ Purged(s) = f[JarSize]
                 /\ \A n \in 0 .. JarSize : f[n] \in T
                 /\ \A n \in 0 .. JarSize - 1 : f[n + 1] = Purge(f[n])
    BY <2>1, <2>3, PurgedRounds
  <2> DEFINE S == {n \in 0 .. JarSize : Fresh(f[n]) \/ Short(f[n], n)}
\* A round takes a cookie away, or finds none.
  <2>5. \A n \in 0 .. JarSize - 1 : n \in S => n + 1 \in S
    <3> SUFFICES ASSUME NEW n \in 0 .. JarSize - 1, n \in S
                 PROVE  Fresh(f[n + 1]) \/ Short(f[n + 1], n + 1)
      BY <1>1, SMTT(20)
    <3> DEFINE t == f[n]
    <3>1. t \in T /\ f[n + 1] = Purge(t)
      BY <1>1, <2>4
    <3> HIDE DEF Fresh
    <3>2. CASE Purge(t) = t /\ Fresh(t)
      BY <3>1, <3>2
    <3>3. ASSUME NEW i \in Shown(t), Purge(t) = Closed(t, i), Short(t, n)
          PROVE  Short(f[n + 1], n + 1)
      <4>1. i \in Slot /\ t[i] # Nil
        BY <1>1 DEF Shown
      <4>2. i < JarSize - n
        BY <1>1, <3>3, <4>1
      <4> HIDE DEF t, Short
      <4>3. ASSUME NEW q \in Slot, q >= JarSize - (n + 1)
            PROVE  Closed(t, i)[q] = Nil
        <5>1. ~(q < i)
          BY <1>1, <4>1, <4>2, <4>3
        <5>2. CASE q = JarSize
          BY <1>1, <5>1, <5>2 DEF Closed
        <5>3. CASE q # JarSize
          <6>1. q + 1 \in Slot /\ q + 1 >= JarSize - n
            BY <1>1, <4>3, <5>3
          <6>2. t[q + 1] = Nil
            BY <3>3, <6>1 DEF Short
          <6> QED
            BY <5>1, <5>3, <6>2 DEF Closed
        <5> QED
          BY <5>2, <5>3
      <4> QED
        BY <3>1, <3>3, <4>3 DEF Short
    <3>4. CASE Fresh(t) /\ Purge(t) # t
      <4>1. {i \in Shown(t) : Expired(t[i])} = {}
        BY <3>4 DEF Fresh
      <4>2. Purge(t) = t
        BY <4>1 DEF Purge
      <4> QED
        BY <3>4, <4>2
    <3> QED
      BY <2>2, <3>1, <3>2, <3>3, <3>4
  <2>6. 0 \in S
    <3>1. Short(s, 0)
      BY <1>1, <2>1 DEF T
    <3> QED
      BY <1>1, <2>4, <3>1
  <2> HIDE DEF S
  <2>7. JarSize \in S
    <3>1. JarSize \in Nat /\ JarSize \in 0 .. JarSize
      BY <1>1
    <3>2. \A n \in 0 .. JarSize : n \in S
      BY ONLY <2>5, <2>6, <3>1, UpTo
    <3> QED
      BY <3>1, <3>2
  <2>8. Fresh(f[JarSize]) \/ Short(f[JarSize], JarSize)
    BY <2>7 DEF S
  <2>9. Fresh(f[JarSize])
    BY <1>1, <2>8 DEF Shown
  <2>10. f[JarSize] \in Slots /\ (Distinct(s) => Distinct(f[JarSize]))
    BY <1>1, <2>4 DEF T
  <2> QED
    BY <2>4, <2>9, <2>10
<1>3. CASE Shown(s) = Slot
  <2>1. {i \in Shown(s) : Expired(s[i])} = {}
    BY <1>3
  <2>2. Purge(s) = s
    BY <2>1 DEF Purge
  <2>3. Purged(s) \in {s}
    BY <2>2, PurgedStays
  <2> QED
    BY <1>3, <2>3
<1> QED
  BY <1>2, <1>3

-----------------------------------------------------------------------------
(***************************************************************************)
(* The path of a cookie is one of the directories.                         *)
(***************************************************************************)
LEMMA CommonPath ==
  ASSUME NEW asked \in Paths, NEW path \in Paths
  PROVE  Common(asked, path) \in Paths
<1> DEFINE N == Len(path)
           Agrees(k) == /\ k <= Len(asked)
                        /\ SubSeq(asked, 1, k) = SubSeq(path, 1, k)
           Ends(k) == \/ k = Len(path) \/ k = Len(asked)
                      \/ asked[k + 1] # path[k + 1]
           K == {k \in 0 .. N : Agrees(k)}
<1>1. /\ path \in Seq(Range(path)) /\ asked \in Seq(Range(asked))
      /\ \A k \in 0 .. N : SubSeq(path, 1, k) \in Paths
  BY PathsAssumption
<1>2. N \in Nat /\ Len(asked) \in Nat
  BY <1>1, LenProperties
<1>3. 0 \in K
  <2>1. SubSeq(asked, 1, 0) = <<>> /\ SubSeq(path, 1, 0) = <<>>
    BY <1>1, SubSeqEmpty
  <2> QED
    BY <1>2, <2>1
<1>4. K \in SUBSET (0 .. N)
  OBVIOUS
<1> DEFINE k == Max(K)
<1>5. k \in K /\ \A l \in K : l <= k
  <2> HIDE DEF K, N
  <2> QED
    BY <1>2, <1>3, <1>4, MaxOfNats
<1> HIDE DEF k
<1>6. ASSUME ~Ends(k)
      PROVE  FALSE
  <2>1. k + 1 \in 0 .. N /\ k + 1 <= Len(asked)
    BY <1>2, <1>5, <1>6
  <2>2. SubSeq(asked, 1, k + 1) = SubSeq(path, 1, k + 1)
    <3>1. \A i \in 1 .. k : asked[i] = path[i]
      <4>1. ASSUME NEW i \in 1 .. k
            PROVE  SubSeq(asked, 1, k)[i] = asked[i] /\ SubSeq(path, 1, k)[i] = path[i]
        BY <1>2, <2>1, <1>5
      <4> QED
        BY <1>5, <4>1
    <3>2. asked[k + 1] = path[k + 1]
      BY <1>6
    <3>3. \A i \in 1 .. k + 1 : asked[i] = path[i]
      BY <1>2, <1>5, <3>1, <3>2
    <3> QED
      BY <1>2, <2>1, <1>5, <3>3
  <2>3. k + 1 \in K
    BY <2>1, <2>2
  <2>4. k \in Nat
    BY <1>2, <1>5
  <2> QED
    BY <1>5, <2>3, <2>4
<1>7. \E l \in 0 .. N : Agrees(l) /\ Ends(l)
  BY <1>5, <1>6
<1>8. \E l \in 0 .. N : Common(asked, path) = SubSeq(path, 1, l)
  BY <1>7 DEF Common
<1> QED
  BY <1>1, <1>8

-----------------------------------------------------------------------------
(***************************************************************************)
(* The jars in memory and in the file: one for a host, one for a domain    *)
(* that no server writes in capitals (cap are those that one does), each   *)
(* without doubles but where a torn cookie was read (sp).                  *)
(***************************************************************************)
SameJar(j, k) == j.dom = k.dom /\ (j.dom = Nil => j.host = k.host)

OneEach(js, cap) ==
  \A n, m \in DOMAIN js : SameJar(js[n], js[m]) /\ js[n].dom \notin cap => n = m

Key(j) == <<j.host, j.dom>>

Jar == [host : Host, dom : Domain \cup {Nil}, slots : Slots]

JarLists(cap, sp) ==
  {js \in Seq(Jar) :
     /\ OneEach(js, cap)
     /\ \A n \in DOMAIN js : Key(js[n]) \notin sp => Distinct(js[n].slots)}

Lists == {c \in Seq(Cookie) : Len(c) \in Slot}

Once(c) == \A i, k \in DOMAIN c : SameCookie(c[i], c[k]) => i = k

SavedJar == [host : Host, dom : Domain \cup {Nil}, cookies : Lists]

Files(cap, sp) ==
  {f \in Seq(SavedJar) :
     /\ OneEach(f, cap)
     /\ \A n \in DOMAIN f : Key(f[n]) \notin sp => Once(f[n].cookies)}

LEMMA SomeOfEach ==
  ASSUME NEW N \in Nat, NEW I \in SUBSET (1 .. N), NEW T, NEW s, NEW cap,
         \A i \in I : s[i] \in T,
         \A i, k \in I : SameJar(s[i], s[k]) /\ s[i].dom \notin cap => i = k
  PROVE  Picked(s, I) \in Seq(T) /\ OneEach(Picked(s, I), cap)
<1>1. /\ Picked(s, I) \in Seq(T)
      /\ DOMAIN Picked(s, I) = 1 .. Cardinality(I)
      /\ \A k \in 1 .. Cardinality(I) : Picked(s, I)[k] = s[Nth(I, k)]
  <2>1. \A i \in I : s[i] \in T
    OBVIOUS
  <2>2. Picked(s, I) \in Seq(T)
    BY ONLY <2>1, N \in Nat, I \in SUBSET (1 .. N), PickedInSeq
  <2>3. /\ DOMAIN Picked(s, I) = 1 .. Cardinality(I)
        /\ \A k \in 1 .. Cardinality(I) : Picked(s, I)[k] = s[Nth(I, k)]
    BY DEF Picked
  <2> QED
    BY <2>2, <2>3
<1>2. /\ \A k \in 1 .. Cardinality(I) : Nth(I, k) \in I
      /\ \A k, l \in 1 .. Cardinality(I) : Nth(I, k) = Nth(I, l) => k = l
  <2>1. N \in Nat /\ I \in SUBSET (1 .. N)
    OBVIOUS
  <2> QED
    BY ONLY <2>1, NthPlace
<1>3. OneEach(Picked(s, I), cap)
  <2> SUFFICES ASSUME NEW k \in 1 .. Cardinality(I),
                      NEW l \in 1 .. Cardinality(I),
                      SameJar(Picked(s, I)[k], Picked(s, I)[l]),
                      Picked(s, I)[k].dom \notin cap
               PROVE  k = l
    BY <1>1 DEF OneEach
  <2>1. SameJar(s[Nth(I, k)], s[Nth(I, l)]) /\ s[Nth(I, k)].dom \notin cap
    BY <1>1
  <2>2. Nth(I, k) = Nth(I, l)
    BY <1>2, <2>1
  <2> QED
    BY <1>2, <2>2
<1> QED
  BY <1>1, <1>3

LEMMA ListShape ==
  ASSUME NEW c \in Lists
  PROVE  /\ Len(c) \in Slot /\ DOMAIN c = 1 .. Len(c)
         /\ \A i \in DOMAIN c : c[i] \in Cookie
<1>1. c \in Seq(Cookie)
  BY DEF Lists
<1>2. DOMAIN c = 1 .. Len(c) /\ Len(c) \in Nat
  BY <1>1, LenProperties
<1>3. \A i \in DOMAIN c : c[i] \in Cookie
  BY <1>1, <1>2, ElementOfSeq
<1> QED
  BY <1>2, <1>3 DEF Lists

\* jar_load() fills the first slots.
LEMMA FilledSlots ==
  ASSUME NEW c \in Lists, NEW I \in SUBSET (DOMAIN c)
  PROVE  /\ Filled(Picked(c, I)) \in Slots
         /\ Once(c) => Distinct(Filled(Picked(c, I)))
         /\ Cardinality(I) \in 0 .. JarSize
         /\ \A k \in Slot : Filled(Picked(c, I))[k] =
              IF k <= Cardinality(I) THEN Read(c[Nth(I, k)]) ELSE Nil
<1> DEFINE n == Cardinality(I)
           t == Filled(Picked(c, I))
<1>1. /\ Len(c) \in Slot /\ DOMAIN c = 1 .. Len(c)
      /\ \A i \in DOMAIN c : c[i] \in Cookie
  BY ListShape
<1>2. JarSize \in Nat \ {0} /\ Slot = 1 .. JarSize
  BY JarSizeAssumption DEF Slot
<1>3. Len(c) \in Nat /\ I \in SUBSET (1 .. Len(c))
  BY <1>1, <1>2
<1>4. /\ n \in 0 .. Len(c)
      /\ \A k \in 1 .. n : Nth(I, k) \in I
      /\ \A k, l \in 1 .. n : Nth(I, k) = Nth(I, l) => k = l
  BY <1>3, NthPlace
<1>5. /\ Len(Picked(c, I)) = n
      /\ \A k \in 1 .. n : Picked(c, I)[k] = c[Nth(I, k)]
  <2>1. \A i \in I : c[i] \in Cookie
    BY <1>1
  <2>2. Len(Picked(c, I)) = n
    BY ONLY <1>3, <2>1, PickedElements
  <2>3. \A k \in 1 .. n : Picked(c, I)[k] = c[Nth(I, k)]
    BY DEF Picked
  <2> QED
    BY <2>2, <2>3
<1>6. n \in 0 .. JarSize
  BY <1>1, <1>2, <1>4
<1> HIDE DEF n
<1>7. \A k \in Slot : t[k] = IF k <= n THEN Read(c[Nth(I, k)]) ELSE Nil
  BY <1>2, <1>5, <1>6 DEF Filled
<1>8. ASSUME NEW k \in Slot, k <= n
      PROVE  /\ Nth(I, k) \in DOMAIN c
             /\ t[k] \in Cookie /\ t[k] # Nil /\ SameCookie(t[k], c[Nth(I, k)])
  <2>1. k \in 1 .. n
    BY <1>2, <1>6, <1>8
  <2>2. Nth(I, k) \in DOMAIN c
    BY <1>4, <2>1
  <2>3. t[k] = [c[Nth(I, k)] EXCEPT !.max = c[Nth(I, k)].value]
    BY <1>7, <1>8 DEF Read
  <2>4. c[Nth(I, k)] \in Cookie
    BY <1>1, <2>2
  <2>5. t[k] \in Cookie /\ SameCookie(t[k], c[Nth(I, k)])
    BY <2>3, <2>4 DEF Cookie, SameCookie
  <2> QED
    BY <2>2, <2>5, NilAssumption
<1>9. t \in [Slot -> Cookie \cup {Nil}]
  <2>1. \A k \in Slot : t[k] \in Cookie \cup {Nil}
    BY <1>7, <1>8
  <2> QED
    BY <2>1 DEF Filled
<1> HIDE DEF t
<1>10. Dense(t)
  <2> SUFFICES ASSUME NEW i \in Slot, t[i] # Nil, NEW q \in 1 .. i
               PROVE  t[q] # Nil
    BY DEF Dense
  <2>1. i <= n
    BY <1>7
  <2>2. q \in Slot /\ q <= n
    BY <1>2, <1>6, <2>1
  <2> QED
    BY <1>8, <2>2
<1>11. ASSUME Once(c)
       PROVE  Distinct(t)
  <2> SUFFICES ASSUME NEW i \in Slot, NEW k \in Slot,
                      t[i] # Nil, t[k] # Nil, SameCookie(t[i], t[k])
               PROVE  i = k
    BY DEF Distinct
  <2>1. i \in 1 .. n /\ k \in 1 .. n
    BY <1>2, <1>6, <1>7
  <2>2. SameCookie(c[Nth(I, i)], c[Nth(I, k)])
    BY <1>8, <2>1 DEF SameCookie
  <2>3. Nth(I, i) = Nth(I, k)
    BY <1>8, <1>11, <2>1, <2>2 DEF Once
  <2> QED
    BY <1>4, <2>1, <2>3
<1>12. t \in Slots
  BY <1>9, <1>10 DEF Slots
<1> QED
  BY <1>6, <1>7, <1>11, <1>12 DEF n, t

\* jar_save() writes a part of the slots.
LEMMA SavedList ==
  ASSUME NEW s \in Slots, NEW I \in SUBSET Shown(s), I # {}
  PROVE  Picked(s, I) \in Lists /\ (Distinct(s) => Once(Picked(s, I)))
<1> DEFINE n == Cardinality(I)
           t == Picked(s, I)
<1>1. JarSize \in Nat \ {0} /\ Slot = 1 .. JarSize
  BY JarSizeAssumption DEF Slot
<1>2. /\ I \in SUBSET (1 .. JarSize)
      /\ \A i \in I : s[i] \in Cookie /\ s[i] # Nil
  BY <1>1, SlotsShown
<1>3. /\ n \in 0 .. JarSize
      /\ \A k \in 1 .. n : Nth(I, k) \in I
      /\ \A k, l \in 1 .. n : Nth(I, k) = Nth(I, l) => k = l
      /\ \A i \in I : \E k \in 1 .. n : Nth(I, k) = i
  BY <1>1, <1>2, NthPlace
<1>4. /\ t \in Seq(Cookie)
      /\ Len(t) = n
      /\ DOMAIN t = 1 .. n
      /\ \A k \in 1 .. n : t[k] = s[Nth(I, k)]
  <2>1. JarSize \in Nat /\ I \in SUBSET (1 .. JarSize) /\ \A i \in I : s[i] \in Cookie
    BY <1>1, <1>2
  <2>2. t \in Seq(Cookie)
    BY ONLY <2>1, PickedElements, Zenon
  <2>3. Len(t) = n
    BY ONLY <2>1, PickedElements, Zenon
  <2>4. DOMAIN t = 1 .. n
    BY ONLY <2>1, PickedElements, Zenon
  <2>5. \A k \in 1 .. n : t[k] = s[Nth(I, k)]
    BY DEF Picked
  <2> QED
    BY <2>2, <2>3, <2>4, <2>5
<1>5. n \in Slot
  BY <1>1, <1>3
<1> HIDE DEF n, t
<1>6. ASSUME Distinct(s),
             NEW i \in 1 .. n, NEW k \in 1 .. n, SameCookie(t[i], t[k])
      PROVE  i = k
  <2>1. SameCookie(s[Nth(I, i)], s[Nth(I, k)])
    BY <1>4, <1>6
  <2>2. Nth(I, i) \in I /\ Nth(I, k) \in I
    BY <1>3
  <2>3. Nth(I, i) = Nth(I, k)
    BY <1>1, <1>2, <1>6, <2>1, <2>2 DEF Distinct
  <2> QED
    BY <1>3, <2>3
<1>7. t \in Lists
  BY <1>4, <1>5 DEF Lists
<1>8. Distinct(s) => Once(t)
  BY <1>4, <1>6 DEF Once
<1> QED
  BY <1>7, <1>8 DEF t

-----------------------------------------------------------------------------
LEMMA JarListShape ==
  ASSUME NEW cap, NEW sp, NEW js \in JarLists(cap, sp)
  PROVE  /\ Len(js) \in Nat /\ DOMAIN js = 1 .. Len(js)
         /\ \A n \in DOMAIN js : /\ js[n] \in Jar
                                 /\ Key(js[n]) \notin sp => Distinct(js[n].slots)
         /\ OneEach(js, cap)
<1>1. js \in Seq(Jar) /\ OneEach(js, cap)
  BY DEF JarLists
<1>2. DOMAIN js = 1 .. Len(js) /\ Len(js) \in Nat
  BY <1>1, LenProperties
<1>3. \A n \in DOMAIN js : js[n] \in Jar
  BY <1>1, <1>2, ElementOfSeq
<1> QED
  BY <1>1, <1>2, <1>3 DEF JarLists

LEMMA FileShape ==
  ASSUME NEW cap, NEW sp, NEW f \in Files(cap, sp)
  PROVE  /\ Len(f) \in Nat /\ DOMAIN f = 1 .. Len(f)
         /\ \A n \in DOMAIN f : /\ f[n] \in SavedJar
                                /\ Key(f[n]) \notin sp => Once(f[n].cookies)
         /\ OneEach(f, cap)
<1>1. f \in Seq(SavedJar) /\ OneEach(f, cap)
  BY DEF Files
<1>2. DOMAIN f = 1 .. Len(f) /\ Len(f) \in Nat
  BY <1>1, LenProperties
<1>3. \A n \in DOMAIN f : f[n] \in SavedJar
  BY <1>1, <1>2, ElementOfSeq
<1> QED
  BY <1>1, <1>2, <1>3 DEF Files

LEMMA JarListFromDomain ==
  ASSUME NEW n \in Nat, NEW js, DOMAIN js = 1 .. n, NEW cap, NEW sp,
         js = [i \in 1 .. n |-> js[i]],
         \A i \in 1 .. n : /\ js[i] \in Jar
                           /\ Key(js[i]) \notin sp => Distinct(js[i].slots),
         OneEach(js, cap)
  PROVE  js \in JarLists(cap, sp)
<1>1. js \in [1 .. n -> Jar]
  OBVIOUS
<1>2. js \in Seq(Jar)
  BY <1>1, SeqDef
<1> QED
  BY <1>2 DEF JarLists

LEMMA FileFromDomain ==
  ASSUME NEW n \in Nat, NEW f, DOMAIN f = 1 .. n, NEW cap, NEW sp,
         f = [i \in 1 .. n |-> f[i]],
         \A i \in 1 .. n : /\ f[i] \in SavedJar
                           /\ Key(f[i]) \notin sp => Once(f[i].cookies),
         OneEach(f, cap)
  PROVE  f \in Files(cap, sp)
<1>1. f \in [1 .. n -> SavedJar]
  OBVIOUS
<1>2. f \in Seq(SavedJar)
  BY <1>1, SeqDef
<1> QED
  BY <1>2 DEF Files

\* What is known of some jars is known of them if there are more exceptions.
LEMMA MoreExceptions ==
  ASSUME NEW cap, NEW sp, NEW more, cap \subseteq more,
         NEW js \in JarLists(cap, sp), NEW f \in Files(cap, sp)
  PROVE  /\ js \in JarLists(more, sp)
         /\ f \in Files(more, sp)
         /\ \A x : js \in JarLists(cap, sp \cup {x})
                   /\ f \in Files(cap, sp \cup {x})
BY DEF JarLists, Files, OneEach

\* One jar has other slots.
LEMMA JarFilled ==
  ASSUME NEW cap, NEW sp, NEW js \in JarLists(cap, sp), NEW n \in DOMAIN js,
         NEW s \in Slots, Distinct(js[n].slots) => Distinct(s)
  PROVE  [js EXCEPT ![n].slots = s] \in JarLists(cap, sp)
<1> DEFINE ks == [js EXCEPT ![n].slots = s]
<1>1. /\ Len(js) \in Nat /\ DOMAIN js = 1 .. Len(js)
      /\ \A i \in DOMAIN js : /\ js[i] \in Jar
                              /\ Key(js[i]) \notin sp => Distinct(js[i].slots)
      /\ OneEach(js, cap)
  BY JarListShape
<1>2. DOMAIN ks = 1 .. Len(js) /\ ks = [i \in 1 .. Len(js) |-> ks[i]]
  BY <1>1
<1>3. ASSUME NEW i \in 1 .. Len(js)
      PROVE  /\ ks[i] \in Jar /\ ks[i].host = js[i].host /\ ks[i].dom = js[i].dom
             /\ Key(ks[i]) \notin sp => Distinct(ks[i].slots)
  <2>1. ks[i] = IF i = n THEN [js[i] EXCEPT !.slots = s] ELSE js[i]
    BY <1>1
  <2>2. js[i] \in Jar
    BY <1>1
  <2>3. /\ ks[i] \in Jar /\ ks[i].host = js[i].host /\ ks[i].dom = js[i].dom
        /\ ks[i].slots = IF i = n THEN s ELSE js[i].slots
    BY <2>1, <2>2 DEF Jar
  <2>4. Key(ks[i]) = Key(js[i])
    BY <2>3 DEF Key
  <2> QED
    BY <1>1, <2>3, <2>4
<1> HIDE DEF ks
<1>4. OneEach(ks, cap)
  BY <1>1, <1>2, <1>3 DEF OneEach, SameJar
<1>5. ks \in JarLists(cap, sp)
  BY <1>1, <1>2, <1>3, <1>4, JarListFromDomain
<1> QED
  BY <1>5 DEF ks

LEMMA LoadedJars ==
  ASSUME NEW cap, NEW sp, NEW text \in Files(cap, sp)
  PROVE  Loaded(text) \in JarLists(cap, sp)
<1> DEFINE I == {n \in DOMAIN text : Wanted(text[n]) # {}}
           s == [n \in DOMAIN text |->
                   [host |-> text[n].host, dom |-> text[n].dom,
                    slots |-> Filled(Picked(text[n].cookies, Wanted(text[n])))]]
           N == Len(text)
<1>1. /\ N \in Nat /\ DOMAIN text = 1 .. N
      /\ \A n \in DOMAIN text : /\ text[n] \in SavedJar
                                /\ Key(text[n]) \notin sp => Once(text[n].cookies)
      /\ OneEach(text, cap)
  BY FileShape
<1>2. I \in SUBSET (1 .. N)
  BY <1>1
<1>3. ASSUME NEW n \in I
      PROVE  /\ s[n] \in Jar /\ s[n].host = text[n].host /\ s[n].dom = text[n].dom
             /\ Key(s[n]) \notin sp => Distinct(s[n].slots)
  <2>1. text[n].cookies \in Lists /\ text[n].host \in Host
        /\ text[n].dom \in Domain \cup {Nil}
    BY <1>1 DEF SavedJar
  <2>2. Wanted(text[n]) \in SUBSET (DOMAIN text[n].cookies)
    BY DEF Wanted
  <2>3. /\ Filled(Picked(text[n].cookies, Wanted(text[n]))) \in Slots
        /\ Once(text[n].cookies)
             => Distinct(Filled(Picked(text[n].cookies, Wanted(text[n]))))
    BY <2>1, <2>2, FilledSlots
  <2>4. Key(s[n]) = Key(text[n])
    BY DEF Key
  <2> QED
    BY <1>1, <2>1, <2>3, <2>4 DEF Jar
<1>4. \A i, k \in I : SameJar(s[i], s[k]) /\ s[i].dom \notin cap => i = k
  BY <1>1, <1>3 DEF OneEach, SameJar
<1>5. Loaded(text) = Picked(s, I)
  BY DEF Loaded
<1>6. N \in Nat /\ I \in SUBSET (1 .. N) /\ \A n \in I : s[n] \in Jar
  BY <1>1, <1>2, <1>3
<1> HIDE DEF I, s, N
<1>7. Picked(s, I) \in Seq(Jar) /\ OneEach(Picked(s, I), cap)
  BY ONLY <1>4, <1>6, SomeOfEach
<1>8. \A k \in DOMAIN Picked(s, I) : \E i \in I : Picked(s, I)[k] = s[i]
  <2>1. N \in Nat /\ I \in SUBSET (1 .. N)
    BY <1>6
  <2>2. \A k \in 1 .. Cardinality(I) : Nth(I, k) \in I
    BY ONLY <2>1, NthPlace
  <2> QED
    BY <2>2 DEF Picked
<1> QED
  BY <1>3, <1>5, <1>7, <1>8 DEF JarLists

LEMMA SavedFile ==
  ASSUME NEW cap, NEW sp, jars \in JarLists(cap, sp)
  PROVE  Saved \in Files(cap, sp)
<1> DEFINE I == {n \in DOMAIN jars : Kept(jars[n].slots) # {}}
           s == [n \in DOMAIN jars |->
                   [host |-> jars[n].host, dom |-> jars[n].dom,
                    cookies |-> Picked(jars[n].slots, Kept(jars[n].slots))]]
           N == Len(jars)
<1>1. /\ N \in Nat /\ DOMAIN jars = 1 .. N
      /\ \A n \in DOMAIN jars : /\ jars[n] \in Jar
                                /\ Key(jars[n]) \notin sp => Distinct(jars[n].slots)
      /\ OneEach(jars, cap)
  BY JarListShape
<1>2. I \in SUBSET (1 .. N)
  BY <1>1
<1>3. ASSUME NEW n \in I
      PROVE  /\ s[n] \in SavedJar
             /\ s[n].host = jars[n].host /\ s[n].dom = jars[n].dom
             /\ Key(s[n]) \notin sp => Once(s[n].cookies)
  <2>1. jars[n].slots \in Slots /\ jars[n].host \in Host
        /\ jars[n].dom \in Domain \cup {Nil}
    BY <1>1 DEF Jar
  <2>2. Kept(jars[n].slots) \in SUBSET Shown(jars[n].slots)
    BY DEF Kept
  <2>3. /\ Picked(jars[n].slots, Kept(jars[n].slots)) \in Lists
        /\ Distinct(jars[n].slots)
             => Once(Picked(jars[n].slots, Kept(jars[n].slots)))
    BY <2>1, <2>2, SavedList
  <2>4. Key(s[n]) = Key(jars[n])
    BY DEF Key
  <2> QED
    BY <1>1, <2>1, <2>3, <2>4 DEF SavedJar
<1>4. \A i, k \in I : SameJar(s[i], s[k]) /\ s[i].dom \notin cap => i = k
  BY <1>1, <1>3 DEF OneEach, SameJar
<1>5. Saved = Picked(s, I)
  BY DEF Saved
<1>6. N \in Nat /\ I \in SUBSET (1 .. N) /\ \A n \in I : s[n] \in SavedJar
  BY <1>1, <1>2, <1>3
<1> HIDE DEF I, s, N
<1>7. Picked(s, I) \in Seq(SavedJar) /\ OneEach(Picked(s, I), cap)
  BY ONLY <1>4, <1>6, SomeOfEach
<1>8. \A k \in DOMAIN Picked(s, I) : \E i \in I : Picked(s, I)[k] = s[i]
  <2>1. N \in Nat /\ I \in SUBSET (1 .. N)
    BY <1>6
  <2>2. \A k \in 1 .. Cardinality(I) : Nth(I, k) \in I
    BY ONLY <2>1, NthPlace
  <2> QED
    BY <2>2 DEF Picked
<1> QED
  BY <1>3, <1>5, <1>7, <1>8 DEF Files

\* The file that a crash left behind
LEMMA CutFile ==
  ASSUME NEW cap, NEW sp, NEW f \in Files(cap, sp), NEW n \in DOMAIN f,
         NEW k \in DOMAIN f[n].cookies
  PROVE  Cut(f, n, k) \in Files(cap, sp) /\ Cut(f, n, k) # <<>>
<1> DEFINE g == Cut(f, n, k)
           c == SubSeq(f[n].cookies, 1, k)
<1>1. /\ Len(f) \in Nat /\ DOMAIN f = 1 .. Len(f)
      /\ \A i \in DOMAIN f : /\ f[i] \in SavedJar
                             /\ Key(f[i]) \notin sp => Once(f[i].cookies)
      /\ OneEach(f, cap)
  BY FileShape
<1>2. f[n] \in SavedJar /\ f[n].cookies \in Lists
  BY <1>1 DEF SavedJar
<1>3. c \in Lists /\ (Once(f[n].cookies) => Once(c))
  <2>1. /\ f[n].cookies \in Seq(Cookie) /\ Len(f[n].cookies) \in Slot
        /\ DOMAIN f[n].cookies = 1 .. Len(f[n].cookies)
        /\ \A i \in DOMAIN f[n].cookies : f[n].cookies[i] \in Cookie
    BY <1>2, ListShape DEF Lists
  <2>2. JarSize \in Nat \ {0} /\ Slot = 1 .. JarSize
    BY JarSizeAssumption DEF Slot
  <2>3. k \in Slot /\ k \in Nat /\ \A i \in 1 .. k : f[n].cookies[i] \in Cookie
    BY <2>1, <2>2
  <2>4. /\ c \in Seq(Cookie) /\ Len(c) = k
        /\ DOMAIN c = 1 .. k /\ \A i \in 1 .. k : c[i] = f[n].cookies[i]
    BY <2>1, <2>2, <2>3
  <2>5. \A i \in 1 .. k : i \in DOMAIN f[n].cookies
    BY <2>1, <2>2, <2>3
  <2> HIDE DEF c
  <2> QED
    BY <2>3, <2>4, <2>5 DEF Lists, Once
<1>4. n \in Nat \ {0} /\ DOMAIN g = 1 .. n /\ g = [i \in 1 .. n |-> g[i]]
  BY <1>1 DEF Cut
<1>5. ASSUME NEW i \in 1 .. n
      PROVE  /\ g[i] \in SavedJar /\ i \in DOMAIN f
             /\ g[i].host = f[i].host /\ g[i].dom = f[i].dom
             /\ Key(g[i]) \notin sp => Once(g[i].cookies)
  <2>1. i \in DOMAIN f /\ f[i] \in SavedJar
    BY <1>1, <1>4
  <2>2. CASE i < n
    BY <1>1, <2>1, <2>2 DEF Cut
  <2>3. CASE i = n
    <3>1. g[n] = [f[n] EXCEPT !.cookies = c]
      BY <1>4, <2>3 DEF Cut
    <3> HIDE DEF g, c
    <3>2. /\ g[n] \in SavedJar /\ g[n].cookies = c
          /\ g[n].host = f[n].host /\ g[n].dom = f[n].dom
      BY <1>2, <1>3, <3>1 DEF SavedJar
    <3> QED
      BY <1>1, <1>3, <2>1, <2>3, <3>2 DEF Key
  <2> QED
    BY <1>4, <2>2, <2>3
<1> HIDE DEF g
<1>6. OneEach(g, cap)
  BY <1>1, <1>4, <1>5 DEF OneEach, SameJar
<1>7. g \in Files(cap, sp)
  BY <1>4, <1>5, <1>6, FileFromDomain
<1>8. g # <<>>
  BY <1>4
<1> QED
  BY <1>7, <1>8 DEF g

\* As it is read, its last jar may have doubles; the cookies are as many, and
\* they expire when they did.
AsLong(text) ==
  /\ DOMAIN text = DOMAIN file
  /\ \A n \in DOMAIN file :
       /\ text[n].host = file[n].host
       /\ DOMAIN text[n].cookies = DOMAIN file[n].cookies
       /\ \A i \in DOMAIN file[n].cookies :
            text[n].cookies[i].expires = file[n].cookies[i].expires

LEMMA ReadFile ==
  ASSUME NEW cap, NEW sp, file \in Files(cap, sp), torn => file # <<>>,
         NEW text \in Readings
  PROVE  /\ text \in Files(cap, IF torn THEN sp \cup {Key(Last(file))} ELSE sp)
         /\ AsLong(text)
<1>1. CASE ~torn
  BY <1>1 DEF Readings, AsLong
<1>2. CASE torn
  <2> DEFINE N == Len(file)
             j == file[N]
             L == Len(j.cookies)
             more == sp \cup {Key(j)}
  <2>1. /\ N \in Nat /\ DOMAIN file = 1 .. N
        /\ \A i \in DOMAIN file : /\ file[i] \in SavedJar
                                  /\ Key(file[i]) \notin sp => Once(file[i].cookies)
        /\ OneEach(file, cap)
        /\ file \in Seq(SavedJar)
    BY FileShape DEF Files
  <2>2. N \in Nat \ {0} /\ Last(file) = j
    BY <1>2, <2>1 DEF Last
  <2>3. j \in SavedJar /\ j.cookies \in Lists
    BY <2>1, <2>2 DEF SavedJar
  <2>4. /\ j.cookies \in Seq(Cookie) /\ L \in Nat \ {0} /\ L \in Slot
        /\ DOMAIN j.cookies = 1 .. L /\ \A i \in 1 .. L : j.cookies[i] \in Cookie
    BY <2>3, ListShape, JarSizeAssumption DEF Lists, Slot
  <2>5. PICK c \in Misread(j.cookies[L]) :
          text = Front(file) \o <<Ended(j, c)>>
    BY <1>2, <2>2, <2>4 DEF Readings, Last
  <2>6. c \in Cookie /\ c.expires = j.cookies[L].expires
    <3>1. /\ c \in Cookie /\ j.cookies[L] \in Cookie
          /\ c = [j.cookies[L] EXCEPT !.name = c.name, !.path = c.path]
      BY <2>4 DEF Misread
    <3> HIDE DEF L, j
    <3> QED
      BY <3>1 DEF Cookie
  <2> DEFINE e == Front(j.cookies) \o <<c>>
  <2>7. /\ e \in Lists /\ DOMAIN e = 1 .. L
        /\ \A i \in 1 .. L : e[i].expires = j.cookies[i].expires
    <3> DEFINE f == Front(j.cookies)
               k == j.cookies
    <3>1. /\ f \in Seq(Cookie) /\ Len(f) = L - 1
          /\ \A i \in 1 .. L - 1 : f[i] = k[i]
      BY <2>4 DEF Front
    <3>2. /\ e = f \o <<c>> /\ c \in Cookie /\ L \in Nat \ {0}
          /\ c.expires = k[L].expires
      BY <2>4, <2>6
    <3> HIDE DEF L, f, k, e
    <3>3. /\ e \in Seq(Cookie) /\ Len(e) = L /\ DOMAIN e = 1 .. L
          /\ e[L] = c /\ \A i \in 1 .. L - 1 : e[i] = f[i]
      BY <3>1, <3>2
    <3>4. \A i \in 1 .. L : e[i].expires = k[i].expires
      BY <3>1, <3>2, <3>3
    <3> QED
      BY <2>4, <3>3, <3>4 DEF Lists, k
  <2>8. Ended(j, c) = [j EXCEPT !.cookies = e]
    BY <2>3 DEF Ended, SavedJar
  <2> HIDE DEF e
  <2>9. /\ Ended(j, c) \in SavedJar /\ Ended(j, c).cookies = e
        /\ Ended(j, c).host = j.host /\ Ended(j, c).dom = j.dom
    BY <2>3, <2>7, <2>8 DEF SavedJar
  <2>10. /\ Front(file) \in Seq(SavedJar) /\ Len(Front(file)) = N - 1
         /\ \A i \in 1 .. N - 1 : Front(file)[i] = file[i]
    BY <2>1, <2>2 DEF Front
  <2>11. /\ text \in Seq(SavedJar) /\ Len(text) = N /\ DOMAIN text = 1 .. N
         /\ text[N] = Ended(j, c)
         /\ \A i \in 1 .. N : i # N => text[i] = file[i]
    <3> DEFINE h == Front(file)
               x == Ended(j, c)
    <3>1. /\ h \in Seq(SavedJar) /\ Len(h) = N - 1 /\ x \in SavedJar
          /\ \A i \in 1 .. N - 1 : h[i] = file[i]
          /\ text = h \o <<x>> /\ N \in Nat \ {0}
      BY <2>2, <2>5, <2>9, <2>10
    <3> HIDE DEF h, x, N
    <3>2. /\ text \in Seq(SavedJar) /\ Len(text) = N /\ DOMAIN text = 1 .. N
          /\ text[N] = x /\ \A i \in 1 .. N - 1 : text[i] = h[i]
      BY <3>1
    <3> QED
      BY <3>1, <3>2 DEF x
  <2>16. AsLong(text)
    <3>2. /\ text[N].host = j.host /\ text[N].cookies = e
          /\ DOMAIN j.cookies = 1 .. L /\ DOMAIN e = 1 .. L
          /\ \A i \in 1 .. L : e[i].expires = j.cookies[i].expires
      <4> HIDE DEF j, L, N
      <4> QED
        BY <2>4, <2>7, <2>9, <2>11
    <3> HIDE DEF N
    <3>1. ASSUME NEW n \in 1 .. N
          PROVE  /\ text[n].host = file[n].host
                 /\ DOMAIN text[n].cookies = DOMAIN file[n].cookies
                 /\ \A i \in DOMAIN file[n].cookies :
                      text[n].cookies[i].expires = file[n].cookies[i].expires
      <4>1. CASE n = N
        <5> HIDE DEF L
        <5> QED
          BY <3>2, <4>1
      <4>2. CASE n # N
        BY <2>11, <4>2
      <4> QED
        BY <4>1, <4>2
    <3> QED
      BY <2>1, <2>11, <3>1 DEF AsLong
  <2> DEFINE x == Ended(j, c)
  <2> HIDE DEF N, x
  <2>12. \A i \in 1 .. N : text[i].host = file[i].host /\ text[i].dom = file[i].dom
    BY <2>9, <2>11 DEF x
  <2>13. OneEach(text, cap)
    BY <2>1, <2>11, <2>12 DEF OneEach, SameJar
  <2>14. \A i \in 1 .. N : Key(text[i]) \notin more => Once(text[i].cookies)
    BY <2>1, <2>9, <2>11 DEF Key
  <2>15. text \in Files(cap, more)
    BY <2>11, <2>13, <2>14 DEF Files
  <2> QED
    BY <1>2, <2>2, <2>15, <2>16
<1> QED
  BY <1>1, <1>2

\* A request that strands no cookie
LEMMA PurgedJars ==
  ASSUME NEW cap, NEW sp, NEW js \in JarLists(cap, sp), NEW h, ~Strands(js, h)
  PROVE  PurgedFor(js, h) \in JarLists(cap, sp)
<1> DEFINE ks == PurgedFor(js, h)
<1>1. /\ Len(js) \in Nat /\ DOMAIN js = 1 .. Len(js)
      /\ \A i \in DOMAIN js : /\ js[i] \in Jar
                              /\ Key(js[i]) \notin sp => Distinct(js[i].slots)
      /\ OneEach(js, cap)
  BY JarListShape
<1>2. DOMAIN ks = 1 .. Len(js) /\ ks = [i \in 1 .. Len(js) |-> ks[i]]
  BY <1>1 DEF PurgedFor
<1>3. ASSUME NEW i \in 1 .. Len(js)
      PROVE  /\ ks[i] \in Jar /\ ks[i].host = js[i].host /\ ks[i].dom = js[i].dom
             /\ Key(ks[i]) \notin sp => Distinct(ks[i].slots)
  <2>1. js[i] \in Jar /\ js[i].slots \in Slots
    BY <1>1 DEF Jar
  <2>2. CASE JarMatches(js[i], h)
    <3>1. Shown(js[i].slots) = Slot => \A q \in Slot : ~Expired(js[i].slots[q])
      BY <1>1, <2>2 DEF Strands
    <3>2. /\ Purged(js[i].slots) \in Slots
          /\ Distinct(js[i].slots) => Distinct(Purged(js[i].slots))
      BY <2>1, <3>1, PurgedSlots
    <3>3. ks[i] = [js[i] EXCEPT !.slots = Purged(js[i].slots)]
      BY <1>1, <2>2 DEF PurgedFor
    <3> HIDE DEF ks
    <3>4. /\ ks[i] \in Jar /\ ks[i].host = js[i].host /\ ks[i].dom = js[i].dom
          /\ ks[i].slots = Purged(js[i].slots)
      BY <2>1, <3>2, <3>3 DEF Jar
    <3>5. Key(ks[i]) = Key(js[i])
      BY <3>4 DEF Key
    <3> QED
      BY <1>1, <3>2, <3>4, <3>5
  <2>3. CASE ~JarMatches(js[i], h)
    BY <1>1, <2>1, <2>3 DEF PurgedFor
  <2> QED
    BY <2>2, <2>3
<1> HIDE DEF ks
<1>4. OneEach(ks, cap)
  BY <1>1, <1>2, <1>3 DEF OneEach, SameJar
<1>5. ks \in JarLists(cap, sp)
  BY <1>1, <1>2, <1>3, <1>4, JarListFromDomain
<1> QED
  BY <1>5 DEF ks

-----------------------------------------------------------------------------
(***************************************************************************)
(* The invariant, from which Jars follows: the file is as good as the jars *)
(* are, for the next session reads it.                                     *)
(***************************************************************************)
IInv ==
  /\ jars \in JarLists(capitals, spoilt)
  /\ file \in Files(capitals, spoilt)
  /\ {changed, running, loaded, torn} \subseteq BOOLEAN
  /\ torn => file # <<>>
  /\ refused \subseteq Refusable
  /\ now \in 1 .. MaxTime /\ sets \in 0 .. MaxSets
  /\ capitals \subseteq Domain
  /\ spoilt \subseteq Host \X (Domain \cup {Nil})

LEMMA NoJars ==
  ASSUME NEW cap, NEW sp
  PROVE  <<>> \in JarLists(cap, sp) /\ <<>> \in Files(cap, sp)
BY DEF JarLists, Files, OneEach

LEMMA InitInv == Init => IInv
<1> SUFFICES ASSUME Init PROVE IInv
  OBVIOUS
<1>1. jars \in JarLists(capitals, spoilt) /\ file \in Files(capitals, spoilt)
  BY NoJars DEF Init
<1>2. now \in 1 .. MaxTime /\ sets \in 0 .. MaxSets
  BY BoundsAssumption, TimeAssumption DEF Init
<1>3. {changed, running, loaded, torn} \subseteq BOOLEAN /\ refused \subseteq Refusable
  BY DEF Init
<1> QED
  BY <1>1, <1>2, <1>3 DEF IInv, Init

LEMMA RequestInv ==
  ASSUME "expire" \notin Careless, IInv, NEW h \in Host, Request(h)
  PROVE  IInv'
<1>1. PICK text \in Readings :
        LET old == IF loaded THEN jars ELSE Loaded(text)
            new == PurgedFor(old, h)
        IN  /\ "expire" \in Careless \/ ~Strands(old, h)
            /\ jars' = IF h \in refused THEN old ELSE new
            /\ changed' = (changed \/ (~loaded /\ Skips) \/ jars' # old)
  BY DEF Request
<1> DEFINE old == IF loaded THEN jars ELSE Loaded(text)
           x == Key(Last(file))
<1>2. spoilt' = IF ~loaded /\ torn THEN spoilt \cup {x} ELSE spoilt
  BY DEF Request, Key
<1>3. old \in JarLists(capitals, spoilt') /\ file \in Files(capitals, spoilt')
      /\ spoilt' \subseteq Host \X (Domain \cup {Nil})
  <2>1. /\ jars \in JarLists(capitals, spoilt) /\ file \in Files(capitals, spoilt)
        /\ spoilt \subseteq Host \X (Domain \cup {Nil})
        /\ torn => file # <<>>
    BY DEF IInv
  <2>2. CASE loaded
    BY <1>2, <2>1, <2>2
  <2>3. CASE ~loaded
    <3>1. text \in Files(capitals, IF torn THEN spoilt \cup {x} ELSE spoilt)
      BY <2>1, ReadFile
    <3>2. text \in Files(capitals, spoilt')
      BY <1>2, <2>3, <3>1
    <3>3. Loaded(text) \in JarLists(capitals, spoilt')
      BY <3>2, LoadedJars
    <3>4. file \in Files(capitals, spoilt')
      BY <1>2, <2>1, MoreExceptions
    <3>5. torn => x \in Host \X (Domain \cup {Nil})
      <4> SUFFICES ASSUME torn
                   PROVE  x \in Host \X (Domain \cup {Nil})
        OBVIOUS
      <4>1. Len(file) \in DOMAIN file
        BY <2>1, FileShape
      <4>2. Last(file) \in SavedJar
        BY <2>1, <4>1, FileShape DEF Last
      <4> QED
        BY <4>2 DEF SavedJar, Key
    <3> QED
      BY <1>2, <2>1, <2>3, <3>3, <3>4, <3>5
  <2> QED
    BY <2>2, <2>3
<1>4. ~Strands(old, h)
  BY <1>1
<1>5. jars' = IF h \in refused THEN old ELSE PurgedFor(old, h)
  BY <1>1
<1>6. changed' \in BOOLEAN
  BY <1>1 DEF IInv
<1> HIDE DEF old
<1>7. jars' \in JarLists(capitals, spoilt')
  BY <1>3, <1>4, <1>5, PurgedJars
<1> QED
  BY <1>3, <1>6, <1>7 DEF Request, IInv

\* The jars that match a cookie, and the one that is used
LEMMA FoundPlaces ==
  ASSUME IInv, NEW h \in Host, NEW d \in Domain \cup {Nil}, NEW lower \in BOOLEAN,
         Found(h, d, lower) # {}
  PROVE  LET n == First(Found(h, d, lower))
         IN  /\ n \in DOMAIN jars
             /\ jars[n] \in Jar /\ jars[n].slots \in Slots
<1>1. /\ DOMAIN jars = 1 .. Len(jars)
      /\ \A n \in DOMAIN jars : jars[n] \in Jar /\ jars[n].slots \in Slots
  BY JarListShape DEF IInv, Jar
<1>2. Found(h, d, lower) \in SUBSET (DOMAIN jars)
  BY DEF Found, JarOf
<1>3. Found(h, d, lower) \in SUBSET Nat
  BY <1>1, <1>2
<1>4. First(Found(h, d, lower)) \in Found(h, d, lower)
  BY <1>3, FirstOf
<1> QED
  BY <1>1, <1>2, <1>4

\* A jar is created if none matches, and in front of the others: then there is
\* none for the same host, or the domain is one of those written in capitals.
LEMMA OpenedJars ==
  ASSUME IInv, NEW h \in Host, NEW d \in Domain \cup {Nil}, NEW lower \in BOOLEAN,
         d = Nil => lower,
         NEW cap, cap = IF lower THEN capitals ELSE capitals \cup {d}
  PROVE  /\ Opened(h, d, Found(h, d, lower)) \in JarLists(cap, spoilt)
         /\ OpenedAt(Found(h, d, lower)) \in DOMAIN Opened(h, d, Found(h, d, lower))
<1> DEFINE found == Found(h, d, lower)
<1>0. jars \in JarLists(cap, spoilt)
  <2>1. capitals \subseteq cap
    OBVIOUS
  <2> QED
    BY <2>1, MoreExceptions DEF IInv
<1>1. /\ Len(jars) \in Nat /\ DOMAIN jars = 1 .. Len(jars)
      /\ \A n \in DOMAIN jars : /\ jars[n] \in Jar
                                /\ Key(jars[n]) \notin spoilt => Distinct(jars[n].slots)
      /\ OneEach(jars, cap)
  BY <1>0, JarListShape
<1>2. CASE found = {}
  <2> DEFINE j == [host |-> h, dom |-> d, slots |-> Empty]
             ks == <<j>> \o jars
  <2>1. j \in Jar /\ Distinct(j.slots)
    BY EmptySlots DEF Jar
  <2>2. jars \in Seq(Jar)
    BY <1>0 DEF JarLists
  <2>3. /\ ks \in Seq(Jar) /\ Len(ks) = 1 + Len(jars)
        /\ DOMAIN ks = 1 .. 1 + Len(jars)
        /\ ks[1] = j
        /\ \A n \in 2 .. 1 + Len(jars) : ks[n] = jars[n - 1]
    BY <1>1, <2>1, <2>2
  <2>4. d \in cap \/ \A n \in DOMAIN jars : ~SameJar(jars[n], j) /\ ~SameJar(j, jars[n])
    BY <1>2 DEF Found, JarOf, SameJar
  <2>5. j.dom = d
    OBVIOUS
  <2> HIDE DEF j, ks
  <2>6. \A i \in DOMAIN ks : i # 1 => /\ i - 1 \in DOMAIN jars
                                      /\ ks[i] = jars[i - 1]
    BY <1>1, <2>3
  <2>7. OneEach(ks, cap)
    <3> SUFFICES ASSUME NEW n \in DOMAIN ks, NEW m \in DOMAIN ks,
                        SameJar(ks[n], ks[m]), ks[n].dom \notin cap
                 PROVE  n = m
      BY DEF OneEach
    <3>1. ks[m].dom = ks[n].dom
      BY DEF SameJar
    <3>2. CASE n = 1 /\ m # 1
      BY <2>3, <2>4, <2>5, <2>6, <3>2
    <3>3. CASE n # 1 /\ m = 1
      BY <2>3, <2>4, <2>5, <2>6, <3>1, <3>3
    <3>4. CASE n # 1 /\ m # 1
      <4>1. n - 1 = m - 1
        BY <1>1, <2>6, <3>4 DEF OneEach
      <4> QED
        BY <2>3, <4>1
    <3> QED
      BY <3>2, <3>3, <3>4
  <2>8. \A n \in DOMAIN ks : Key(ks[n]) \notin spoilt => Distinct(ks[n].slots)
    BY <1>1, <2>1, <2>3, <2>6
  <2>9. ks \in JarLists(cap, spoilt)
    BY <2>3, <2>7, <2>8 DEF JarLists
  <2>10. Opened(h, d, found) = ks /\ OpenedAt(found) = 1
    BY <1>2 DEF Opened, OpenedAt, ks, j
  <2> QED
    BY <1>1, <2>3, <2>9, <2>10
<1>3. CASE found # {}
  <2>1. First(found) \in DOMAIN jars
    BY <1>3, FoundPlaces
  <2> QED
    BY <1>0, <1>3, <2>1 DEF Opened, OpenedAt
<1> QED
  BY <1>2, <1>3

\* What the domain d, written as lower says, adds to those in capitals
Capital(d, lower) == IF lower THEN capitals ELSE capitals \cup {d}

LEMMA ComesInv ==
  ASSUME IInv, NEW h \in Host, Comes(h), changed' \in BOOLEAN,
         NEW d \in Domain \cup {Nil}, NEW lower \in BOOLEAN, d = Nil => lower,
         capitals' = Capital(d, lower), jars' \in JarLists(capitals', spoilt)
  PROVE  IInv'
<1>1. capitals \subseteq capitals' /\ capitals' \subseteq Domain
  BY DEF Capital, IInv
<1>2. file \in Files(capitals', spoilt)
  BY <1>1, MoreExceptions DEF IInv
<1> QED
  BY <1>1, <1>2, BoundsAssumption DEF Comes, IInv

LEMMA CreateInv ==
  ASSUME IInv, NEW h \in Host, NEW d \in Domain \cup {Nil}, NEW c \in Cookie,
         NEW lower \in BOOLEAN, d = Nil => lower, capitals' = Capital(d, lower),
         Create(h, d, Found(h, d, lower), c)
  PROVE  IInv'
<1> DEFINE js == Opened(h, d, Found(h, d, lower))
           n == OpenedAt(Found(h, d, lower))
           s == Room(js[n].slots)
           k == [c EXCEPT !.max = c.value]
           t == ToFront(s, First({i \in Slot : s[i] = Nil}), k)
<1>1. js \in JarLists(capitals', spoilt) /\ n \in DOMAIN js
  BY OpenedJars DEF Capital
<1>2. js[n].slots \in Slots
  <2>1. js[n] \in Jar
    BY <1>1, JarListShape
  <2> QED
    BY <2>1 DEF Jar
<1>3. k \in Cookie /\ SameCookie(k, c)
  BY DEF Cookie, SameCookie
<1>4. Same(js[n].slots, c.name, c.path) = {}
  BY DEF Create
<1>5. t \in Slots /\ (Distinct(js[n].slots) => Distinct(t))
  <2> HIDE DEF js, n, k
  <2> QED
    BY <1>2, <1>3, <1>4, CreateSlots
<1>6. jars' = [js EXCEPT ![n].slots = t]
  BY DEF Create
<1>7. changed' \in BOOLEAN /\ Comes(h)
  BY DEF Create
<1> HIDE DEF js, n, t
<1>8. jars' \in JarLists(capitals', spoilt)
  BY <1>1, <1>5, <1>6, JarFilled
<1> QED
  BY <1>7, <1>8, ComesInv

\* What cookie_set() does to a cookie it finds
FoundAt(s, c) == First(Same(s, c.name, c.path))

LEMMA FoundShown ==
  ASSUME NEW s \in Slots, NEW c, Same(s, c.name, c.path) # {}
  PROVE  /\ FoundAt(s, c) \in Shown(s) /\ FoundAt(s, c) \in Slot
         /\ s[FoundAt(s, c)] \in Cookie /\ s[FoundAt(s, c)] # Nil
         /\ SameCookie(s[FoundAt(s, c)], c)
<1>1. Same(s, c.name, c.path) \in SUBSET Nat
  BY DEF Same, Shown, Slot
<1>2. FoundAt(s, c) \in Same(s, c.name, c.path)
  BY <1>1, FirstOf DEF FoundAt
<1>3. FoundAt(s, c) \in Shown(s) /\ SameCookie(s[FoundAt(s, c)], c)
  BY <1>2 DEF Same, SameCookie
<1> QED
  BY <1>3, SlotsShown, NilAssumption

\* One of the jars has other slots, and the domains in capitals are as many or
\* more.
LEMMA RefilledInv ==
  ASSUME IInv, NEW h \in Host, Comes(h), changed' \in BOOLEAN,
         NEW d \in Domain \cup {Nil}, NEW lower \in BOOLEAN, d = Nil => lower,
         capitals' = Capital(d, lower),
         NEW n \in DOMAIN jars, NEW t \in Slots,
         Distinct(jars[n].slots) => Distinct(t),
         jars' = [jars EXCEPT ![n].slots = t]
  PROVE  IInv'
<1>1. jars' \in JarLists(capitals, spoilt)
  BY JarFilled DEF IInv
<1>2. capitals \subseteq capitals' /\ file \in Files(capitals, spoilt)
  BY DEF Capital, IInv
<1>3. jars' \in JarLists(capitals', spoilt)
  BY <1>1, <1>2, MoreExceptions
<1> QED
  BY <1>3, ComesInv

Changed(old, c) == [old EXCEPT !.value = c.value,
                               !.max = IF old.max < c.value THEN c.value ELSE @,
                               !.expires = IF c.expires # 0 THEN c.expires ELSE @]

LEMMA ChangeInv ==
  ASSUME IInv, NEW h \in Host, NEW d \in Domain \cup {Nil}, NEW c \in Cookie,
         NEW lower \in BOOLEAN, d = Nil => lower, capitals' = Capital(d, lower),
         Change(h, Found(h, d, lower), c)
  PROVE  IInv'
<1> DEFINE n == First(Found(h, d, lower))
           s == jars[n].slots
           i == FoundAt(s, c)
           k == Changed(s[i], c)
<1>1. /\ Found(h, d, lower) # {}
      /\ Same(s, c.name, c.path) # {}
      /\ jars' = [jars EXCEPT ![n].slots = ToFront(s, i, k)]
      /\ changed' = (changed \/ s[i].max < c.value)
      /\ Comes(h)
  BY DEF Change, FoundAt, Changed
<1>2. n \in DOMAIN jars /\ s \in Slots
  BY <1>1, FoundPlaces
<1> HIDE DEF n
<1>3. i \in Shown(s) /\ s[i] \in Cookie
  BY <1>1, <1>2, FoundShown
<1> HIDE DEF i
<1>4. k \in Cookie /\ SameCookie(k, s[i])
  BY <1>3 DEF Cookie, SameCookie, Changed
<1> HIDE DEF k
<1>5. /\ ToFront(s, i, k) \in Slots
      /\ Distinct(s) => Distinct(ToFront(s, i, k))
  BY <1>2, <1>3, <1>4, ChangeSlots
<1>6. changed' \in BOOLEAN
  BY <1>1 DEF IInv
<1> QED
  BY <1>1, <1>2, <1>5, <1>6, RefilledInv

LEMMA DeleteInv ==
  ASSUME IInv, NEW h \in Host, NEW d \in Domain \cup {Nil}, NEW c \in Cookie,
         NEW lower \in BOOLEAN, d = Nil => lower, capitals' = Capital(d, lower),
         Delete(h, Found(h, d, lower), c)
  PROVE  IInv'
<1> DEFINE n == First(Found(h, d, lower))
           s == jars[n].slots
           i == FoundAt(s, c)
<1>1. /\ Found(h, d, lower) # {}
      /\ Same(s, c.name, c.path) # {}
      /\ jars' = [jars EXCEPT ![n].slots = Destroyed(s, i, Behind(i))]
      /\ changed' \in BOOLEAN /\ Comes(h)
  BY DEF Delete, FoundAt
<1>2. n \in DOMAIN jars /\ s \in Slots
  BY <1>1, FoundPlaces
<1> HIDE DEF n
<1>3. i \in Slot
  BY <1>1, <1>2, FoundShown
<1> HIDE DEF i
<1>4. Destroyed(s, i, Behind(i)) = Closed(s, i)
  BY <1>2, <1>3, DestroyedCloses, SlotsShown
<1>5. Closed(s, i) \in Slots /\ (Distinct(s) => Distinct(Closed(s, i)))
  BY <1>2, <1>3, ClosedSlots
<1> QED
  BY <1>1, <1>2, <1>4, <1>5, RefilledInv

\* The ways of cookie_set()
Sets(h, d, lower, c) ==
  \/ Create(h, d, Found(h, d, lower), c)
  \/ Change(h, Found(h, d, lower), c)
  \/ Delete(h, Found(h, d, lower), c)

LEMMA SetPicks ==
  ASSUME NEW h \in Host, Set(h)
  PROVE  \E d \in Domain \cup {Nil}, lower \in BOOLEAN, c \in Cookie :
           /\ d = Nil => lower
           /\ capitals' = Capital(d, lower)
           /\ Sets(h, d, lower, c)
<1> DEFINE C(name, path, new) ==
             [name |-> name, path |-> path, value |-> new[1],
              expires |-> new[2], max |-> new[1]]
<1>1. PICK d \in {Nil} \cup {e \in Domain : h \in Members[e]}, lower \in BOOLEAN,
           name \in Name, path \in CommonPaths, new \in Contents :
        LET found == Found(h, d, lower)
            c == C(name, path, new)
        IN  /\ d = Nil => lower
            /\ Create(h, d, found, c) \/ Change(h, found, c) \/ Delete(h, found, c)
            /\ capitals' = IF lower THEN capitals ELSE capitals \cup {d}
  BY DEF Set
<1>2. CommonPaths \subseteq Paths
  BY CommonPath DEF CommonPaths
<1>3. C(name, path, new) \in Cookie
  BY <1>2, ContentsAssumption DEF Cookie
<1> QED
  BY <1>1, <1>3 DEF Sets, Capital

LEMMA OverInv ==
  ASSUME IInv, Over, file' \in Files(capitals, spoilt), torn' \in BOOLEAN,
         torn' => file' # <<>>
  PROVE  IInv'
BY NoJars DEF Over, IInv

LEMMA NextInv ==
  ASSUME "expire" \notin Careless, IInv, [Next]_vars
  PROVE  IInv'
<1>1. ASSUME NEW h \in Host, Request(h)
      PROVE  IInv'
  BY <1>1, RequestInv
<1>2. ASSUME NEW h \in Host, Set(h)
      PROVE  IInv'
  <2>1. PICK d \in Domain \cup {Nil}, lower \in BOOLEAN, c \in Cookie :
          /\ d = Nil => lower
          /\ capitals' = Capital(d, lower)
          /\ Sets(h, d, lower, c)
    BY <1>2, SetPicks
  <2> QED
    BY <2>1, CreateInv, ChangeInv, DeleteInv DEF Sets
<1>3. CASE Start
  BY <1>3 DEF Start, IInv
<1>4. CASE Exit
  <2>1. Saved \in Files(capitals, spoilt)
    BY SavedFile DEF IInv
  <2>2. CASE loaded /\ changed
    BY <1>4, <2>1, <2>2, OverInv DEF Exit
  <2>3. CASE ~(loaded /\ changed)
    BY <1>4, <2>3, OverInv DEF Exit, IInv
  <2> QED
    BY <2>2, <2>3
<1>5. CASE Crash
  BY <1>5, OverInv DEF Crash, IInv
<1>6. CASE CrashSaving
  <2>1. Saved \in Files(capitals, spoilt)
    BY SavedFile DEF IInv
  <2>2. file' = <<>> => file' \in Files(capitals, spoilt)
    BY NoJars
  <2>3. file' \in Files(capitals, spoilt) /\ torn' \in BOOLEAN /\ (torn' => file' # <<>>)
    BY <1>6, <2>1, <2>2, CutFile DEF CrashSaving
  <2> QED
    BY <1>6, <2>3, OverInv DEF CrashSaving
<1>7. CASE Tick
  BY <1>7, TimeAssumption DEF Tick, IInv
<1>8. CASE UNCHANGED vars
  BY <1>8 DEF vars, IInv
<1> QED
  BY <1>1, <1>2, <1>3, <1>4, <1>5, <1>6, <1>7, <1>8 DEF Next

LEMMA InvJars == IInv => Jars
<1> SUFFICES ASSUME IInv PROVE Jars
  OBVIOUS
<1>1. /\ Len(jars) \in Nat /\ DOMAIN jars = 1 .. Len(jars)
      /\ \A n \in DOMAIN jars :
           /\ jars[n] \in Jar
           /\ Key(jars[n]) \notin spoilt => Distinct(jars[n].slots)
      /\ OneEach(jars, capitals)
  BY JarListShape DEF IInv
<1>2. \A n \in DOMAIN jars : jars[n] \in [host : Host, dom : Domain \cup {Nil},
                                         slots : [Slot -> Cookie \cup {Nil}]]
  BY <1>1 DEF Jar, Slots
<1>3. ASSUME NEW n \in DOMAIN file
      PROVE  /\ file[n].host \in Host /\ file[n].dom \in Domain \cup {Nil}
             /\ Len(file[n].cookies) \in Slot
             /\ \A i \in DOMAIN file[n].cookies : file[n].cookies[i] \in Cookie
  <2>1. file[n] \in SavedJar
    BY FileShape DEF IInv
  <2> QED
    BY <2>1, ListShape DEF SavedJar
<1>4. TypeOK
  BY <1>2, <1>3 DEF TypeOK, IInv
<1>5. ASSUME NEW n \in DOMAIN jars
      PROVE  /\ \/ jars[n].dom \in capitals
                \/ JarOf(jars[n].host, jars[n].dom) = {n}
             /\ \A i \in Slot : jars[n].slots[i] # Nil => i \in Shown(jars[n].slots)
             /\ <<jars[n].host, jars[n].dom>> \notin spoilt =>
                  \A i, k \in Shown(jars[n].slots) :
                    jars[n].slots[i].name = jars[n].slots[k].name
                      /\ jars[n].slots[i].path = jars[n].slots[k].path => i = k
  <2>1. jars[n].dom \in capitals \/ JarOf(jars[n].host, jars[n].dom) = {n}
    BY <1>1 DEF JarOf, OneEach, SameJar
  <2>2. jars[n].slots \in Slots
    BY <1>1 DEF Jar
  <2>3. Shown(jars[n].slots) = {i \in Slot : jars[n].slots[i] # Nil}
    BY <2>2, SlotsShown
  <2>4. <<jars[n].host, jars[n].dom>> \notin spoilt => Distinct(jars[n].slots)
    BY <1>1 DEF Key
  <2> QED
    BY <2>1, <2>3, <2>4 DEF Distinct, SameCookie
<1> QED
  BY <1>4, <1>5 DEF Jars

\* If no cookie of a full jar expires, and destroy_cookie() leaves one behind
\* an empty slot: over any number of sessions, and of crashes at any line of
\* the file, the jars have no holes; no jar has a second one beside it but
\* that of a domain in capitals, and none has doubles but one of which a torn
\* cookie was read.
THEOREM JarsGood ==
  ASSUME "expire" \notin Careless
  PROVE  Spec => []Jars
<1>1. Init => IInv
  BY InitInv
<1>2. IInv /\ [Next]_vars => IInv'
  BY NextInv
<1>3. IInv => Jars
  BY InvJars
<1> QED
  BY <1>1, <1>2, <1>3, PTL DEF Spec

-----------------------------------------------------------------------------
(***************************************************************************)
(* The cookies that outlive the session, in memory and in the file, if     *)
(* they are not marked as changed.                                         *)
(***************************************************************************)
Entry(j, c) == <<j.host, j.dom, [c EXCEPT !.max = c.value]>>

LiveSlots(s, t) == {s[i] : i \in {i \in Shown(s) : s[i].expires > t}}

LiveIn(js, t) ==
  UNION {{Entry(js[n], c) : c \in LiveSlots(js[n].slots, t)} : n \in DOMAIN js}

LiveSaved(f, t) ==
  UNION {{Entry(f[n], c) : c \in {k \in Range(f[n].cookies) : k.expires > t}} :
           n \in DOMAIN f}

Agree ==
  running /\ loaded /\ ~changed =>
    \E text \in Readings : LiveIn(jars, now) = LiveSaved(text, now)

LEMMA StoredAgree == Stored <=> Agree
BY DEF Stored, Agree, LiveIn, LiveSaved, LiveSlots, Entry, Kept, Alive

LEMMA LiveInEntry ==
  ASSUME NEW js, NEW t, NEW x
  PROVE  x \in LiveIn(js, t) <=>
           \E n \in DOMAIN js : \E i \in Shown(js[n].slots) :
             js[n].slots[i].expires > t /\ x = Entry(js[n], js[n].slots[i])
BY DEF LiveIn, LiveSlots

LEMMA LiveSavedEntry ==
  ASSUME NEW f, NEW t, NEW x
  PROVE  x \in LiveSaved(f, t) <=>
           \E n \in DOMAIN f : \E i \in DOMAIN f[n].cookies :
             f[n].cookies[i].expires > t /\ x = Entry(f[n], f[n].cookies[i])
BY DEF LiveSaved, Range

LEMMA EntryExpires ==
  ASSUME NEW j, NEW c \in Cookie
  PROVE  Entry(j, c)[3].expires = c.expires /\ Entry(j, Read(c)) = Entry(j, c)
BY DEF Entry, Cookie, Read

\* The time takes the same cookies from both.
LEMMA LaterLive ==
  ASSUME NEW cap, NEW sp, NEW more, NEW js \in JarLists(cap, sp),
         NEW f \in Files(cap, more), NEW t \in Nat,
         LiveIn(js, t) = LiveSaved(f, t)
  PROVE  LiveIn(js, t + 1) = LiveSaved(f, t + 1)
<1> DEFINE Later(X) == {x \in X : x[3].expires > t + 1}
<1>0. \A c \in Cookie : c.expires \in Int
  <2>1. \A c \in Cookie : c.expires \in Expiries
    BY DEF Cookie
  <2>2. Expiries \in SUBSET Int
    BY TimeAssumption
  <2> QED
    BY <2>1, <2>2
<1>1. LiveIn(js, t + 1) = Later(LiveIn(js, t))
  <2>1. ASSUME NEW n \in DOMAIN js, NEW i \in Shown(js[n].slots)
        PROVE  /\ js[n].slots[i].expires \in Int
               /\ Entry(js[n], js[n].slots[i])[3].expires = js[n].slots[i].expires
    <3>1. js[n].slots \in Slots
      BY JarListShape DEF Jar
    <3>2. js[n].slots[i] \in Cookie
      BY <3>1, SlotsShown
    <3> QED
      BY <1>0, <3>2, EntryExpires
  <2>2. ASSUME NEW x
        PROVE  x \in LiveIn(js, t + 1) <=> x \in Later(LiveIn(js, t))
    <3>1. x \in LiveIn(js, t + 1) <=>
            \E n \in DOMAIN js : \E i \in Shown(js[n].slots) :
              js[n].slots[i].expires > t + 1 /\ x = Entry(js[n], js[n].slots[i])
      BY LiveInEntry
    <3>2. x \in LiveIn(js, t) <=>
            \E n \in DOMAIN js : \E i \in Shown(js[n].slots) :
              js[n].slots[i].expires > t /\ x = Entry(js[n], js[n].slots[i])
      BY LiveInEntry
    <3> QED
      BY <2>1, <3>1, <3>2
  <2> QED
    BY <2>2
<1>2. LiveSaved(f, t + 1) = Later(LiveSaved(f, t))
  <2>1. ASSUME NEW n \in DOMAIN f, NEW i \in DOMAIN f[n].cookies
        PROVE  /\ f[n].cookies[i].expires \in Int
               /\ Entry(f[n], f[n].cookies[i])[3].expires = f[n].cookies[i].expires
    <3>1. f[n].cookies \in Lists
      BY FileShape DEF SavedJar
    <3>2. f[n].cookies[i] \in Cookie
      BY <3>1, ListShape
    <3> QED
      BY <1>0, <3>2, EntryExpires
  <2>2. ASSUME NEW x
        PROVE  x \in LiveSaved(f, t + 1) <=> x \in Later(LiveSaved(f, t))
    <3>1. x \in LiveSaved(f, t + 1) <=>
            \E n \in DOMAIN f : \E i \in DOMAIN f[n].cookies :
              f[n].cookies[i].expires > t + 1 /\ x = Entry(f[n], f[n].cookies[i])
      BY LiveSavedEntry
    <3>2. x \in LiveSaved(f, t) <=>
            \E n \in DOMAIN f : \E i \in DOMAIN f[n].cookies :
              f[n].cookies[i].expires > t /\ x = Entry(f[n], f[n].cookies[i])
      BY LiveSavedEntry
    <3> QED
      BY <2>1, <3>1, <3>2
  <2> QED
    BY <2>2
<1> QED
  BY <1>1, <1>2

\* jar_load() takes over all of the file, or marks the jars as changed.
LEMMA LoadedLive ==
  ASSUME NEW cap, NEW sp, NEW text \in Files(cap, sp), AsLong(text), ~Skips,
         NEW t
  PROVE  LiveIn(Loaded(text), t) = LiveSaved(text, t)
<1> DEFINE I == {n \in DOMAIN text : Wanted(text[n]) # {}}
           s == [n \in DOMAIN text |->
                   [host |-> text[n].host, dom |-> text[n].dom,
                    slots |-> Filled(Picked(text[n].cookies, Wanted(text[n])))]]
           N == Len(text)
           n(m) == Cardinality(Wanted(text[m]))
           of(m, k) == Nth(Wanted(text[m]), k)
<1>1. /\ N \in Nat /\ DOMAIN text = 1 .. N
      /\ \A m \in DOMAIN text : text[m].cookies \in Lists
  BY FileShape DEF SavedJar
<1>2. I \in SUBSET (1 .. N)
  BY <1>1
<1>3. /\ \A k \in 1 .. Cardinality(I) : Nth(I, k) \in I
      /\ \A i \in I : \E k \in 1 .. Cardinality(I) : Nth(I, k) = i
  BY <1>1, <1>2, NthPlace
<1>4. /\ DOMAIN Loaded(text) = 1 .. Cardinality(I)
      /\ \A k \in 1 .. Cardinality(I) : Loaded(text)[k] = s[Nth(I, k)]
  BY DEF Loaded, Picked
<1>5. ASSUME NEW m \in DOMAIN text
      PROVE  /\ Wanted(text[m]) = DOMAIN text[m].cookies
             /\ s[m].slots \in Slots
             /\ n(m) \in 0 .. JarSize
             /\ \A k \in 1 .. n(m) : /\ k \in Slot
                                     /\ of(m, k) \in DOMAIN text[m].cookies
                                     /\ s[m].slots[k] = Read(text[m].cookies[of(m, k)])
             /\ \A k \in Slot : s[m].slots[k] # Nil => k \in 1 .. n(m)
             /\ \A i \in DOMAIN text[m].cookies : \E k \in 1 .. n(m) : of(m, k) = i
  <2>1. Wanted(text[m]) = DOMAIN text[m].cookies
    BY DEF Skips, AsLong, Wanted
  <2>2. s[m].slots = Filled(Picked(text[m].cookies, Wanted(text[m])))
    OBVIOUS
  <2>3. /\ s[m].slots \in Slots
        /\ n(m) \in 0 .. JarSize
        /\ \A k \in Slot : s[m].slots[k] =
             IF k <= n(m) THEN Read(text[m].cookies[of(m, k)]) ELSE Nil
    BY <1>1, <2>1, <2>2, FilledSlots
  <2>4. JarSize \in Nat \ {0} /\ Slot = 1 .. JarSize
    BY JarSizeAssumption DEF Slot
  <2>5. /\ Len(text[m].cookies) \in Nat
        /\ Wanted(text[m]) \in SUBSET (1 .. Len(text[m].cookies))
    BY <1>1, <2>1, <2>4, ListShape
  <2>6. /\ \A k \in 1 .. n(m) : of(m, k) \in Wanted(text[m])
        /\ \A i \in Wanted(text[m]) : \E k \in 1 .. n(m) : of(m, k) = i
    <3> DEFINE W == Wanted(text[m])
               L == Len(text[m].cookies)
    <3>1. L \in Nat /\ W \in SUBSET (1 .. L)
      BY <2>5
    <3> HIDE DEF W, L
    <3>2. /\ \A k \in 1 .. Cardinality(W) : Nth(W, k) \in W
          /\ \A i \in W : \E k \in 1 .. Cardinality(W) : Nth(W, k) = i
      BY ONLY <3>1, NthPlace
    <3> QED
      BY <3>2 DEF W
  <2> HIDE DEF s, n, of
  <2>7. \A k \in 1 .. n(m) : k \in Slot /\ k <= n(m)
    BY <2>3, <2>4
  <2>8. \A k \in Slot : k <= n(m) => k \in 1 .. n(m)
    BY <2>3, <2>4
  <2> QED
    BY <2>1, <2>3, <2>6, <2>7, <2>8
<1>6. \A m \in DOMAIN s : s[m].host = text[m].host /\ s[m].dom = text[m].dom
  OBVIOUS
<1>7. \A m \in DOMAIN text : \A c : Entry(s[m], c) = Entry(text[m], c)
  BY DEF Entry
<1>8. \A m \in DOMAIN text : \A i \in DOMAIN text[m].cookies :
        text[m].cookies[i] \in Cookie
  BY <1>1, ListShape
<1>9. \A m \in DOMAIN text : \A i \in DOMAIN text[m].cookies : m \in I
  BY <1>5
<1> HIDE DEF s, n, of
<1>10. ASSUME NEW m \in DOMAIN text, NEW i \in DOMAIN text[m].cookies
       PROVE  /\ Read(text[m].cookies[i]).expires = text[m].cookies[i].expires
              /\ Read(text[m].cookies[i]) # Nil
              /\ Entry(s[m], Read(text[m].cookies[i])) = Entry(text[m], text[m].cookies[i])
  <2>1. text[m].cookies[i] \in Cookie
    BY <1>8
  <2>2. Read(text[m].cookies[i]) \in Cookie
        /\ Read(text[m].cookies[i]).expires = text[m].cookies[i].expires
    BY <2>1 DEF Read, Cookie
  <2> QED
    BY <1>7, <2>1, <2>2, EntryExpires, NilAssumption
<1>11. ASSUME NEW x \in LiveIn(Loaded(text), t)
       PROVE  x \in LiveSaved(text, t)
  <2>1. PICK l \in DOMAIN Loaded(text) : \E k \in Shown(Loaded(text)[l].slots) :
          /\ Loaded(text)[l].slots[k].expires > t
          /\ x = Entry(Loaded(text)[l], Loaded(text)[l].slots[k])
    BY LiveInEntry
  <2> DEFINE m == Nth(I, l)
  <2>2. m \in DOMAIN text /\ Loaded(text)[l] = s[m]
    BY <1>1, <1>2, <1>3, <1>4
  <2> HIDE DEF m
  <2>3. PICK k \in Shown(s[m].slots) :
          s[m].slots[k].expires > t /\ x = Entry(s[m], s[m].slots[k])
    BY <2>1, <2>2
  <2>4. k \in 1 .. n(m)
    BY <1>5, <2>2, SlotsShown
  <2>5. /\ of(m, k) \in DOMAIN text[m].cookies
        /\ s[m].slots[k] = Read(text[m].cookies[of(m, k)])
    BY <1>5, <2>2, <2>4
  <2>6. /\ text[m].cookies[of(m, k)].expires > t
        /\ x = Entry(text[m], text[m].cookies[of(m, k)])
    BY <1>10, <2>2, <2>3, <2>5
  <2> QED
    BY <2>2, <2>5, <2>6, LiveSavedEntry
<1>12. ASSUME NEW x \in LiveSaved(text, t)
       PROVE  x \in LiveIn(Loaded(text), t)
  <2>1. PICK m \in DOMAIN text : \E i \in DOMAIN text[m].cookies :
          text[m].cookies[i].expires > t /\ x = Entry(text[m], text[m].cookies[i])
    BY LiveSavedEntry
  <2>2. PICK i \in DOMAIN text[m].cookies :
          text[m].cookies[i].expires > t /\ x = Entry(text[m], text[m].cookies[i])
    BY <2>1
  <2>3. PICK l \in 1 .. Cardinality(I) : Nth(I, l) = m
    BY <1>3, <1>9, <2>2
  <2>4. l \in DOMAIN Loaded(text) /\ Loaded(text)[l] = s[m]
    BY <1>4, <2>3
  <2>5. PICK k \in 1 .. n(m) : of(m, k) = i
    BY <1>5
  <2>6. k \in Slot /\ s[m].slots[k] = Read(text[m].cookies[i])
    BY <1>5, <2>5
  <2>7. k \in Shown(s[m].slots)
    BY <1>5, <1>10, <2>6, SlotsShown
  <2>8. s[m].slots[k].expires > t /\ x = Entry(s[m], s[m].slots[k])
    BY <1>10, <2>2, <2>6
  <2> QED
    BY <2>4, <2>7, <2>8, LiveInEntry
<1> QED
  BY <1>11, <1>12

\* A cookie that is put to the front is the only one that changes.
LEMMA ToFrontKeeps ==
  ASSUME NEW s \in Slots, NEW e \in Shown(s), NEW c \in Cookie, NEW t,
         \/ c = s[e]
         \/ ~(c.expires > t) /\ ~(s[e].expires > t),
         ToFront(s, e, c) \in Slots
  PROVE  LiveSlots(ToFront(s, e, c), t) = LiveSlots(s, t)
<1> DEFINE r == ToFront(s, e, c)
<1>1. /\ Shown(s) = {i \in Slot : s[i] # Nil}
      /\ Shown(r) = {i \in Slot : r[i] # Nil}
  BY SlotsShown
<1>2. JarSize \in Nat \ {0} /\ Slot = 1 .. JarSize /\ e \in Slot
  BY <1>1, JarSizeAssumption DEF Slot
<1>3. /\ r[1] = c
      /\ \A q \in Slot : q # 1 /\ q <= e => q - 1 \in Slot /\ r[q] = s[q - 1]
      /\ \A q \in Slot : q # 1 /\ q > e => r[q] = s[q]
  BY <1>2 DEF ToFront
<1>4. c # Nil
  BY NilAssumption
<1> HIDE DEF r
<1>5. ASSUME NEW q \in Shown(r), r[q].expires > t
      PROVE  \E p \in Shown(s) : s[p] = r[q]
  <2>1. q \in Slot /\ r[q] # Nil
    BY <1>1
  <2>2. CASE q = 1
    <3>1. r[q] = c /\ c.expires > t
      BY <1>3, <1>5, <2>2
    <3> QED
      BY <3>1
  <2>3. CASE q # 1 /\ q <= e
    <3>1. q - 1 \in Slot /\ r[q] = s[q - 1]
      BY <1>3, <2>1, <2>3
    <3>2. q - 1 \in Shown(s)
      BY <1>1, <2>1, <3>1
    <3> QED
      BY <3>1, <3>2
  <2>4. CASE q # 1 /\ q > e
    <3>1. r[q] = s[q]
      BY <1>3, <2>1, <2>4
    <3>2. q \in Shown(s)
      BY <1>1, <2>1, <3>1
    <3> QED
      BY <3>1, <3>2
  <2>5. q <= e \/ q > e
    BY <1>2, <2>1
  <2> QED
    BY <2>2, <2>3, <2>4, <2>5
<1>6. ASSUME NEW p \in Shown(s), s[p].expires > t
      PROVE  \E q \in Shown(r) : r[q] = s[p]
  <2>1. p \in Slot /\ s[p] # Nil
    BY <1>1
  <2>2. CASE p = e
    <3>1. 1 \in Shown(r)
      BY <1>1, <1>2, <1>3, <1>4
    <3> QED
      BY <1>3, <1>6, <2>2, <3>1
  <2>3. CASE p < e
    <3>1. p + 1 \in Slot /\ p + 1 # 1 /\ p + 1 <= e /\ (p + 1) - 1 = p
      BY <1>2, <2>1, <2>3
    <3>2. r[p + 1] = s[p]
      BY <1>3, <3>1
    <3> QED
      BY <1>1, <2>1, <3>1, <3>2
  <2>4. CASE p > e
    <3>1. p # 1
      BY <1>2, <2>4
    <3> QED
      BY <1>1, <1>3, <2>1, <2>4, <3>1
  <2> QED
    BY <1>2, <2>1, <2>2, <2>3, <2>4
<1>7. LiveSlots(r, t) = LiveSlots(s, t)
  BY <1>5, <1>6 DEF LiveSlots
<1> QED
  BY <1>7 DEF r

\* cookie_set() has a cookie sent back to the front that is the same.
LEMMA ChangeLive ==
  ASSUME "update" \notin Careless, IInv,
         NEW h \in Host, NEW d \in Domain \cup {Nil}, NEW c \in Cookie,
         NEW lower \in BOOLEAN, Change(h, Found(h, d, lower), c), ~changed'
  PROVE  ~changed /\ LiveIn(jars', now) = LiveIn(jars, now)
<1> DEFINE n == First(Found(h, d, lower))
<1>1. LET s == jars[n].slots
          i == FoundAt(s, c)
          k == Changed(s[i], c)
      IN  /\ Found(h, d, lower) # {}
          /\ Same(s, c.name, c.path) # {}
          /\ jars' = [jars EXCEPT ![n].slots = ToFront(s, i, k)]
          /\ changed' = (changed \/ s[i].max < c.value)
          /\ \/ "update" \in Careless \/ changed'
             \/ k.expires = 0 \/ [k EXCEPT !.max = s[i].max] = s[i]
  BY Zenon DEF Change, FoundAt, Changed
<1> DEFINE s == jars[n].slots
           i == FoundAt(s, c)
           k == Changed(s[i], c)
           r == ToFront(s, i, k)
<1>2. n \in DOMAIN jars /\ s \in Slots /\ jars[n] \in Jar
  BY <1>1, FoundPlaces
<1> HIDE DEF n
<1>3. /\ i \in Shown(s) /\ s[i] \in Cookie
      /\ k \in Cookie /\ SameCookie(k, s[i])
  <2>1. i \in Shown(s) /\ s[i] \in Cookie
    BY <1>1, <1>2, FoundShown
  <2> HIDE DEF i
  <2>2. k \in Cookie /\ SameCookie(k, s[i])
    BY <2>1 DEF Cookie, SameCookie, Changed
  <2> QED
    BY <2>1, <2>2
<1>4. ~changed /\ ~(s[i].max < c.value)
  BY <1>1
<1>5. k.expires = 0 \/ [k EXCEPT !.max = s[i].max] = s[i]
  BY <1>1
<1>6. jars' = [jars EXCEPT ![n].slots = r]
  BY <1>1
<1>7. k = s[i] \/ (k.expires = 0 /\ s[i].expires = 0)
  <2> HIDE DEF i
  <2>1. k.max = s[i].max
    BY <1>3, <1>4 DEF Changed, Cookie
  <2>2. ASSUME [k EXCEPT !.max = s[i].max] = s[i]
        PROVE  k = s[i]
    <3>1. [k EXCEPT !.max = k.max] = k
      BY <1>3 DEF Cookie
    <3> QED
      BY <2>1, <2>2, <3>1
  <2>3. ASSUME k.expires = 0
        PROVE  s[i].expires = 0
    BY <1>3, <2>3 DEF Changed, Cookie
  <2> QED
    BY <1>5, <2>2, <2>3
<1> HIDE DEF i, k
<1>8. r \in Slots
  BY <1>2, <1>3, ChangeSlots
<1>9. ~(0 > now)
  BY TimeAssumption DEF IInv
<1>10. LiveSlots(r, now) = LiveSlots(s, now)
  <2>1. \/ k = s[i]
        \/ ~(k.expires > now) /\ ~(s[i].expires > now)
    BY <1>7, <1>9
  <2> QED
    BY <1>2, <1>3, <1>8, <2>1, ToFrontKeeps
<1> HIDE DEF r
<1>11. /\ DOMAIN jars' = DOMAIN jars
       /\ jars'[n] = [jars[n] EXCEPT !.slots = r]
       /\ \A m \in DOMAIN jars : m # n => jars'[m] = jars[m]
  BY <1>2, <1>6
<1>12. jars'[n].slots = r /\ jars'[n].host = jars[n].host /\ jars'[n].dom = jars[n].dom
  BY <1>2, <1>11 DEF Jar
<1>13. \A m \in DOMAIN jars :
         {Entry(jars'[m], e) : e \in LiveSlots(jars'[m].slots, now)}
           = {Entry(jars[m], e) : e \in LiveSlots(jars[m].slots, now)}
  <2> SUFFICES ASSUME NEW m \in DOMAIN jars
               PROVE  {Entry(jars'[m], e) : e \in LiveSlots(jars'[m].slots, now)}
                        = {Entry(jars[m], e) : e \in LiveSlots(jars[m].slots, now)}
    OBVIOUS
  <2>1. CASE m = n
    <3>1. \A e : Entry(jars'[n], e) = Entry(jars[n], e)
      BY <1>12 DEF Entry
    <3>2. LiveSlots(jars'[n].slots, now) = LiveSlots(jars[n].slots, now)
      BY <1>10, <1>12
    <3> QED
      BY <2>1, <3>1, <3>2
  <2>2. CASE m # n
    BY <1>11, <2>2
  <2> QED
    BY <2>1, <2>2
<1>14. LiveIn(jars', now) = LiveIn(jars, now)
  BY <1>11, <1>13 DEF LiveIn
<1> QED
  BY <1>4, <1>14

AgreeInv == Agree /\ (loaded => running)

LEMMA NextAgree ==
  ASSUME "update" \notin Careless, IInv, AgreeInv, [Next]_vars
  PROVE  AgreeInv'
<1>1. ASSUME NEW h \in Host, Request(h)
      PROVE  AgreeInv'
  <2>1. running' /\ loaded' /\ now' = now /\ Readings' = Readings
    BY <1>1 DEF Request, Readings
  <2>2. PICK text \in Readings :
          LET old == IF loaded THEN jars ELSE Loaded(text)
          IN  /\ jars' = IF h \in refused THEN old ELSE PurgedFor(old, h)
              /\ changed' = (changed \/ (~loaded /\ Skips) \/ jars' # old)
    BY <1>1 DEF Request
  <2> SUFFICES ASSUME ~changed'
               PROVE  \E f \in Readings : LiveIn(jars', now) = LiveSaved(f, now)
    BY <2>1 DEF AgreeInv, Agree
  <2>3. /\ ~changed /\ running
        /\ loaded \/ ~Skips
        /\ jars' = IF loaded THEN jars ELSE Loaded(text)
    BY <1>1, <2>2 DEF Request
  <2>4. CASE loaded
    BY <2>3, <2>4 DEF AgreeInv, Agree
  <2>5. CASE ~loaded
    <3> DEFINE sp == IF torn THEN spoilt \cup {Key(Last(file))} ELSE spoilt
    <3>1. text \in Files(capitals, sp) /\ AsLong(text)
      BY ReadFile DEF IInv
    <3> HIDE DEF sp
    <3>2. LiveIn(Loaded(text), now) = LiveSaved(text, now)
      BY <2>3, <2>5, <3>1, LoadedLive
    <3> QED
      BY <2>3, <2>5, <3>2
  <2> QED
    BY <2>4, <2>5
<1>2. ASSUME NEW h \in Host, Set(h)
      PROVE  AgreeInv'
  <2>1. PICK d \in Domain \cup {Nil}, lower \in BOOLEAN, c \in Cookie :
          Sets(h, d, lower, c)
    BY <1>2, SetPicks
  <2>2. Comes(h)
    BY <2>1 DEF Sets, Create, Change, Delete
  <2>3. running /\ loaded /\ running' /\ loaded' /\ now' = now /\ Readings' = Readings
    BY <2>2 DEF Comes, Readings
  <2>4. CASE changed'
    BY <2>3, <2>4 DEF AgreeInv, Agree
  <2>5. CASE ~changed'
    <3>1. Change(h, Found(h, d, lower), c)
      BY <2>1, <2>5 DEF Sets, Create, Delete
    <3>2. ~changed /\ LiveIn(jars', now) = LiveIn(jars, now)
      BY <2>5, <3>1, ChangeLive
    <3> QED
      BY <2>3, <3>2 DEF AgreeInv, Agree
  <2> QED
    BY <2>4, <2>5
<1>3. CASE Start
  BY <1>3 DEF Start, AgreeInv, Agree
<1>4. ASSUME Over
      PROVE  AgreeInv'
  BY <1>4 DEF Over, AgreeInv, Agree
<1>5. CASE Tick
  <2>1. now \in Nat
    BY TimeAssumption DEF IInv
  <2>2. ASSUME NEW text \in Readings, LiveIn(jars, now) = LiveSaved(text, now)
        PROVE  LiveIn(jars, now + 1) = LiveSaved(text, now + 1)
    <3> DEFINE sp == IF torn THEN spoilt \cup {Key(Last(file))} ELSE spoilt
    <3>1. text \in Files(capitals, sp) /\ jars \in JarLists(capitals, spoilt)
      BY ReadFile DEF IInv
    <3> HIDE DEF sp
    <3> QED
      BY <2>1, <2>2, <3>1, LaterLive
  <2>3. /\ now' = now + 1 /\ jars' = jars /\ Readings' = Readings
        /\ running' = running /\ loaded' = loaded /\ changed' = changed
    BY <1>5 DEF Tick, Readings
  <2> QED
    BY <2>2, <2>3 DEF AgreeInv, Agree
<1>6. CASE UNCHANGED vars
  <2>1. /\ now' = now /\ jars' = jars /\ Readings' = Readings
        /\ running' = running /\ loaded' = loaded /\ changed' = changed
    BY <1>6 DEF vars, Readings
  <2> QED
    BY <2>1 DEF AgreeInv, Agree
<1> QED
  BY <1>1, <1>2, <1>3, <1>4, <1>5, <1>6 DEF Next, Exit, Crash, CrashSaving

\* If, besides, no cookie changes in place, which would not mark the jars as
\* changed: jars that are not written at the end of the session hold what the
\* file does.
THEOREM UnchangedStored ==
  ASSUME Careless = {}
  PROVE  Spec => []Stored
<1>1. Init => IInv /\ AgreeInv
  BY InitInv DEF Init, AgreeInv, Agree
<1>2. IInv /\ [Next]_vars => IInv'
  BY NextInv
<1>3. IInv /\ AgreeInv /\ [Next]_vars => AgreeInv'
  BY NextAgree
<1>4. AgreeInv => Stored
  BY StoredAgree DEF AgreeInv
<1> QED
  BY <1>1, <1>2, <1>3, <1>4, PTL DEF Spec

-----------------------------------------------------------------------------
(***************************************************************************)
(* The cookies of a request.                                               *)
(***************************************************************************)

\* The places of set are candidates, once each, those with a longer path
\* first, and no candidate that is missing has a longer one than these.
Ranked(js, set, S) ==
  /\ set \in Seq(S) /\ Len(set) <= SetSize
  /\ \A i, k \in 1 .. Len(set) : set[i] = set[k] => i = k
  /\ \A i, k \in 1 .. Len(set) :
       i <= k => Length(js, set[i]) >= Length(js, set[k])
  /\ Len(set) = SetSize \/ \A x \in S : \E k \in 1 .. Len(set) : set[k] = x
  /\ \A x \in S : \/ \E k \in 1 .. Len(set) : set[k] = x
                  \/ \A k \in 1 .. Len(set) : Length(js, set[k]) >= Length(js, x)

\* The places from which the new one is inserted
Held(set) == IF Len(set) = SetSize THEN Front(set) ELSE set

Ahead(js, set, x) == {k \in DOMAIN set : Length(js, set[k]) >= Length(js, x)}

LEMMA HeldPlaces ==
  ASSUME NEW D, NEW set \in Seq(D), Len(set) <= SetSize
  PROVE  /\ Held(set) \in Seq(D)
         /\ Len(Held(set)) = IF Len(set) = SetSize THEN SetSize - 1 ELSE Len(set)
         /\ Len(Held(set)) \in Nat /\ DOMAIN Held(set) = 1 .. Len(Held(set))
         /\ \A k \in 1 .. Len(Held(set)) : Held(set)[k] = set[k]
<1>1. /\ Len(set) \in Nat /\ DOMAIN set = 1 .. Len(set)
      /\ \A k \in 1 .. Len(set) : set[k] \in D
  BY LenProperties, ElementOfSeq
<1>2. SetSize \in Nat /\ SetSize > 1
  BY SetSizeAssumption
<1>3. CASE Len(set) = SetSize
  <2> DEFINE t == SubSeq(set, 1, SetSize - 1)
  <2>1. Held(set) = t
    BY <1>3 DEF Held, Front
  <2>2. 1 \in Int /\ SetSize - 1 \in Int /\ \A k \in 1 .. SetSize - 1 : set[k] \in D
    BY <1>1, <1>2, <1>3
  <2>3. /\ t \in Seq(D) /\ Len(t) = SetSize - 1
        /\ \A k \in 1 .. SetSize - 1 : t[k] = set[k]
    <3>1. /\ t \in Seq(D)
          /\ Len(t) = IF 1 <= SetSize - 1 THEN (SetSize - 1) - 1 + 1 ELSE 0
          /\ \A k \in 1 .. (SetSize - 1) - 1 + 1 : t[k] = set[1 + k - 1]
      BY ONLY <2>2, SubSeqProperties
    <3>2. /\ (SetSize - 1) - 1 + 1 = SetSize - 1 /\ 1 <= SetSize - 1
          /\ \A k \in 1 .. SetSize - 1 : 1 + k - 1 = k
      BY <1>2
    <3> QED
      BY <3>1, <3>2
  <2> HIDE DEF t
  <2>4. SetSize - 1 \in Nat /\ DOMAIN t = 1 .. Len(t)
    BY <1>2, <2>3, LenProperties
  <2> QED
    BY <1>3, <2>1, <2>3, <2>4
<1>4. CASE Len(set) # SetSize
  BY <1>1, <1>4 DEF Held
<1> QED
  BY <1>3, <1>4

LEMMA AheadFinite ==
  ASSUME NEW D, NEW t \in Seq(D), NEW js, NEW x
  PROVE  Cardinality(Ahead(js, t, x)) \in 0 .. Len(t)
<1>1. DOMAIN t = 1 .. Len(t) /\ Len(t) \in Nat
  BY LenProperties
<1>2. IsFiniteSet(1 .. Len(t)) /\ Cardinality(1 .. Len(t)) = Len(t)
  BY <1>1, FS_Interval, SMTT(20)
<1>3. Ahead(js, t, x) \in SUBSET (1 .. Len(t))
  BY <1>1 DEF Ahead
<1>4. /\ Cardinality(Ahead(js, t, x)) \in Nat
      /\ Cardinality(Ahead(js, t, x)) <= Len(t)
  BY <1>2, <1>3, FS_Subset, FS_CardinalityType
<1> QED
  BY <1>1, <1>4

\* Those ahead are the first ones.
LEMMA AheadFirst ==
  ASSUME NEW D, NEW t \in Seq(D), NEW js, NEW x \in D,
         \A y \in D : Length(js, y) \in Nat,
         \A i, k \in 1 .. Len(t) : i <= k => Length(js, t[i]) >= Length(js, t[k])
  PROVE  \A k \in 1 .. Len(t) :
           k <= Cardinality(Ahead(js, t, x)) <=> Length(js, t[k]) >= Length(js, x)
<1> DEFINE A == Ahead(js, t, x)
           c == Cardinality(A)
<1>1. /\ DOMAIN t = 1 .. Len(t) /\ Len(t) \in Nat
      /\ \A k \in 1 .. Len(t) : t[k] \in D
  BY LenProperties, ElementOfSeq
<1>2. A \in SUBSET (0 .. Len(t)) /\ A = {k \in 1 .. Len(t) : Length(js, t[k]) >= Length(js, x)}
  BY <1>1 DEF Ahead
<1> DEFINE m == IF A = {} THEN 0 ELSE Max(A)
<1> HIDE DEF A
<1>3. m \in 0 .. Len(t) /\ (A # {} => m \in A) /\ \A k \in A : k <= m
  <2>1. CASE A = {}
    BY <1>1, <2>1
  <2>2. CASE A # {}
    <3>1. Max(A) \in A /\ \A k \in A : k <= Max(A)
      BY <1>1, <1>2, <2>2, MaxOfNats
    <3> QED
      BY <1>2, <2>2, <3>1
  <2> QED
    BY <2>1, <2>2
<1>4. A = {} => m = 0
  OBVIOUS
<1> HIDE DEF m
<1>5. ASSUME NEW k \in 1 .. m
      PROVE  k \in A
  <2>1. A # {} /\ m \in A
    BY <1>3, <1>4
  <2>2. m \in 1 .. Len(t) /\ k \in 1 .. Len(t) /\ k <= m
    BY <1>1, <1>3, <2>1, <1>2
  <2>3. Length(js, t[m]) >= Length(js, x) /\ Length(js, t[k]) >= Length(js, t[m])
    BY <1>2, <2>1, <2>2
  <2>4. Length(js, t[m]) \in Nat /\ Length(js, t[k]) \in Nat /\ Length(js, x) \in Nat
    BY <1>1, <2>2
  <2> QED
    BY <1>2, <2>2, <2>3, <2>4
<1>6. A = 1 .. m
  BY <1>2, <1>3, <1>5
<1>7. c = m
  <2>1. m \in Nat
    BY <1>1, <1>3
  <2> QED
    BY <1>6, <2>1, FS_Interval
<1>8. \A k \in 1 .. Len(t) : k <= c <=> k \in A
  BY <1>1, <1>3, <1>6, <1>7
<1> QED
  BY <1>2, <1>8 DEF A

LEMMA InsertHeld ==
  ASSUME NEW js, NEW set, NEW x
  PROVE  Insert(js, set, x) =
           IF Len(set) = SetSize /\ Length(js, set[SetSize]) >= Length(js, x)
           THEN set
           ELSE InsertAt(Held(set), 1 + Cardinality(Ahead(js, Held(set), x)), x)
BY DEF Insert, Held, Ahead

LEMMA InsertPlaces ==
  ASSUME NEW D, NEW set \in Seq(D), Len(set) <= SetSize, NEW js, NEW x \in D
  PROVE  /\ Insert(js, set, x) \in Seq(D)
         /\ Len(Insert(js, set, x)) <= SetSize
<1> DEFINE t == Held(set)
           n == 1 + Cardinality(Ahead(js, t, x))
<1>1. /\ t \in Seq(D) /\ Len(t) \in Nat
      /\ Len(t) = IF Len(set) = SetSize THEN SetSize - 1 ELSE Len(set)
  BY HeldPlaces
<1>2. SetSize \in Nat /\ Len(set) \in Nat
  BY SetSizeAssumption, LenProperties
<1> HIDE DEF t
<1>3. n \in 1 .. Len(t) + 1
  <2>1. Cardinality(Ahead(js, t, x)) \in 0 .. Len(t)
    BY <1>1, AheadFinite
  <2> QED
    BY <1>1, <2>1
<1> HIDE DEF n
<1>4. InsertAt(t, n, x) \in Seq(D) /\ Len(InsertAt(t, n, x)) = Len(t) + 1
  BY <1>1, <1>3, InsertAtElements
<1>5. Len(t) + 1 <= SetSize
  BY <1>1, <1>2
<1>6. Insert(js, set, x) = set \/ Insert(js, set, x) = InsertAt(t, n, x)
  BY InsertHeld DEF t, n
<1> QED
  BY <1>4, <1>5, <1>6

LEMMA InsertRanked ==
  ASSUME NEW js, NEW S, NEW set, NEW x, x \notin S, Ranked(js, set, S),
         \A y \in S \cup {x} : Length(js, y) \in Nat
  PROVE  Ranked(js, Insert(js, set, x), S \cup {x})
<1> DEFINE L(y) == Length(js, y)
           D == S \cup {x}
           t == Held(set)
           c == Cardinality(Ahead(js, t, x))
           new == InsertAt(t, 1 + c, x)
           last == set[SetSize]
<1>1. /\ set \in Seq(S) /\ Len(set) <= SetSize
      /\ \A i, k \in 1 .. Len(set) : set[i] = set[k] => i = k
      /\ \A i, k \in 1 .. Len(set) : i <= k => L(set[i]) >= L(set[k])
      /\ Len(set) = SetSize \/ \A y \in S : \E k \in 1 .. Len(set) : set[k] = y
      /\ \A y \in S : \/ \E k \in 1 .. Len(set) : set[k] = y
                      \/ \A k \in 1 .. Len(set) : L(set[k]) >= L(y)
  BY DEF Ranked
<1>2. /\ Len(set) \in Nat
      /\ \A k \in 1 .. Len(set) : set[k] \in S /\ set[k] \in D /\ set[k] # x
      /\ set \in Seq(D)
  <2>1. Len(set) \in Nat /\ \A k \in 1 .. Len(set) : set[k] \in S
    BY <1>1, LenProperties, ElementOfSeq
  <2>2. set \in [1 .. Len(set) -> D]
    BY <1>1, <2>1
  <2>3. set \in Seq(D)
    BY <2>1, <2>2, SeqDef
  <2> QED
    BY <2>1, <2>3
<1>3. SetSize \in Nat /\ SetSize > 1
  BY SetSizeAssumption
<1>4. \A y \in D : L(y) \in Nat
  OBVIOUS
<1> HIDE DEF L, D
<1>5. x \in D /\ S \in SUBSET D /\ D = S \cup {x}
  BY DEF D
<1>6. CASE Len(set) = SetSize /\ L(last) >= L(x)
  <2>1. Insert(js, set, x) = set
    BY <1>6, InsertHeld DEF L
  <2>2. \A k \in 1 .. Len(set) : L(set[k]) >= L(x)
    <3> SUFFICES ASSUME NEW k \in 1 .. Len(set)
                 PROVE  L(set[k]) >= L(x)
      OBVIOUS
    <3>1. L(set[k]) >= L(last) /\ last \in D /\ set[k] \in D
      BY <1>1, <1>2, <1>3, <1>6
    <3> QED
      BY <1>4, <1>5, <1>6, <3>1
  <2>3. \A y \in D : \/ \E k \in 1 .. Len(set) : set[k] = y
                     \/ \A k \in 1 .. Len(set) : L(set[k]) >= L(y)
    BY <1>1, <1>5, <2>2
  <2>4. Ranked(js, set, D)
    BY <1>1, <1>2, <1>6, <2>3 DEF Ranked, L
  <2> QED
    BY <2>1, <2>4 DEF D
<1>7. CASE ~(Len(set) = SetSize /\ L(last) >= L(x))
  <2>1. /\ t \in Seq(D) /\ Len(t) \in Nat
        /\ Len(t) = IF Len(set) = SetSize THEN SetSize - 1 ELSE Len(set)
        /\ \A k \in 1 .. Len(t) : t[k] = set[k]
    BY <1>1, <1>2, HeldPlaces
  <2> HIDE DEF t
  <2>2. Len(t) < SetSize /\ Len(t) <= Len(set)
    BY <1>1, <1>2, <1>3, <2>1
  <2>3. \A k \in 1 .. Len(t) : k \in 1 .. Len(set) /\ t[k] \in D /\ t[k] # x
    BY <1>2, <2>1, <2>2
  <2>4. \A i, k \in 1 .. Len(t) : i <= k => L(t[i]) >= L(t[k])
    BY <1>1, <2>1, <2>3
  <2>5. c \in 0 .. Len(t)
    BY <2>1, AheadFinite
  <2>6. \A k \in 1 .. Len(t) : k <= c <=> L(t[k]) >= L(x)
    BY <1>4, <1>5, <2>1, <2>4, AheadFirst DEF L
  <2> HIDE DEF c
  <2>7. /\ new \in Seq(D) /\ Len(new) = Len(t) + 1
        /\ \A i \in 1 .. Len(t) + 1 :
             new[i] = IF i < 1 + c THEN t[i] ELSE IF i = 1 + c THEN x ELSE t[i - 1]
    <3> DEFINE n == 1 + c
    <3>1. n \in 1 .. Len(t) + 1
      BY <2>1, <2>5
    <3> HIDE DEF n
    <3>2. /\ InsertAt(t, n, x) \in Seq(D)
          /\ Len(InsertAt(t, n, x)) = Len(t) + 1
          /\ \A i \in 1 .. Len(t) + 1 :
               InsertAt(t, n, x)[i] =
                 IF i < n THEN t[i] ELSE IF i = n THEN x ELSE t[i - 1]
      <4>1. x \in D /\ t \in Seq(D)
        BY <1>5, <2>1
      <4>2. InsertAt(t, n, x) \in Seq(D)
        BY ONLY <3>1, <4>1, InsertAtElements
      <4>3. Len(InsertAt(t, n, x)) = Len(t) + 1
        BY ONLY <3>1, <4>1, InsertAtElements
      <4>4. \A i \in 1 .. Len(t) + 1 :
               InsertAt(t, n, x)[i] =
                 IF i < n THEN t[i] ELSE IF i = n THEN x ELSE t[i - 1]
        BY ONLY <3>1, <4>1, InsertAtElements
      <4> QED
        BY <4>2, <4>3, <4>4
    <3> QED
      BY <3>2 DEF n
  <2>8. Insert(js, set, x) = new
    BY <1>7, InsertHeld DEF L, t, c, new
  <2> HIDE DEF new
  <2> DEFINE N == Len(t) + 1
             Of(i) == IF i < 1 + c THEN i ELSE i - 1
  <2>9. \A i \in 1 .. N :
          IF i = 1 + c THEN new[i] = x
          ELSE Of(i) \in 1 .. Len(t) /\ new[i] = t[Of(i)] /\ new[i] = set[Of(i)]
    BY <2>1, <2>5, <2>7
  <2>10. ASSUME NEW i \in 1 .. N, NEW k \in 1 .. N, new[i] = new[k]
         PROVE  i = k
    <3>1. CASE i = 1 + c \/ k = 1 + c
      BY <2>3, <2>9, <2>10, <3>1
    <3>2. CASE i # 1 + c /\ k # 1 + c
      <4>1. Of(i) = Of(k)
        <5>1. /\ Of(i) \in 1 .. Len(t) /\ new[i] = set[Of(i)]
              /\ Of(k) \in 1 .. Len(t) /\ new[k] = set[Of(k)]
          BY <2>9, <3>2
        <5>2. Of(i) \in 1 .. Len(set) /\ Of(k) \in 1 .. Len(set)
          BY <2>3, <5>1
        <5> HIDE DEF Of
        <5> QED
          BY <1>1, <2>10, <5>1, <5>2
      <4> QED
        BY <2>1, <2>5, <3>2, <4>1
    <3> QED
      BY <3>1, <3>2
  <2>11. ASSUME NEW i \in 1 .. N, NEW k \in 1 .. N, i <= k
         PROVE  L(new[i]) >= L(new[k])
    <3>1. CASE i = k
      <4>1. new[i] \in D
        BY <2>7, ElementOfSeq
      <4> QED
        BY <1>4, <3>1, <4>1
    <3>2. CASE i = 1 + c /\ k # i
      <4>1. k - 1 \in 1 .. Len(t) /\ ~(k - 1 <= c) /\ new[k] = t[k - 1]
        <5>1. k \in Nat /\ k > 1 + c /\ k <= Len(t) + 1 /\ c \in Nat
          BY <2>1, <2>5, <2>11, <3>2
        <5>2. new[k] = t[k - 1]
          BY <2>7, <5>1
        <5> QED
          BY <2>1, <5>1, <5>2
      <4>2. ~(L(t[k - 1]) >= L(x)) /\ L(t[k - 1]) \in Nat /\ L(x) \in Nat
        BY <1>4, <1>5, <2>3, <2>6, <4>1
      <4> QED
        BY <2>9, <3>2, <4>1, <4>2
    <3>3. CASE k = 1 + c /\ k # i
      <4>1. i \in 1 .. Len(t) /\ i <= c /\ new[i] = t[i]
        BY <2>1, <2>5, <2>7, <2>11, <3>3
      <4> QED
        BY <2>6, <2>9, <3>3, <4>1
    <3>4. CASE i # 1 + c /\ k # 1 + c
      <4>1. Of(i) <= Of(k)
        BY <2>1, <2>5, <2>11, <3>4
      <4>2. /\ Of(i) \in 1 .. Len(t) /\ new[i] = t[Of(i)]
            /\ Of(k) \in 1 .. Len(t) /\ new[k] = t[Of(k)]
        BY <2>9, <3>4
      <4> QED
        BY <2>4, <4>1, <4>2
    <3> QED
      BY <3>1, <3>2, <3>3, <3>4
  <2>12. /\ 1 + c \in 1 .. N /\ new[1 + c] = x
         /\ \A k \in 1 .. Len(t) : \E i \in 1 .. N : new[i] = t[k]
    <3>1. 1 + c \in 1 .. N
      BY <2>1, <2>5
    <3>2. ASSUME NEW k \in 1 .. Len(t)
          PROVE  \E i \in 1 .. N : new[i] = t[k]
      <4>1. CASE k <= c
        <5>1. k \in 1 .. N /\ k < 1 + c
          BY <2>1, <2>5, <4>1
        <5> QED
          BY <2>7, <5>1
      <4>2. CASE k > c
        <5>1. k + 1 \in 1 .. N /\ ~(k + 1 < 1 + c) /\ k + 1 # 1 + c /\ (k + 1) - 1 = k
          BY <2>1, <2>5, <4>2
        <5> QED
          BY <2>7, <5>1
      <4> QED
        BY <2>1, <2>5, <4>1, <4>2
    <3> QED
      BY <2>9, <3>1, <3>2
  <2>13. CASE Len(set) # SetSize
    <3>1. \A y \in D : \E i \in 1 .. N : new[i] = y
      <4>1. \A y \in S : \E k \in 1 .. Len(t) : t[k] = y
        BY <1>1, <2>1, <2>13
      <4> QED
        BY <1>5, <2>12, <4>1
    <3>2. Ranked(js, new, D)
      BY <2>2, <2>7, <2>10, <2>11, <3>1, <2>1, <1>3 DEF Ranked, L
    <3> QED
      BY <2>8, <3>2 DEF D
  <2>14. CASE Len(set) = SetSize
    <3>1. N = SetSize /\ SetSize \in 1 .. Len(set)
      BY <1>3, <2>1, <2>14
    <3>2. last \in D /\ L(last) \in Nat /\ L(x) \in Nat /\ L(x) > L(last)
      BY <1>2, <1>4, <1>5, <1>7, <2>14, <3>1
    <3>3. \A i \in 1 .. N : L(new[i]) >= L(last)
      <4> SUFFICES ASSUME NEW i \in 1 .. N
                   PROVE  L(new[i]) >= L(last)
        OBVIOUS
      <4>1. CASE i = 1 + c
        BY <2>9, <3>2, <4>1
      <4>2. CASE i # 1 + c
        <5>1. Of(i) \in 1 .. Len(set) /\ new[i] = set[Of(i)] /\ Of(i) <= SetSize
          BY <2>3, <2>9, <2>14, <4>2
        <5> QED
          BY <1>1, <3>1, <5>1
      <4> QED
        BY <4>1, <4>2
    <3>4. ASSUME NEW y \in D, \A i \in 1 .. N : new[i] # y
          PROVE  \A i \in 1 .. N : L(new[i]) >= L(y)
      <4>1. y \in S
        BY <1>5, <2>12, <3>4
      <4>2. \A k \in 1 .. Len(t) : set[k] # y
        BY <2>1, <2>12, <3>4
      <4>3. L(last) >= L(y)
        <5>1. CASE last = y
          BY <3>2, <5>1
        <5>2. CASE last # y
          <6>1. \A k \in 1 .. Len(set) : k = SetSize \/ k \in 1 .. Len(t)
            BY <1>3, <2>1, <2>14
          <6>2. \A k \in 1 .. Len(set) : set[k] # y
            BY <4>2, <5>2, <6>1
          <6> QED
            BY <1>1, <3>1, <4>1, <6>2
        <5> QED
          BY <5>1, <5>2
      <4>4. L(y) \in Nat /\ \A i \in 1 .. N : L(new[i]) \in Nat
        <5>1. \A i \in 1 .. N : new[i] \in D
          BY <2>7, ElementOfSeq
        <5> QED
          BY <1>4, <5>1
      <4> QED
        BY <3>2, <3>3, <4>3, <4>4
    <3>5. Ranked(js, new, D)
      <4>1. Len(new) = N /\ Len(new) <= SetSize /\ Len(new) = SetSize
        BY <2>7, <3>1, <1>3
      <4>2. \A y \in D : \/ \E k \in 1 .. N : new[k] = y
                         \/ \A k \in 1 .. N : L(new[k]) >= L(y)
        BY <3>4
      <4> QED
        BY <2>7, <2>10, <2>11, <4>1, <4>2 DEF Ranked, L
    <3> QED
      BY <2>8, <3>5 DEF D
  <2> QED
    BY <2>13, <2>14
<1> QED
  BY <1>6, <1>7

-----------------------------------------------------------------------------
(***************************************************************************)
(* The loops over the jars and their slots reach every place once.         *)
(***************************************************************************)
LEMMA Division ==
  ASSUME NEW J \in Nat \ {0}, NEW k \in Nat
  PROVE  /\ k \div J \in Nat /\ k % J \in 0 .. J - 1
         /\ k = J * (k \div J) + (k % J)
OBVIOUS

LEMMA DivisionUnique ==
  ASSUME NEW J \in Nat \ {0}, NEW q \in Nat, NEW r \in 0 .. J - 1
  PROVE  (J * q + r) \div J = q /\ (J * q + r) % J = r
OBVIOUS

LEMMA DivisionBound ==
  ASSUME NEW J \in Nat \ {0}, NEW L \in Nat, NEW q \in Nat, NEW r \in 0 .. J - 1
  PROVE  /\ L * J \in Nat /\ J * q + r \in Nat
         /\ J * q + r < L * J <=> q < L
<1>1. L * J \in Nat /\ J * q + r \in Nat
  OBVIOUS
<1>2. J * q + r < L * J => q < L
  OBVIOUS
<1>3. q < L => J * q + r < L * J
  OBVIOUS
<1> QED
  BY <1>1, <1>2, <1>3

LEMMA PlacesAll ==
  ASSUME NEW js, Len(js) \in Nat, DOMAIN js = 1 .. Len(js)
  PROVE  /\ Len(js) * JarSize \in Nat
         /\ DOMAIN Places(js) = 1 .. Len(js) * JarSize
         /\ \A k \in DOMAIN Places(js) : Places(js)[k] \in (DOMAIN js) \X Slot
         /\ \A k, l \in DOMAIN Places(js) : Places(js)[k] = Places(js)[l] => k = l
         /\ \A x \in (DOMAIN js) \X Slot : \E k \in DOMAIN Places(js) : Places(js)[k] = x
<1> DEFINE L == Len(js)
           N == L * JarSize
           Q(k) == (k - 1) \div JarSize
           R(k) == (k - 1) % JarSize
<1>1. JarSize \in Nat \ {0} /\ Slot = 1 .. JarSize /\ L \in Nat
  BY JarSizeAssumption DEF Slot
<1>2. N \in Nat
  BY <1>1, DivisionBound
<1>3. /\ DOMAIN Places(js) = 1 .. N
      /\ \A k \in 1 .. N : Places(js)[k] = <<1 + Q(k), 1 + R(k)>>
  BY DEF Places
<1>4. ASSUME NEW k \in 1 .. N
      PROVE  /\ Q(k) \in 0 .. L - 1 /\ R(k) \in 0 .. JarSize - 1
             /\ k = JarSize * Q(k) + R(k) + 1
  <2>1. k - 1 \in Nat /\ k - 1 < N
    BY <1>2
  <2> HIDE DEF N
  <2>2. /\ Q(k) \in Nat /\ R(k) \in 0 .. JarSize - 1
        /\ k - 1 = JarSize * Q(k) + R(k)
    BY <1>1, <2>1, Division
  <2> HIDE DEF Q, R
  <2>3. JarSize * Q(k) + R(k) < L * JarSize
    BY <2>1, <2>2 DEF N
  <2>4. Q(k) < L
    BY <1>1, <2>2, <2>3, DivisionBound
  <2>5. JarSize * Q(k) \in Nat
    BY <1>1, <2>2
  <2> QED
    BY <1>1, <2>1, <2>2, <2>4, <2>5
<1>5. ASSUME NEW n \in DOMAIN js, NEW i \in Slot
      PROVE  \E k \in 1 .. N : Q(k) = n - 1 /\ R(k) = i - 1
  <2> DEFINE m == JarSize * (n - 1) + (i - 1)
  <2>1. n - 1 \in Nat /\ n - 1 < L /\ i - 1 \in 0 .. JarSize - 1
    BY <1>1
  <2>2. m \in Nat /\ m < N
    BY <1>1, <2>1, DivisionBound
  <2>3. m \div JarSize = n - 1 /\ m % JarSize = i - 1
    BY <1>1, <2>1, DivisionUnique
  <2> HIDE DEF m, N
  <2>4. m + 1 \in 1 .. N /\ (m + 1) - 1 = m
    BY <1>2, <2>2
  <2>5. Q(m + 1) = n - 1 /\ R(m + 1) = i - 1
    BY <2>3, <2>4
  <2> QED
    BY <2>4, <2>5
<1> HIDE DEF N, Q, R
<1>6. \A k \in 1 .. N : Places(js)[k] \in (DOMAIN js) \X Slot
  <2> SUFFICES ASSUME NEW k \in 1 .. N
               PROVE  Places(js)[k] \in (DOMAIN js) \X Slot
    OBVIOUS
  <2>1. 1 + Q(k) \in DOMAIN js /\ 1 + R(k) \in Slot
    BY <1>1, <1>4
  <2>2. <<1 + Q(k), 1 + R(k)>> \in (DOMAIN js) \X Slot
    BY <2>1
  <2>3. Places(js)[k] = <<1 + Q(k), 1 + R(k)>>
    BY <1>3
  <2> QED
    BY ONLY <2>2, <2>3
<1>7. ASSUME NEW k \in 1 .. N, NEW l \in 1 .. N, Places(js)[k] = Places(js)[l]
      PROVE  k = l
  <2>1. 1 + Q(k) = 1 + Q(l) /\ 1 + R(k) = 1 + R(l)
    BY <1>3, <1>7
  <2>2. Q(k) = Q(l) /\ R(k) = R(l)
    BY <1>4, <2>1
  <2> QED
    BY <1>4, <2>2
<1>8. ASSUME NEW x \in (DOMAIN js) \X Slot
      PROVE  \E k \in 1 .. N : Places(js)[k] = x
  <2>1. PICK n \in DOMAIN js, i \in Slot : x = <<n, i>>
    OBVIOUS
  <2>2. PICK k \in 1 .. N : Q(k) = n - 1 /\ R(k) = i - 1
    BY <1>5
  <2>3. 1 + Q(k) = n /\ 1 + R(k) = i
    BY <1>1, <2>2
  <2> QED
    BY <1>3, <2>1, <2>3
<1> QED
  BY <1>2, <1>3, <1>6, <1>7, <1>8 DEF N

\* The cookies of a request, as Sent says them
Due(js, h, path) == {x \in (DOMAIN js) \X Slot : Matches(js, h, path, x)}

LEMMA MatchingDue ==
  ASSUME NEW js, Len(js) \in Nat, DOMAIN js = 1 .. Len(js), NEW h, NEW path
  PROVE  LET all == Matching(js, h, path)
         IN  /\ all \in Seq(Due(js, h, path))
             /\ \A k, l \in DOMAIN all : all[k] = all[l] => k = l
             /\ \A x \in Due(js, h, path) : \E k \in DOMAIN all : all[k] = x
<1> DEFINE N == Len(js) * JarSize
           P == Places(js)
           I == {k \in DOMAIN P : Matches(js, h, path, P[k])}
           D == Due(js, h, path)
           all == Matching(js, h, path)
<1>1. /\ N \in Nat /\ DOMAIN P = 1 .. N
      /\ \A k \in DOMAIN P : P[k] \in (DOMAIN js) \X Slot
      /\ \A k, l \in DOMAIN P : P[k] = P[l] => k = l
      /\ \A x \in (DOMAIN js) \X Slot : \E k \in DOMAIN P : P[k] = x
  BY PlacesAll
<1> HIDE DEF N, P
<1>2. I \in SUBSET (1 .. N) /\ \A k \in I : P[k] \in D
  BY <1>1 DEF Due
<1>3. \A x \in D : \E k \in I : P[k] = x
  BY <1>1 DEF Due
<1>4. all = Picked(P, I)
  BY DEF Matching, P
<1> HIDE DEF I, D, all
<1>5. /\ all \in Seq(D)
      /\ DOMAIN all = 1 .. Cardinality(I)
      /\ \A k \in 1 .. Cardinality(I) : all[k] = P[Nth(I, k)]
  <2>1. /\ Picked(P, I) \in Seq(D)
        /\ DOMAIN Picked(P, I) = 1 .. Cardinality(I)
    BY ONLY <1>1, <1>2, PickedElements
  <2>2. \A k \in 1 .. Cardinality(I) : Picked(P, I)[k] = P[Nth(I, k)]
    BY DEF Picked
  <2> QED
    BY <1>4, <2>1, <2>2
<1>6. /\ \A k \in 1 .. Cardinality(I) : Nth(I, k) \in I
      /\ \A k, l \in 1 .. Cardinality(I) : Nth(I, k) = Nth(I, l) => k = l
      /\ \A i \in I : \E k \in 1 .. Cardinality(I) : Nth(I, k) = i
  BY ONLY <1>1, <1>2, NthPlace
<1>7. \A k, l \in DOMAIN all : all[k] = all[l] => k = l
  <2> SUFFICES ASSUME NEW k \in DOMAIN all, NEW l \in DOMAIN all, all[k] = all[l]
               PROVE  k = l
    OBVIOUS
  <2>1. Nth(I, k) \in DOMAIN P /\ Nth(I, l) \in DOMAIN P
    BY <1>1, <1>2, <1>5, <1>6
  <2>2. Nth(I, k) = Nth(I, l)
    BY <1>1, <1>5, <2>1
  <2> QED
    BY <1>5, <1>6, <2>2
<1>8. \A x \in D : \E k \in DOMAIN all : all[k] = x
  BY <1>3, <1>5, <1>6
<1> QED
  BY <1>5, <1>7, <1>8 DEF all, D

LEMMA CollectedRanked ==
  ASSUME NEW js, NEW h, NEW path, NEW D,
         Matching(js, h, path) \in Seq(D),
         \A k, l \in DOMAIN Matching(js, h, path) :
           Matching(js, h, path)[k] = Matching(js, h, path)[l] => k = l,
         \A x \in D : \E k \in DOMAIN Matching(js, h, path) :
           Matching(js, h, path)[k] = x,
         \A x \in D : Length(js, x) \in Nat
  PROVE  Ranked(js, Collected(js, h, path), D)
<1> DEFINE all == Matching(js, h, path)
           N == Len(all)
           T == {set \in Seq(D) : Len(set) <= SetSize}
           G == [y \in (1 .. N) \X T |-> Insert(js, y[2], all[y[1]])]
           Loop(f) == f = [k \in 0 .. N |->
                             IF k = 0 THEN <<>> ELSE Insert(js, f[k - 1], all[k])]
           step == CHOOSE f : Loop(f)
           Of(n) == {all[k] : k \in 1 .. n}
<1>0. Collected(js, h, path) = step[N]
  BY DEF Collected
<1> HIDE DEF all
<1>1. /\ N \in Nat /\ DOMAIN all = 1 .. N
      /\ \A k \in 1 .. N : all[k] \in D
      /\ \A k, l \in 1 .. N : all[k] = all[l] => k = l
      /\ \A x \in D : \E k \in 1 .. N : all[k] = x
  <2>1. all \in Seq(D)
    BY DEF all
  <2>2. N \in Nat /\ DOMAIN all = 1 .. N /\ \A k \in 1 .. N : all[k] \in D
    BY <2>1, LenProperties, ElementOfSeq
  <2> QED
    BY <2>2 DEF all
<1>2. SetSize \in Nat
  BY SetSizeAssumption
<1> HIDE DEF N
<1>3. <<>> \in T
  BY <1>2
<1>4. \A set \in T, x \in D : Insert(js, set, x) \in T
  <2> SUFFICES ASSUME NEW set \in T, NEW x \in D
               PROVE  Insert(js, set, x) \in T
    OBVIOUS
  <2>1. set \in Seq(D) /\ Len(set) <= SetSize
    OBVIOUS
  <2>2. Insert(js, set, x) \in Seq(D) /\ Len(Insert(js, set, x)) <= SetSize
    BY <2>1, InsertPlaces
  <2> QED
    BY <2>2
<1> HIDE DEF T
<1>5. G \in [(1 .. N) \X T -> T]
  BY <1>1, <1>4
<1>6. \A n \in 1 .. N, set \in T : G[<<n, set>>] = Insert(js, set, all[n])
  OBVIOUS
<1> HIDE DEF G
<1>7. \E f : Loop(f)
  <2>0. N \in Nat
    BY <1>1
  <2>1. PICK f \in [0 .. N -> T] : Rounds(f, N, <<>>, G)
    BY <2>0, <1>3, <1>5, IteratedAt
  <2>2. \A k \in 0 .. N : k # 0 => k \in 1 .. N /\ f[k - 1] \in T
    BY <2>0
  <2>3. \A k \in 0 .. N : k # 0 => G[<<k, f[k - 1]>>] = Insert(js, f[k - 1], all[k])
    BY <1>6, <2>2
  <2>4. Loop(f)
    BY ONLY <2>1, <2>3 DEF Rounds
  <2> QED
    BY <2>4
<1>8. Loop(step)
  BY <1>7
<1> HIDE DEF step
<1>9. /\ step[0] = <<>>
      /\ \A n \in 0 .. N - 1 : step[n + 1] = Insert(js, step[n], all[n + 1])
  <2>1. \A n \in 0 .. N - 1 : n + 1 \in 0 .. N /\ n + 1 # 0 /\ (n + 1) - 1 = n
    BY <1>1
  <2>2. 0 \in 0 .. N
    BY <1>1
  <2> QED
    BY ONLY <1>8, <2>1, <2>2
<1> DEFINE Good(n) == Ranked(js, step[n], Of(n))
           S == {n \in 0 .. N : Good(n)}
<1>10. Good(0)
  <2>1. Ranked(js, <<>>, {})
    BY <1>2 DEF Ranked
  <2>2. Of(0) = {}
    OBVIOUS
  <2> QED
    BY <1>9, <2>1, <2>2
<1>11. \A n \in 0 .. N - 1 : Good(n) => Good(n + 1)
  <2> SUFFICES ASSUME NEW n \in 0 .. N - 1, Ranked(js, step[n], Of(n))
               PROVE  Ranked(js, step[n + 1], Of(n + 1))
    OBVIOUS
  <2> DEFINE x == all[n + 1]
  <2>1. n + 1 \in 1 .. N /\ n + 1 \in 0 .. N /\ n + 1 # 0 /\ (n + 1) - 1 = n
        /\ n \in 0 .. N
    BY <1>1
  <2>2. step[n + 1] = Insert(js, step[n], x)
    BY <1>9
  <2>3. x \notin Of(n)
    <3>1. \A k \in 1 .. n : k \in 1 .. N /\ k # n + 1
      BY <1>1
    <3> QED
      BY <1>1, <2>1, <3>1
  <2>4. Of(n + 1) = Of(n) \cup {x}
    <3>1. 1 .. n + 1 = (1 .. n) \cup {n + 1}
      BY <2>1
    <3> QED
      BY <3>1
  <2>5. \A y \in Of(n) \cup {x} : Length(js, y) \in Nat
    <3>1. Of(n + 1) \in SUBSET D
      BY <1>1
    <3> QED
      BY <2>4, <3>1
  <2> HIDE DEF x, Of
  <2>6. Ranked(js, Insert(js, step[n], x), Of(n) \cup {x})
    BY <2>3, <2>5, InsertRanked
  <2> QED
    BY <2>2, <2>4, <2>6
<1> HIDE DEF Good
<1>12. Good(N)
  <2>1. N \in Nat /\ N \in 0 .. N
    BY <1>1
  <2>2. 0 \in S /\ \A n \in 0 .. N - 1 : n \in S => n + 1 \in S
    BY <1>10, <1>11, <2>1
  <2> HIDE DEF S
  <2>3. \A n \in 0 .. N : n \in S
    BY ONLY <2>1, <2>2, UpTo
  <2> QED
    BY <2>1, <2>3 DEF S
<1>13. Of(N) = D
  BY <1>1
<1> QED
  BY <1>0, <1>12, <1>13 DEF Good

\* After the purge no cookie that has expired is left in the jars of a host.
LEMMA PurgedForShape ==
  ASSUME NEW cap, NEW sp, NEW js \in JarLists(cap, sp), NEW h, ~Strands(js, h)
  PROVE  LET ks == PurgedFor(js, h)
         IN  /\ ks \in JarLists(cap, sp) /\ DOMAIN ks = DOMAIN js
             /\ \A n \in DOMAIN js : \A i \in Shown(ks[n].slots) :
                  JarMatches(ks[n], h) => ~Expired(ks[n].slots[i])
<1> DEFINE ks == PurgedFor(js, h)
<1>1. ks \in JarLists(cap, sp)
  BY PurgedJars
<1>2. DOMAIN ks = DOMAIN js
  BY DEF PurgedFor
<1>3. ASSUME NEW n \in DOMAIN js, JarMatches(ks[n], h), NEW i \in Shown(ks[n].slots)
      PROVE  ~Expired(ks[n].slots[i])
  <2>1. js[n] \in Jar /\ js[n].slots \in Slots
    BY JarListShape DEF Jar
  <2>2. ks[n] = IF JarMatches(js[n], h)
                THEN [js[n] EXCEPT !.slots = Purged(js[n].slots)] ELSE js[n]
    BY DEF PurgedFor
  <2>3. JarMatches(js[n], h)
    BY <1>3, <2>2
  <2>4. ks[n].slots = Purged(js[n].slots)
    BY <2>1, <2>2, <2>3 DEF Jar
  <2>5. Shown(js[n].slots) = Slot => \A q \in Slot : ~Expired(js[n].slots[q])
    BY <2>3 DEF Strands
  <2>6. \A q \in Shown(Purged(js[n].slots)) : ~Expired(Purged(js[n].slots)[q])
    BY <2>1, <2>5, PurgedSlots
  <2> QED
    BY <1>3, <2>4, <2>6
<1> QED
  BY <1>1, <1>2, <1>3

LEMMA SentSet ==
  ASSUME IInv, NEW h \in Host, NEW path \in Paths, ~Strands(jars, h)
  PROVE  LET js  == PurgedFor(jars, h)
             due == {x \in (DOMAIN jars) \X Slot :
                       /\ JarMatches(js[x[1]], h)
                       /\ At(js, x) # Nil /\ ~Expired(At(js, x))
                       /\ IsPrefix(At(js, x).path, path)}
         IN  Ranked(js, Collected(js, h, path), due)
<1> DEFINE js == PurgedFor(jars, h)
           due == {x \in (DOMAIN jars) \X Slot :
                     /\ JarMatches(js[x[1]], h)
                     /\ At(js, x) # Nil /\ ~Expired(At(js, x))
                     /\ IsPrefix(At(js, x).path, path)}
           D == Due(js, h, path)
<1>1. /\ js \in JarLists(capitals, spoilt) /\ DOMAIN js = DOMAIN jars
      /\ \A n \in DOMAIN jars : \A i \in Shown(js[n].slots) :
           JarMatches(js[n], h) => ~Expired(js[n].slots[i])
  BY PurgedForShape DEF IInv
<1> HIDE DEF js
<1>2. /\ Len(js) \in Nat /\ DOMAIN js = 1 .. Len(js)
      /\ \A n \in DOMAIN js : js[n] \in Jar
  BY <1>1, JarListShape
<1>3. ASSUME NEW n \in DOMAIN js
      PROVE  /\ Shown(js[n].slots) = {i \in Slot : js[n].slots[i] # Nil}
             /\ \A i \in Shown(js[n].slots) : js[n].slots[i] \in Cookie
  <2>1. js[n].slots \in Slots
    BY <1>2 DEF Jar
  <2> QED
    BY <2>1, SlotsShown
<1>4. D = due
  <2> SUFFICES ASSUME NEW n \in DOMAIN jars, NEW i \in Slot
               PROVE  Matches(js, h, path, <<n, i>>) <=>
                        /\ JarMatches(js[n], h)
                        /\ At(js, <<n, i>>) # Nil /\ ~Expired(At(js, <<n, i>>))
                        /\ IsPrefix(At(js, <<n, i>>).path, path)
    BY <1>1 DEF Due
  <2> QED
    BY <1>1, <1>3 DEF Matches, At
<1>5. \A x \in D : Length(js, x) \in Nat
  <2> SUFFICES ASSUME NEW x \in D
               PROVE  Length(js, x) \in Nat
    OBVIOUS
  <2>1. x[1] \in DOMAIN js /\ x[2] \in Shown(js[x[1]].slots)
    BY DEF Due, Matches
  <2>2. At(js, x) \in Cookie
    BY <1>3, <2>1 DEF At
  <2>3. At(js, x).path \in Paths
    BY <2>2 DEF Cookie
  <2>4. Len(At(js, x).path) \in Nat
    BY <2>3, PathsAssumption, LenProperties
  <2> QED
    BY <2>4 DEF Length
<1> DEFINE all == Matching(js, h, path)
<1>6. /\ all \in Seq(D)
      /\ \A k, l \in DOMAIN all : all[k] = all[l] => k = l
      /\ \A x \in D : \E k \in DOMAIN all : all[k] = x
  BY <1>2, MatchingDue
<1> HIDE DEF D, due
<1>7. Ranked(js, Collected(js, h, path), D)
  BY ONLY <1>5, <1>6, CollectedRanked DEF all
<1>8. Ranked(js, Collected(js, h, path), due)
  BY <1>4, <1>7
<1> QED
  BY <1>8 DEF js, due

\* A request that is made now gets the cookies that are due, each once, the
\* ones with longer paths first, and of too many those with the longest: the
\* loop of cookie_Jar() that fills the array drops no other.
THEOREM SentRight ==
  ASSUME "expire" \notin Careless
  PROVE  Spec => []Sent
<1>1. Init => IInv
  BY InitInv
<1>2. IInv /\ [Next]_vars => IInv'
  BY NextInv
<1>3. ASSUME IInv
      PROVE  Sent
  <2> SUFFICES ASSUME NEW h \in Host \ refused, NEW path \in Paths,
                      ~Strands(jars, h), NEW js, js = PurgedFor(jars, h)
               PROVE  LET set == Collected(js, h, path)
                          due == {x \in (DOMAIN jars) \X Slot :
                                    /\ JarMatches(js[x[1]], h)
                                    /\ At(js, x) # Nil /\ ~Expired(At(js, x))
                                    /\ IsPrefix(At(js, x).path, path)}
                      IN  /\ IsInjective(set) /\ Range(set) \subseteq due
                          /\ Range(set) = due \/ Len(set) = SetSize
                          /\ \A k \in 2 .. Len(set) :
                               Length(js, set[k - 1]) >= Length(js, set[k])
                          /\ \A x \in due \ Range(set), k \in DOMAIN set :
                               Length(js, set[k]) >= Length(js, x)
    BY DEF Sent
  <2> DEFINE set == Collected(js, h, path)
             due == {x \in (DOMAIN jars) \X Slot :
                       /\ JarMatches(js[x[1]], h)
                       /\ At(js, x) # Nil /\ ~Expired(At(js, x))
                       /\ IsPrefix(At(js, x).path, path)}
  <2>1. Ranked(js, set, due)
    BY <1>3, SentSet
  <2> HIDE DEF set, due
  <2>2. /\ set \in Seq(due)
        /\ \A i, k \in 1 .. Len(set) : set[i] = set[k] => i = k
        /\ \A i, k \in 1 .. Len(set) :
             i <= k => Length(js, set[i]) >= Length(js, set[k])
        /\ Len(set) = SetSize \/ \A x \in due : \E k \in 1 .. Len(set) : set[k] = x
        /\ \A x \in due : \/ \E k \in 1 .. Len(set) : set[k] = x
                          \/ \A k \in 1 .. Len(set) : Length(js, set[k]) >= Length(js, x)
    BY <2>1 DEF Ranked
  <2>3. /\ Len(set) \in Nat /\ DOMAIN set = 1 .. Len(set)
        /\ \A k \in 1 .. Len(set) : set[k] \in due
    BY <2>2, LenProperties, ElementOfSeq
  <2>4. Range(set) = {set[k] : k \in 1 .. Len(set)}
    BY <2>3 DEF Range
  <2>5. IsInjective(set) /\ Range(set) \subseteq due
    BY <2>2, <2>3, <2>4 DEF IsInjective
  <2>6. Range(set) = due \/ Len(set) = SetSize
    BY <2>2, <2>3, <2>4
  <2>7. \A k \in 2 .. Len(set) : Length(js, set[k - 1]) >= Length(js, set[k])
    <3>1. \A k \in 2 .. Len(set) : k \in 1 .. Len(set) /\ k - 1 \in 1 .. Len(set) /\ k - 1 <= k
      BY <2>3
    <3> QED
      BY <2>2, <3>1
  <2>8. \A x \in due \ Range(set), k \in DOMAIN set :
          Length(js, set[k]) >= Length(js, x)
    BY <2>2, <2>3, <2>4
  <2> QED
    BY <2>5, <2>6, <2>7, <2>8 DEF set, due
<1> QED
  BY <1>1, <1>2, <1>3, PTL DEF Spec

=============================================================================
