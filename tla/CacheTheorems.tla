--------------------------- MODULE CacheTheorems ---------------------------
(***************************************************************************)
(* Proofs about Cache: the items, the files and cache.idx agree over       *)
(* sessions and crashes, the counters are right and the limits kept, what  *)
(* a client points to stays, and the cache implements Reservation.         *)
(*                                                                         *)
(* The list, the chains and the items change together.  The invariant is   *)
(* therefore stated for the set U of the items in the list, the fields it  *)
(* of the items, and so on, as operators on values: what is proved once    *)
(* for destroy_item() serves every handler that calls it.                  *)
(***************************************************************************)
EXTENDS Cache, BasicTheorems

-----------------------------------------------------------------------------
(***************************************************************************)
(* The invariant.                                                          *)
(***************************************************************************)
OnDisk(it, c) == ~it[c].mem
HasFile(it, c) == ~it[c].mem /\ it[c].Cached # 0

\* An item in the list is an object in memory, a file, or a reservation that
\* nobody points to and that counts for the loader only; one that is not in
\* the list was cleared.
ItemsRight(U, it) ==
  /\ U \in SUBSET Item
  /\ it \in [Item -> ItemRecord]
  /\ \A c \in Item \ U : it[c] = Blank
  /\ \A c \in U :
       /\ it[c].Location \in Loc
       /\ it[c].mem => it[c].Cached = 0
       /\ OnDisk(it, c) /\ it[c].Cached = 0 =>
            ~it[c].Object /\ it[c].Reffs = 1 /\ it[c].Size = 0

\* One file, or reservation, for a location, and one item for a file
Distinct(U, it) ==
  \A c, d \in U :
    c # d /\ OnDisk(it, c) /\ OnDisk(it, d) =>
      /\ it[c].Location # it[d].Location
      /\ it[c].Cached # 0 => it[c].Cached # it[d].Cached

\* The search tree has the items of the list.
Chained(U, ch, it) ==
  /\ ch \in [Loc -> Seq(Item)]
  /\ \A l \in Loc : ToSet(ch[l]) = {c \in U : it[c].Location = l}

\* What clients point to is counted, and loaders point to files.
Pointed(U, it, h, ld) ==
  /\ h \in [Item -> 0 .. MaxHeld]
  /\ ld \in SUBSET Item
  /\ \A c \in U : /\ it[c].mem => h[c] <= it[c].Reffs
                  /\ OnDisk(it, c) /\ it[c].Cached = 0 => h[c] = 0
                  /\ c \in ld => HasFile(it, c)

\* The files of the items have numbers below the next one.
FilesRight(U, it, fl, n) ==
  /\ fl \in [Name -> Loc \cup {Nil}]
  /\ n \in 1 .. MaxFid + 1
  /\ \A c \in U : HasFile(it, c) =>
       /\ it[c].Cached < n
       /\ fl[it[c].Cached] \in {it[c].Location, Nil}

\* cache.idx could be read at any time.
IndexRight(ix, fl) ==
  /\ ix \in [fid : 0 .. MaxFid + 1, lines : Seq(Line)]
  /\ Len(ix.lines) <= MaxItems
  /\ ix.fid = 0 => ix.lines = <<>>
  /\ \A k \in DOMAIN ix.lines :
       /\ ix.lines[k].Cached < ix.fid
       /\ fl[ix.lines[k].Cached] \in {ix.lines[k].Location, Nil}
  /\ \A i, k \in DOMAIN ix.lines :
       i # k => /\ ix.lines[i].Location # ix.lines[k].Location
                /\ ix.lines[i].Cached # ix.lines[k].Cached

LinesOf(U, it) == {LineOf(it[c]) : c \in {d \in U : HasFile(it, d)}}

\* The sizes of the items, as a function
SizesOf(it) == [c \in Item |-> it[c].Size]

InMem(U, it) == {c \in U : it[c].mem}

CountsRight(U, it, mu, mn, du, dn) ==
  /\ mu = Total(SizesOf(it), InMem(U, it)) /\ mn = Cardinality(InMem(U, it))
  /\ du = Total(SizesOf(it), U \ InMem(U, it))
  /\ dn = Cardinality(U \ InMem(U, it))

\* Above the limit there are no objects that nobody points to.
Bounded(U, it, mu) == mu > MemMax => {c \in InMem(U, it) : it[c].Reffs = 0} = {}

IInv ==
  /\ phase \in {"down", "built", "up"}
  /\ phase = "down" => lru = <<>>
  /\ lru \in Seq(Item) /\ IsInjective(lru)
  /\ {changed, at_exit, wrote} \in SUBSET BOOLEAN
  /\ ItemsRight(Items, item)
  /\ Distinct(Items, item)
  /\ Chained(Items, chain, item)
  /\ Pointed(Items, item, held, loaded)
  /\ FilesRight(Items, item, files, fid)
  /\ IndexRight(index, files)
  /\ phase # "down" /\ ~changed => ToSet(index.lines) = LinesOf(Items, item)
  /\ CountsRight(Items, item, mem_use, mem_num, dsk_use, dsk_num)
  /\ Bounded(Items, item, mem_use)

-----------------------------------------------------------------------------
(***************************************************************************)
(* Sets of items, lists, sums.                                             *)
(***************************************************************************)
LEMMA ItemsFinite ==
  /\ MaxItems \in Nat /\ Item \in SUBSET Nat
  /\ \A U \in SUBSET Item : /\ IsFiniteSet(U)
                             /\ Cardinality(U) \in 0 .. MaxItems
<1>1. MaxItems \in Nat /\ Item = 1 .. MaxItems
  BY CacheAssumption DEF Item
<1>2. IsFiniteSet(1 .. MaxItems) /\ Cardinality(1 .. MaxItems) = MaxItems
  BY <1>1, FS_Interval
<1>3. ASSUME NEW U \in SUBSET Item
      PROVE  IsFiniteSet(U) /\ Cardinality(U) \in 0 .. MaxItems
  <2>1. IsFiniteSet(U) /\ Cardinality(U) <= MaxItems
    BY <1>1, <1>2, FS_Subset
  <2>2. Cardinality(U) \in Nat
    BY <2>1, FS_CardinalityType
  <2> QED
    BY <1>1, <2>1, <2>2
<1> QED
  BY <1>1, <1>3

\* What is malloc()ed is not in the list, and nobody points to it.
LEMMA NewItem ==
  ASSUME Free # {}
  PROVE  /\ Min(Free) \in Item
         /\ Min(Free) \notin Items /\ Min(Free) \notin loaded
         /\ held[Min(Free)] = 0
<1>1. Free \in SUBSET Nat /\ Free \in SUBSET Item
  BY ItemsFinite DEF Free
<1>2. Min(Free) \in Free
  BY <1>1, MinOfNats
<1> QED
  BY <1>1, <1>2 DEF Free

LEMMA Prepended ==
  ASSUME NEW T, NEW q \in Seq(T), NEW e \in T
  PROVE  /\ <<e>> \o q \in Seq(T)
         /\ ToSet(<<e>> \o q) = {e} \cup ToSet(q)
         /\ IsInjective(q) /\ e \notin ToSet(q) => IsInjective(<<e>> \o q)
<1> DEFINE s == <<e>> \o q
<1>1. /\ <<e>> \in Seq(T) /\ Len(<<e>>) = 1 /\ <<e>>[1] = e
      /\ Len(q) \in Nat /\ DOMAIN q = 1 .. Len(q)
  BY LenProperties
<1>2. /\ s \in Seq(T) /\ Len(s) = 1 + Len(q)
      /\ \A i \in 1 .. 1 + Len(q) : s[i] = IF i <= 1 THEN <<e>>[i] ELSE q[i - 1]
  BY <1>1, ConcatProperties
<1>3. DOMAIN s = 1 .. 1 + Len(q)
  BY <1>2, LenProperties
<1> HIDE DEF s
<1>4. s[1] = e /\ \A i \in 1 .. Len(q) : s[i + 1] = q[i]
  <2>1. s[1] = e
    BY <1>1, <1>2
  <2>2. ASSUME NEW i \in 1 .. Len(q)
        PROVE  s[i + 1] = q[i]
    <3>1. i + 1 \in 1 .. 1 + Len(q) /\ ~(i + 1 <= 1) /\ (i + 1) - 1 = i
      BY <1>1, <2>2
    <3> QED
      BY <1>2, <3>1
  <2> QED
    BY <2>1, <2>2
<1>5. \A i \in 1 .. 1 + Len(q) : i = 1 \/ (i - 1 \in 1 .. Len(q) /\ i = (i - 1) + 1)
  BY <1>1
<1>6. ToSet(s) = {e} \cup ToSet(q)
  <2>1. ASSUME NEW x \in ToSet(s)
        PROVE  x = e \/ x \in ToSet(q)
    <3>1. PICK i \in 1 .. 1 + Len(q) : x = s[i]
      BY <1>3, <2>1 DEF ToSet
    <3>2. CASE i = 1
      BY <1>4, <3>1, <3>2
    <3>3. CASE i # 1
      <4>1. i - 1 \in 1 .. Len(q) /\ x = q[i - 1]
        BY <1>1, <1>2, <1>5, <3>1, <3>3
      <4> QED
        BY <1>1, <4>1 DEF ToSet
    <3> QED
      BY <3>2, <3>3
  <2>2. e \in ToSet(s)
    BY <1>1, <1>3, <1>4 DEF ToSet
  <2>3. ASSUME NEW x \in ToSet(q)
        PROVE  x \in ToSet(s)
    <3>1. PICK i \in 1 .. Len(q) : x = q[i]
      BY <1>1, <2>3 DEF ToSet
    <3>2. i + 1 \in DOMAIN s /\ s[i + 1] = x
      BY <1>1, <1>3, <1>4, <3>1
    <3> QED
      BY <3>2 DEF ToSet
  <2> QED
    BY <2>1, <2>2, <2>3
<1>7. ASSUME IsInjective(q), e \notin ToSet(q)
      PROVE  IsInjective(s)
  <2>0. \A i \in 1 .. Len(q) : q[i] # e
    BY <1>1, <1>7 DEF ToSet
  <2> SUFFICES ASSUME NEW i \in DOMAIN s, NEW k \in DOMAIN s, s[i] = s[k]
               PROVE  i = k
    BY DEF IsInjective
  <2>1. CASE i = 1 /\ k = 1
    BY <2>1
  <2>2. CASE i = 1 /\ k # 1
    <3>1. k - 1 \in 1 .. Len(q) /\ s[k] = q[k - 1]
      BY <1>1, <1>2, <1>3, <1>5, <2>2
    <3> QED
      BY <1>4, <2>0, <2>2, <3>1
  <2>3. CASE i # 1 /\ k = 1
    <3>1. i - 1 \in 1 .. Len(q) /\ s[i] = q[i - 1]
      BY <1>1, <1>2, <1>3, <1>5, <2>3
    <3> QED
      BY <1>4, <2>0, <2>3, <3>1
  <2>4. CASE i # 1 /\ k # 1
    <3>1. /\ k - 1 \in 1 .. Len(q) /\ s[k] = q[k - 1]
          /\ i - 1 \in 1 .. Len(q) /\ s[i] = q[i - 1]
      BY <1>1, <1>2, <1>3, <1>5, <2>4
    <3>2. i - 1 = k - 1
      BY <1>1, <1>7, <3>1 DEF IsInjective
    <3> QED
      BY <1>1, <1>3, <3>2
  <2> QED
    BY <2>1, <2>2, <2>3, <2>4
<1> QED
  BY <1>2, <1>6, <1>7 DEF s

LEMMA Reversed ==
  ASSUME NEW T, NEW q \in Seq(T)
  PROVE  /\ Reverse(q) \in Seq(T)
         /\ ToSet(Reverse(q)) = ToSet(q)
         /\ IsInjective(q) => IsInjective(Reverse(q))
<1> DEFINE s == Reverse(q)
<1>1. Len(q) \in Nat /\ DOMAIN q = 1 .. Len(q) /\ \A i \in 1 .. Len(q) : q[i] \in T
  BY LenProperties, ElementOfSeq
<1>2. \A i \in 1 .. Len(q) : (Len(q) - i) + 1 \in 1 .. Len(q)
  BY <1>1
<1>3. /\ s = [i \in 1 .. Len(q) |-> q[(Len(q) - i) + 1]]
      /\ DOMAIN s = 1 .. Len(q)
  BY DEF Reverse
<1>4. s \in Seq(T)
  <2>1. s \in [1 .. Len(q) -> T]
    BY <1>1, <1>2, <1>3
  <2> QED
    BY <1>1, <2>1
<1> HIDE DEF s
<1>5. \A i \in 1 .. Len(q) : s[i] = q[(Len(q) - i) + 1]
  BY <1>3
<1>6. \A i \in 1 .. Len(q) : q[i] = s[(Len(q) - i) + 1]
  <2> SUFFICES ASSUME NEW i \in 1 .. Len(q)
               PROVE  q[i] = s[(Len(q) - i) + 1]
    OBVIOUS
  <2>1. (Len(q) - ((Len(q) - i) + 1)) + 1 = i
    BY <1>1
  <2> QED
    BY <1>2, <1>5, <2>1
<1>7. ToSet(s) = ToSet(q)
  <2>1. \A x \in ToSet(s) : x \in ToSet(q)
    BY <1>1, <1>2, <1>3, <1>5 DEF ToSet
  <2>2. ASSUME NEW x \in ToSet(q)
        PROVE  x \in ToSet(s)
    <3>1. PICK i \in 1 .. Len(q) : x = q[i]
      BY <1>1, <2>2 DEF ToSet
    <3>2. (Len(q) - i) + 1 \in DOMAIN s /\ x = s[(Len(q) - i) + 1]
      BY <1>2, <1>3, <1>6, <3>1
    <3> QED
      BY <3>2 DEF ToSet
  <2> QED
    BY <2>1, <2>2
<1>8. ASSUME IsInjective(q)
      PROVE  IsInjective(s)
  <2> SUFFICES ASSUME NEW i \in DOMAIN s, NEW k \in DOMAIN s, s[i] = s[k]
               PROVE  i = k
    BY DEF IsInjective
  <2>1. (Len(q) - i) + 1 = (Len(q) - k) + 1
    BY <1>1, <1>2, <1>3, <1>5, <1>8 DEF IsInjective
  <2> QED
    BY <1>1, <1>3, <2>1
<1> QED
  BY <1>4, <1>7, <1>8 DEF s

\* The sums of the model are sums of functions.
LEMMA BytesTotal ==
  ASSUME NEW S \in SUBSET Item, item \in [Item -> ItemRecord]
  PROVE  Bytes(S) = Total(SizesOf(item), S)
<1> DEFINE g == SizesOf(item)
           E(F) == F = [s \in SUBSET S |->
                          IF s = {} THEN 0
                          ELSE item[AnyOf(s)].Size + F[s \ {AnyOf(s)}]]
           G == CHOOSE F : E(F)
<1>1. Bytes(S) = G[S]
  BY DEF Bytes, MapThenSumSet, MapThenFoldSet, AnyOf
<1>2. \A x \in S : g[x] = item[x].Size /\ g[x] \in Nat
  BY DEF SizesOf, ItemRecord
<1>3. IsFiniteSet(S)
  BY ItemsFinite
<1> HIDE DEF g
<1>4. ASSUME NEW F
      PROVE  E(F) <=> Sums(F, g, S)
  <2>1. \A s \in SUBSET S : s # {} => AnyOf(s) \in S
    BY AnyOfIn
  <2>2. \A s \in SUBSET S : s # {} => item[AnyOf(s)].Size = g[AnyOf(s)]
    BY <1>2, <2>1
  <2>3. [s \in SUBSET S |-> IF s = {} THEN 0
                            ELSE item[AnyOf(s)].Size + F[s \ {AnyOf(s)}]]
      = [s \in SUBSET S |-> IF s = {} THEN 0
                            ELSE g[AnyOf(s)] + F[s \ {AnyOf(s)}]]
    BY <2>2
  <2> QED
    BY <2>3 DEF Sums
<1>5. \E F : E(F)
  BY <1>2, <1>3, <1>4, SumsExist
<1>6. Sums(G, g, S)
  BY <1>4, <1>5
<1> HIDE DEF G
<1>7. G[S] = Total(g, S)
  BY <1>2, <1>3, <1>6, TotalIs
<1> QED
  BY <1>1, <1>7 DEF g

LEMMA SizesNat ==
  ASSUME NEW it \in [Item -> ItemRecord]
  PROVE  \A c \in Item : SizesOf(it)[c] = it[c].Size /\ it[c].Size \in Nat
BY DEF SizesOf, ItemRecord

-----------------------------------------------------------------------------
(***************************************************************************)
(* The index.                                                              *)
(***************************************************************************)
LEMMA LineTyped ==
  ASSUME NEW U, NEW it, ItemsRight(U, it), NEW c \in U, HasFile(it, c)
  PROVE  /\ LineOf(it[c]) \in Line
         /\ LineOf(it[c]).Location = it[c].Location
         /\ LineOf(it[c]).Cached = it[c].Cached
<1>1. /\ c \in Item /\ it[c] \in ItemRecord
      /\ it[c].Location \in Loc /\ it[c].Cached # 0
  BY DEF ItemsRight, HasFile
<1> QED
  BY <1>1 DEF LineOf, Line, ItemRecord

\* Lines that list the files of the items, each of them once, can be read.
LEMMA IndexOfItems ==
  ASSUME NEW U, NEW it, ItemsRight(U, it), Distinct(U, it),
         NEW fl, NEW n, FilesRight(U, it, fl, n),
         NEW q \in Seq(Line), ToSet(q) = LinesOf(U, it),
         \A i, k \in DOMAIN q : i # k => q[i].Location # q[k].Location
  PROVE  IndexRight([fid |-> n, lines |-> q], fl)
<1> DEFINE named == {d \in U : HasFile(it, d)}
<1>1. Len(q) \in Nat /\ DOMAIN q = 1 .. Len(q)
  BY LenProperties
<1>2. \A k \in DOMAIN q : \E d \in named : q[k] = LineOf(it[d])
  BY DEF ToSet, LinesOf
<1>3. U \in SUBSET Item
  BY DEF ItemsRight
<1>4. ASSUME NEW k \in DOMAIN q, NEW d \in named, q[k] = LineOf(it[d])
      PROVE  q[k].Location = it[d].Location /\ q[k].Cached = it[d].Cached
  BY <1>4, LineTyped
<1>5. Len(q) <= MaxItems
  <2> DEFINE f == [k \in DOMAIN q |-> CHOOSE d \in named : q[k] = LineOf(it[d])]
  <2>1. \A k \in DOMAIN q : f[k] \in named /\ q[k] = LineOf(it[f[k]])
    BY <1>2
  <2> HIDE DEF f
  <2>2. \A i, k \in DOMAIN q : f[i] = f[k] => i = k
    BY <2>1
  <2>3. f \in [1 .. Len(q) -> Item]
    <3>1. f \in [DOMAIN q -> Item]
      BY <1>3, <2>1 DEF f
    <3> QED
      BY <1>1, <3>1
  <2>4. f \in Injection(1 .. Len(q), Item)
    BY <1>1, <2>2, <2>3 DEF Injection, IsInjective
  <2>5. IsFiniteSet(Item) /\ Cardinality(Item) \in 0 .. MaxItems /\ MaxItems \in Nat
    BY ItemsFinite
  <2>6. Cardinality(1 .. Len(q)) <= Cardinality(Item)
    BY <2>4, <2>5, FS_Injection
  <2>7. Cardinality(1 .. Len(q)) = Len(q)
    BY <1>1, FS_Interval
  <2> QED
    BY <1>1, <2>5, <2>6, <2>7
<1>6. ASSUME NEW k \in DOMAIN q
      PROVE  /\ q[k].Cached < n
             /\ fl[q[k].Cached] \in {q[k].Location, Nil}
  <2>1. PICK d \in named : q[k] = LineOf(it[d])
    BY <1>2
  <2> QED
    BY <1>4, <2>1 DEF FilesRight
<1>7. ASSUME NEW i \in DOMAIN q, NEW k \in DOMAIN q, i # k
      PROVE  q[i].Cached # q[k].Cached
  <2>1. PICK c \in named : q[i] = LineOf(it[c])
    BY <1>2
  <2>2. PICK d \in named : q[k] = LineOf(it[d])
    BY <1>2
  <2>3. q[i].Location # q[k].Location
    BY <1>7
  <2>4. c # d
    BY <2>1, <2>2, <2>3
  <2>5. it[c].Cached # it[d].Cached
    BY <2>4 DEF Distinct, HasFile, OnDisk
  <2> QED
    BY <1>4, <2>1, <2>2, <2>5
<1>8. n # 0 /\ n \in 0 .. MaxFid + 1
  BY CacheAssumption DEF FilesRight
<1>9. [fid |-> n, lines |-> q] \in [fid : 0 .. MaxFid + 1, lines : Seq(Line)]
  BY <1>8
<1> DEFINE ix == [fid |-> n, lines |-> q]
<1>10. ix.fid = n /\ ix.lines = q
  OBVIOUS
<1> HIDE DEF ix
<1>11. IndexRight(ix, fl)
  BY <1>5, <1>6, <1>7, <1>8, <1>9, <1>10 DEF IndexRight, ix
<1> QED
  BY <1>11 DEF ix

\* cache_flush (NULL): the files in the list, each of them once
LEMMA LinesListed ==
  ASSUME NEW q \in Seq(Item), IsInjective(q), NEW it,
         ItemsRight(ToSet(q), it), Distinct(ToSet(q), it)
  PROVE  /\ Lines(q, it) \in Seq(Line)
         /\ ToSet(Lines(q, it)) = LinesOf(ToSet(q), it)
         /\ \A i, k \in DOMAIN Lines(q, it) :
              i # k => Lines(q, it)[i].Location # Lines(q, it)[k].Location
<1> DEFINE unnamed == {c \in ToSet(q) : it[c].mem \/ it[c].Cached = 0}
           r == MoveOut(Reverse(q), unnamed)
           s == [k \in DOMAIN r |-> LineOf(it[r[k]])]
<1>1. Lines(q, it) = s
  BY DEF Lines
<1>2. Reverse(q) \in Seq(Item) /\ ToSet(Reverse(q)) = ToSet(q) /\ IsInjective(Reverse(q))
  BY Reversed
<1> HIDE DEF unnamed
<1>3. r \in Seq(Item) /\ ToSet(r) = ToSet(q) \ unnamed /\ IsInjective(r)
  BY <1>2, MoveOutElements, MoveOutKeeps
<1> HIDE DEF r
<1>4. ToSet(r) = {d \in ToSet(q) : HasFile(it, d)}
  <2>1. ItemsRight(ToSet(q), it)
    OBVIOUS
  <2>2. \A d \in ToSet(q) : it[d].mem \in BOOLEAN
    BY <2>1 DEF ItemsRight, ItemRecord
  <2> QED
    BY <1>3, <2>2 DEF unnamed, HasFile
<1>5. Len(r) \in Nat /\ DOMAIN r = 1 .. Len(r)
  BY <1>3, LenProperties
<1>6. \A k \in DOMAIN r : r[k] \in ToSet(q) /\ HasFile(it, r[k])
  BY <1>4 DEF ToSet
<1>7. DOMAIN s = 1 .. Len(r) /\ \A k \in DOMAIN r : s[k] = LineOf(it[r[k]])
  BY <1>5
<1>8. \A k \in DOMAIN r : /\ s[k] \in Line
                          /\ s[k].Location = it[r[k]].Location
  BY <1>6, <1>7, LineTyped
<1>9. s \in Seq(Line)
  <2>1. s \in [1 .. Len(r) -> Line]
    BY <1>5, <1>8
  <2> QED
    BY <1>5, <2>1
<1> HIDE DEF s
<1>10. ToSet(s) = LinesOf(ToSet(q), it)
  <2>1. ASSUME NEW x \in ToSet(s)
        PROVE  x \in LinesOf(ToSet(q), it)
    <3>1. PICK k \in DOMAIN r : x = s[k]
      BY <1>5, <1>7, <2>1 DEF ToSet
    <3> QED
      BY <1>6, <1>7, <3>1 DEF LinesOf
  <2>2. ASSUME NEW x \in LinesOf(ToSet(q), it)
        PROVE  x \in ToSet(s)
    <3>1. PICK d \in ToSet(r) : x = LineOf(it[d])
      BY <1>4, <2>2 DEF LinesOf
    <3>2. PICK k \in DOMAIN r : d = r[k]
      BY DEF ToSet
    <3> QED
      BY <1>5, <1>7, <3>1, <3>2 DEF ToSet
  <2> QED
    BY <2>1, <2>2
<1>11. ASSUME NEW i \in DOMAIN s, NEW k \in DOMAIN s, i # k
       PROVE  s[i].Location # s[k].Location
  <2>1. i \in DOMAIN r /\ k \in DOMAIN r
    BY <1>5, <1>7
  <2>2. r[i] # r[k]
    BY <1>3, <1>11, <2>1 DEF IsInjective
  <2>3. it[r[i]].Location # it[r[k]].Location
    BY <1>6, <2>1, <2>2 DEF Distinct, HasFile, OnDisk
  <2> QED
    BY <1>8, <2>1, <2>3
<1> QED
  BY <1>1, <1>9, <1>10, <1>11

\* cache_flush (citem): a line is appended for the item c, the only one of
\* the files that the index did not have.
LEMMA LineAppended ==
  ASSUME NEW U, NEW it, ItemsRight(U, it), Distinct(U, it),
         NEW fl, NEW n, FilesRight(U, it, fl, n),
         NEW c \in U, HasFile(it, c),
         NEW q \in Seq(Line), ToSet(q) = LinesOf(U \ {c}, it),
         \A i, k \in DOMAIN q : i # k => q[i].Location # q[k].Location
  PROVE  /\ IndexRight([fid |-> n, lines |-> Append(q, LineOf(it[c]))], fl)
         /\ ToSet(Append(q, LineOf(it[c]))) = LinesOf(U, it)
<1> DEFINE x == LineOf(it[c])
           s == Append(q, x)
<1>1. x \in Line /\ x.Location = it[c].Location
  BY LineTyped
<1>2. Len(q) \in Nat /\ DOMAIN q = 1 .. Len(q)
  BY LenProperties
<1> HIDE DEF x
<1>3. /\ s \in Seq(Line) /\ Len(s) = Len(q) + 1
      /\ \A i \in 1 .. Len(q) : s[i] = q[i]
      /\ s[Len(q) + 1] = x
  BY <1>1, <1>2
<1>4. DOMAIN s = 1 .. Len(q) + 1
  BY <1>3, LenProperties
<1> HIDE DEF s
<1>5. ToSet(s) = ToSet(q) \cup {x}
  <2>1. ASSUME NEW y \in ToSet(s)
        PROVE  y \in ToSet(q) \cup {x}
    <3>1. PICK i \in 1 .. Len(q) + 1 : y = s[i]
      BY <1>4, <2>1 DEF ToSet
    <3>2. CASE i = Len(q) + 1
      BY <1>3, <3>1, <3>2
    <3>3. CASE i # Len(q) + 1
      <4>1. i \in 1 .. Len(q)
        BY <1>2, <3>3
      <4> QED
        BY <1>2, <1>3, <3>1, <4>1 DEF ToSet
    <3> QED
      BY <3>2, <3>3
  <2>2. ASSUME NEW y \in ToSet(q)
        PROVE  y \in ToSet(s)
    <3>1. PICK i \in 1 .. Len(q) : y = q[i]
      BY <1>2, <2>2 DEF ToSet
    <3>2. i \in DOMAIN s
      BY <1>2, <1>4, <3>1
    <3> QED
      BY <1>3, <3>1, <3>2 DEF ToSet
  <2>3. x \in ToSet(s)
    <3>1. Len(q) + 1 \in DOMAIN s
      BY <1>2, <1>4
    <3> QED
      BY <1>3, <3>1 DEF ToSet
  <2> QED
    BY <2>1, <2>2, <2>3
<1>6. LinesOf(U, it) = LinesOf(U \ {c}, it) \cup {x}
  BY DEF LinesOf, x
<1>7. ASSUME NEW i \in DOMAIN q
      PROVE  q[i].Location # x.Location
  <2>1. q[i] \in LinesOf(U \ {c}, it)
    BY DEF ToSet
  <2>2. PICK d \in U \ {c} : HasFile(it, d) /\ q[i] = LineOf(it[d])
    BY <2>1 DEF LinesOf
  <2>3. q[i].Location = it[d].Location
    BY <2>2, LineTyped
  <2> QED
    BY <1>1, <2>2, <2>3 DEF Distinct, HasFile, OnDisk
<1>8. ASSUME NEW i \in DOMAIN s, NEW k \in DOMAIN s, i # k
      PROVE  s[i].Location # s[k].Location
  <2>1. CASE i \in 1 .. Len(q) /\ k \in 1 .. Len(q)
    BY <1>2, <1>3, <1>8, <2>1
  <2>2. CASE i \in 1 .. Len(q) /\ k = Len(q) + 1
    BY <1>2, <1>3, <1>7, <2>2
  <2>3. CASE i = Len(q) + 1 /\ k \in 1 .. Len(q)
    BY <1>2, <1>3, <1>7, <2>3
  <2> QED
    BY <1>2, <1>4, <1>8, <2>1, <2>2, <2>3
<1>9. IndexRight([fid |-> n, lines |-> s], fl)
  <2>1. ToSet(s) = LinesOf(U, it) /\ s \in Seq(Line)
    BY <1>3, <1>5, <1>6
  <2>2. \A i, k \in DOMAIN s : i # k => s[i].Location # s[k].Location
    BY <1>8
  <2> QED
    BY <2>1, <2>2, IndexOfItems
<1> QED
  BY <1>5, <1>6, <1>9 DEF s, x

-----------------------------------------------------------------------------
(***************************************************************************)
(* What the handlers are made of: fields of items change, items are        *)
(* destroyed, an item comes, a reservation becomes a file.                 *)
(***************************************************************************)
Sound(U, ch, it, fl, n, mu, mn, du, dn) ==
  /\ ItemsRight(U, it)
  /\ Distinct(U, it)
  /\ Chained(U, ch, it)
  /\ FilesRight(U, it, fl, n)
  /\ CountsRight(U, it, mu, mn, du, dn)

\* What the index, the files and the sums say of an item stays.
LEMMA Touched ==
  ASSUME NEW U, NEW ch, NEW it, NEW fl, NEW n, NEW mu, NEW mn, NEW du, NEW dn,
         Sound(U, ch, it, fl, n, mu, mn, du, dn),
         NEW new \in [Item -> ItemRecord],
         \A c \in Item \ U : new[c] = it[c],
         \A c \in U : /\ new[c].Location = it[c].Location
                      /\ new[c].mem = it[c].mem
                      /\ new[c].Cached = it[c].Cached
                      /\ new[c].Size = it[c].Size
                      /\ OnDisk(it, c) /\ it[c].Cached = 0 =>
                           ~new[c].Object /\ new[c].Reffs = 1
  PROVE  Sound(U, ch, new, fl, n, mu, mn, du, dn)
<1> USE DEF Sound
<1>1. U \in SUBSET Item /\ it \in [Item -> ItemRecord]
  BY DEF ItemsRight
<1>2. \A c \in U : /\ OnDisk(new, c) <=> OnDisk(it, c)
                   /\ HasFile(new, c) <=> HasFile(it, c)
  BY DEF OnDisk, HasFile
<1>3. ItemsRight(U, new)
  BY <1>2 DEF ItemsRight, OnDisk
<1>4. Distinct(U, new)
  BY <1>2 DEF Distinct
<1>5. Chained(U, ch, new)
  BY DEF Chained
<1>6. FilesRight(U, new, fl, n)
  BY <1>2 DEF FilesRight
<1>7. CountsRight(U, new, mu, mn, du, dn)
  <2>1. InMem(U, new) = InMem(U, it)
    BY DEF InMem
  <2>2. ASSUME NEW S \in SUBSET U
        PROVE  Total(SizesOf(it), S) = Total(SizesOf(new), S)
    <3>1. \A c \in S : /\ SizesOf(it)[c] \in Nat
                       /\ SizesOf(it)[c] = SizesOf(new)[c]
      BY <1>1, SizesNat
    <3>2. IsFiniteSet(S)
      BY <1>1, ItemsFinite
    <3> QED
      BY <3>1, <3>2, TotalSame
  <2>3. InMem(U, it) \in SUBSET U /\ U \ InMem(U, it) \in SUBSET U
    BY DEF InMem
  <2> QED
    BY <2>1, <2>2, <2>3 DEF CountsRight
<1> QED
  BY <1>3, <1>4, <1>5, <1>6, <1>7

Cleared(it, S) == [c \in Item |-> IF c \in S THEN Blank ELSE it[c]]

LEMMA ClearedItems ==
  ASSUME NEW it \in [Item -> ItemRecord], NEW S
  PROVE  /\ Cleared(it, S) \in [Item -> ItemRecord]
         /\ \A c \in Item \ S : Cleared(it, S)[c] = it[c]
         /\ \A c \in Item : c \in S => Cleared(it, S)[c] = Blank
<1>1. Blank \in ItemRecord
  BY DEF Blank, ItemRecord, NEVER
<1> QED
  BY <1>1 DEF Cleared

LEMMA CountsDropped ==
  ASSUME NEW U \in SUBSET Item, NEW it \in [Item -> ItemRecord],
         NEW mu, NEW mn, NEW du, NEW dn,
         CountsRight(U, it, mu, mn, du, dn),
         NEW S \in SUBSET U,
         NEW new, \A c \in U \ S : new[c] = it[c],
         new \in [Item -> ItemRecord]
  PROVE  CountsRight(U \ S, new,
           mu - Total(SizesOf(it), InMem(S, it)),
           mn - Cardinality(InMem(S, it)),
           du - Total(SizesOf(it), S \ InMem(S, it)),
           dn - Cardinality(S \ InMem(S, it)))
<1> DEFINE g == SizesOf(it)
           h == SizesOf(new)
           M == InMem(U, it)
           D == U \ M
           MS == InMem(S, it)
           DS == S \ MS
<1>1. /\ M \in SUBSET Item /\ D \in SUBSET Item
      /\ MS \in SUBSET M /\ DS \in SUBSET D
      /\ InMem(U \ S, new) = M \ MS
      /\ (U \ S) \ InMem(U \ S, new) = D \ DS
      /\ \A c \in M \ MS : c \in U \ S
      /\ \A c \in D \ DS : c \in U \ S
  BY DEF InMem
<1>2. \A c \in Item : g[c] \in Nat
  BY SizesNat
<1>3. \A c \in U \ S : g[c] = h[c]
  BY DEF SizesOf
<1>4. mu = Total(g, M) /\ mn = Cardinality(M) /\ du = Total(g, D) /\ dn = Cardinality(D)
  BY DEF CountsRight
<1> HIDE DEF g, h, M, D, MS, DS
<1>5. ASSUME NEW T \in SUBSET Item, NEW Q \in SUBSET T, \A c \in T \ Q : c \in U \ S
      PROVE  /\ Total(g, T) - Total(g, Q) = Total(h, T \ Q)
             /\ Cardinality(T) - Cardinality(Q) = Cardinality(T \ Q)
  <2>1. IsFiniteSet(T) /\ IsFiniteSet(Q) /\ IsFiniteSet(T \ Q)
    BY ItemsFinite
  <2>2. Total(g, T \ Q) = Total(g, T) - Total(g, Q)
    BY <1>2, <2>1, TotalOfMore
  <2>3. Total(g, T \ Q) = Total(h, T \ Q)
    BY <1>2, <1>3, <1>5, <2>1, TotalSame
  <2>4. T \cap Q = Q
    OBVIOUS
  <2>5. Cardinality(T \ Q) = Cardinality(T) - Cardinality(Q)
    BY <2>1, <2>4, FS_Difference
  <2> QED
    BY <2>2, <2>3, <2>5
<1>6. /\ Total(g, M) - Total(g, MS) = Total(h, M \ MS)
      /\ Cardinality(M) - Cardinality(MS) = Cardinality(M \ MS)
  BY <1>1, <1>5
<1>7. /\ Total(g, D) - Total(g, DS) = Total(h, D \ DS)
      /\ Cardinality(D) - Cardinality(DS) = Cardinality(D \ DS)
  BY <1>1, <1>5
<1>8. CountsRight(U \ S, new, mu - Total(g, MS), mn - Cardinality(MS),
                  du - Total(g, DS), dn - Cardinality(DS))
  BY <1>1, <1>4, <1>6, <1>7 DEF CountsRight, h
<1> QED
  BY <1>8 DEF g, MS, DS

UnlinkedBy(it, S, fl) ==
  [x \in Name |-> IF x \in {it[c].Cached : c \in {d \in S : HasFile(it, d)}}
                  THEN Nil ELSE fl[x]]

LEMMA UnlinkedFiles ==
  ASSUME NEW fl \in [Name -> Loc \cup {Nil}], NEW it, NEW S
  PROVE  /\ UnlinkedBy(it, S, fl) \in [Name -> Loc \cup {Nil}]
         /\ \A x \in Name : UnlinkedBy(it, S, fl)[x] \in {fl[x], Nil}
BY DEF UnlinkedBy

\* destroy_item() for each item of S
LEMMA Destroyed ==
  ASSUME NEW U, NEW ch, NEW it, NEW fl, NEW n, NEW mu, NEW mn, NEW du, NEW dn,
         Sound(U, ch, it, fl, n, mu, mn, du, dn),
         NEW S \in SUBSET U
  PROVE  Sound(U \ S, [l \in Loc |-> MoveOut(ch[l], S)], Cleared(it, S),
               UnlinkedBy(it, S, fl), n,
               mu - Total(SizesOf(it), InMem(S, it)),
               mn - Cardinality(InMem(S, it)),
               du - Total(SizesOf(it), S \ InMem(S, it)),
               dn - Cardinality(S \ InMem(S, it)))
<1> DEFINE V == U \ S
           new == Cleared(it, S)
           ch2 == [l \in Loc |-> MoveOut(ch[l], S)]
           fl2 == UnlinkedBy(it, S, fl)
<1>1. U \in SUBSET Item /\ it \in [Item -> ItemRecord]
  BY DEF Sound, ItemsRight
<1>2. /\ new \in [Item -> ItemRecord]
      /\ \A c \in V : new[c] = it[c]
      /\ \A c \in Item \ V : new[c] = Blank
  <2>1. \A c \in Item \ U : it[c] = Blank
    BY DEF Sound, ItemsRight
  <2> QED
    BY <1>1, <2>1, ClearedItems
<1> HIDE DEF new
<1>3. \A c \in V : /\ OnDisk(new, c) <=> OnDisk(it, c)
                   /\ HasFile(new, c) <=> HasFile(it, c)
  BY <1>2 DEF OnDisk, HasFile
<1>4. ItemsRight(V, new)
  BY <1>1, <1>2, <1>3 DEF Sound, ItemsRight
<1>5. Distinct(V, new)
  BY <1>2, <1>3 DEF Sound, Distinct
<1>6. Chained(V, ch2, new)
  <2>1. \A l \in Loc : /\ ch[l] \in Seq(Item)
                       /\ ToSet(ch[l]) = {c \in U : it[c].Location = l}
    BY DEF Sound, Chained
  <2>2. \A l \in Loc : /\ MoveOut(ch[l], S) \in Seq(Item)
                       /\ ToSet(MoveOut(ch[l], S)) = ToSet(ch[l]) \ S
    BY <2>1, MoveOutElements
  <2>3. \A l \in Loc : {c \in V : new[c].Location = l} = {c \in U : it[c].Location = l} \ S
    BY <1>2
  <2> QED
    BY <2>1, <2>2, <2>3 DEF Chained
<1>7. FilesRight(V, new, fl2, n)
  <2>1. FilesRight(U, it, fl, n)
    BY DEF Sound
  <2>2. fl2 \in [Name -> Loc \cup {Nil}] /\ \A x \in Name : fl2[x] \in {fl[x], Nil}
    BY <2>1, UnlinkedFiles DEF FilesRight
  <2> HIDE DEF fl2
  <2>3. ASSUME NEW c \in V, HasFile(new, c)
        PROVE  /\ new[c].Cached < n
               /\ fl2[new[c].Cached] \in {new[c].Location, Nil}
    <3>1. new[c] = it[c] /\ HasFile(it, c)
      BY <1>2, <1>3, <2>3
    <3>2. it[c].Cached < n /\ fl[it[c].Cached] \in {it[c].Location, Nil}
      BY <2>1, <3>1 DEF FilesRight
    <3>3. it[c].Cached \in Name
      BY <1>1, <3>1 DEF HasFile, ItemRecord
    <3> QED
      BY <2>2, <3>1, <3>2, <3>3
  <2> QED
    BY <2>1, <2>2, <2>3 DEF FilesRight
<1>8. CountsRight(V, new,
               mu - Total(SizesOf(it), InMem(S, it)),
               mn - Cardinality(InMem(S, it)),
               du - Total(SizesOf(it), S \ InMem(S, it)),
               dn - Cardinality(S \ InMem(S, it)))
  <2>1. CountsRight(U, it, mu, mn, du, dn)
    BY DEF Sound
  <2> QED
    BY <1>1, <1>2, <2>1, CountsDropped
<1> QED
  BY <1>4, <1>5, <1>6, <1>7, <1>8 DEF Sound, new

LEMMA PointedCleared ==
  ASSUME NEW U \in SUBSET Item, NEW it \in [Item -> ItemRecord], NEW h, NEW ld,
         Pointed(U, it, h, ld), NEW S \in SUBSET U
  PROVE  Pointed(U \ S, Cleared(it, S), h, ld)
<1>1. \A c \in U \ S : Cleared(it, S)[c] = it[c]
  BY ClearedItems
<1> QED
  BY <1>1 DEF Pointed, OnDisk, HasFile

LEMMA IndexUnlinked ==
  ASSUME NEW ix, NEW fl \in [Name -> Loc \cup {Nil}], IndexRight(ix, fl),
         NEW it, NEW S
  PROVE  IndexRight(ix, UnlinkedBy(it, S, fl))
<1> DEFINE fl2 == UnlinkedBy(it, S, fl)
<1>1. \A x \in Name : fl2[x] \in {fl[x], Nil}
  BY UnlinkedFiles
<1> HIDE DEF fl2
<1>2. \A k \in DOMAIN ix.lines : ix.lines[k].Cached \in Name
  <2>1. ix.lines \in Seq(Line)
    BY DEF IndexRight
  <2>2. \A k \in DOMAIN ix.lines : ix.lines[k] \in Line
    <3>1. DOMAIN ix.lines = 1 .. Len(ix.lines)
      BY <2>1, LenProperties
    <3> QED
      BY <2>1, <3>1, ElementOfSeq
  <2> QED
    BY <2>2 DEF Line
<1>3. IndexRight(ix, fl2)
  BY <1>1, <1>2 DEF IndexRight
<1> QED
  BY <1>3 DEF fl2

LEMMA LinesCleared ==
  ASSUME NEW U \in SUBSET Item, NEW it \in [Item -> ItemRecord],
         NEW S \in SUBSET U, \A c \in S : ~HasFile(it, c)
  PROVE  LinesOf(U \ S, Cleared(it, S)) = LinesOf(U, it)
<1>1. \A c \in U \ S : Cleared(it, S)[c] = it[c]
  BY ClearedItems
<1>2. {d \in U \ S : HasFile(Cleared(it, S), d)} = {d \in U : HasFile(it, d)}
  BY <1>1 DEF HasFile
<1>3. \A d \in U : HasFile(it, d) => Cleared(it, S)[d] = it[d]
  BY <1>1
<1> QED
  BY <1>2, <1>3 DEF LinesOf

LEMMA LinesSame ==
  ASSUME NEW U, NEW it, NEW new,
         \A c \in U : new[c].mem = it[c].mem /\ new[c].Cached = it[c].Cached,
         \A c \in U : HasFile(it, c) => LineOf(new[c]) = LineOf(it[c])
  PROVE  LinesOf(U, new) = LinesOf(U, it)
<1>1. {d \in U : HasFile(new, d)} = {d \in U : HasFile(it, d)}
  BY DEF HasFile
<1> QED
  BY <1>1 DEF LinesOf

\* Less is in memory, and nothing has come to be unused.
LEMMA BoundedCleared ==
  ASSUME NEW U \in SUBSET Item, NEW it \in [Item -> ItemRecord], NEW mu,
         mu = Total(SizesOf(it), InMem(U, it)),
         Bounded(U, it, mu), NEW S \in SUBSET U
  PROVE  Bounded(U \ S, Cleared(it, S), mu - Total(SizesOf(it), InMem(S, it)))
<1> DEFINE t == Total(SizesOf(it), InMem(S, it))
<1>1. mu \in Nat /\ t \in Nat
  <2>1. InMem(U, it) \in SUBSET Item /\ InMem(S, it) \in SUBSET Item
    BY DEF InMem
  <2>2. IsFiniteSet(InMem(U, it)) /\ IsFiniteSet(InMem(S, it))
    BY <2>1, ItemsFinite
  <2> QED
    BY <2>1, <2>2, SizesNat, TotalStep
<1>2. MemMax \in Nat
  BY CacheAssumption
<1>3. mu - t > MemMax => mu > MemMax
  BY <1>1, <1>2
<1>4. \A c \in U \ S : Cleared(it, S)[c] = it[c]
  BY ClearedItems
<1>5. {c \in InMem(U \ S, Cleared(it, S)) : Cleared(it, S)[c].Reffs = 0}
      \in SUBSET {c \in InMem(U, it) : it[c].Reffs = 0}
  BY <1>4 DEF InMem
<1> QED
  BY <1>3, <1>5 DEF Bounded

LEMMA LinesAdded ==
  ASSUME NEW U, NEW it, NEW new, NEW c, ~HasFile(new, c),
         \A d \in U : new[d] = it[d]
  PROVE  LinesOf(U \cup {c}, new) = LinesOf(U, it)
<1>1. {d \in U \cup {c} : HasFile(new, d)} = {d \in U : HasFile(it, d)}
  BY DEF HasFile
<1> QED
  BY <1>1 DEF LinesOf

Ahead(ch, c, l) == [m \in Loc |-> IF m = l THEN <<c>> \o ch[m] ELSE ch[m]]

\* new_item(): an object in memory, or a reservation of a location that has
\* no file
LEMMA Added ==
  ASSUME NEW U, NEW ch, NEW it, NEW fl, NEW n, NEW mu, NEW mn, NEW du, NEW dn,
         Sound(U, ch, it, fl, n, mu, mn, du, dn),
         NEW c \in Item, c \notin U,
         NEW new \in [Item -> ItemRecord],
         \A d \in Item : d # c => new[d] = it[d],
         new[c].Location \in Loc, new[c].Cached = 0,
         ~new[c].mem =>
           /\ ~new[c].Object /\ new[c].Reffs = 1 /\ new[c].Size = 0
           /\ \A d \in U : OnDisk(it, d) => it[d].Location # new[c].Location,
         NEW ch2, ch2 = Ahead(ch, c, new[c].Location),
         NEW mu2, NEW mn2, NEW dn2,
         new[c].mem => mu2 = mu + new[c].Size /\ mn2 = mn + 1 /\ dn2 = dn,
         ~new[c].mem => mu2 = mu /\ mn2 = mn /\ dn2 = dn + 1
  PROVE  Sound(U \cup {c}, ch2, new, fl, n, mu2, mn2, du, dn2)
<1> DEFINE V == U \cup {c}
           r == new[c]
           l == new[c].Location
<1>1. U \in SUBSET Item /\ it \in [Item -> ItemRecord] /\ V \in SUBSET Item
  BY DEF Sound, ItemsRight
<1>2. \A d \in U : d # c /\ new[d] = it[d]
  BY <1>1
<1>3. \A d \in U : /\ OnDisk(new, d) <=> OnDisk(it, d)
                   /\ HasFile(new, d) <=> HasFile(it, d)
  BY <1>2 DEF OnDisk, HasFile
<1>4. ~HasFile(new, c)
  BY DEF HasFile
<1>5. ItemsRight(V, new)
  <2>1. ItemsRight(U, it)
    BY DEF Sound
  <2>2. \A d \in Item \ V : new[d] = Blank
    BY <2>1 DEF ItemsRight
  <2>3. \A d \in U :
          /\ new[d].Location \in Loc
          /\ new[d].mem => new[d].Cached = 0
          /\ OnDisk(new, d) /\ new[d].Cached = 0 =>
               ~new[d].Object /\ new[d].Reffs = 1 /\ new[d].Size = 0
    BY <1>2, <1>3, <2>1 DEF ItemsRight
  <2>4. /\ new[c].Location \in Loc
        /\ new[c].mem => new[c].Cached = 0
        /\ OnDisk(new, c) /\ new[c].Cached = 0 =>
             ~new[c].Object /\ new[c].Reffs = 1 /\ new[c].Size = 0
    BY DEF OnDisk
  <2> QED
    BY <1>1, <2>2, <2>3, <2>4 DEF ItemsRight
<1>6. Distinct(V, new)
  <2>1. Distinct(U, it)
    BY DEF Sound
  <2>2. ASSUME NEW d \in U, OnDisk(new, d), OnDisk(new, c)
        PROVE  it[d].Location # l
    BY <1>3, <2>2 DEF OnDisk
  <2> SUFFICES ASSUME NEW a \in V, NEW b \in V, a # b, OnDisk(new, a), OnDisk(new, b)
               PROVE  /\ new[a].Location # new[b].Location
                      /\ new[a].Cached # 0 => new[a].Cached # new[b].Cached
    BY DEF Distinct
  <2>3. CASE a \in U /\ b \in U
    BY <1>2, <1>3, <2>1, <2>3 DEF Distinct
  <2>4. CASE a = c
    BY <1>2, <2>2, <2>4
  <2>5. CASE b = c
    BY <1>2, <2>2, <2>5
  <2> QED
    BY <2>3, <2>4, <2>5
<1>7. Chained(V, ch2, new)
  <2>1. \A m \in Loc : /\ ch[m] \in Seq(Item)
                       /\ ToSet(ch[m]) = {d \in U : it[d].Location = m}
    BY DEF Sound, Chained
  <2>2. <<c>> \o ch[l] \in Seq(Item) /\ ToSet(<<c>> \o ch[l]) = {c} \cup ToSet(ch[l])
    BY <2>1, Prepended
  <2>0. /\ ch2 = [m \in Loc |-> ch2[m]]
        /\ \A m \in Loc : ch2[m] = IF m = l THEN <<c>> \o ch[m] ELSE ch[m]
    BY DEF Ahead
  <2>3. ASSUME NEW m \in Loc
        PROVE  /\ ch2[m] \in Seq(Item)
               /\ ToSet(ch2[m]) = {d \in V : new[d].Location = m}
    <3>1. CASE m = l
      <4>1. {d \in V : new[d].Location = l} = {c} \cup {d \in U : it[d].Location = l}
        BY <1>2
      <4> QED
        BY <2>0, <2>1, <2>2, <3>1, <4>1
    <3>2. CASE m # l
      <4>1. {d \in V : new[d].Location = m} = {d \in U : it[d].Location = m}
        BY <1>2, <3>2
      <4> QED
        BY <2>0, <2>1, <3>2, <4>1
    <3> QED
      BY <3>1, <3>2
  <2>4. ch2 \in [Loc -> Seq(Item)]
    BY <2>0, <2>3
  <2> QED
    BY <2>3, <2>4 DEF Chained
<1>8. FilesRight(V, new, fl, n)
  BY <1>2, <1>3, <1>4 DEF Sound, FilesRight
<1>9. CountsRight(V, new, mu2, mn2, du, dn2)
  <2> DEFINE g == SizesOf(it)
             h == SizesOf(new)
             M == InMem(U, it)
             D == U \ M
  <2>1. M \in SUBSET U /\ D \in SUBSET U
    BY DEF InMem
  <2>2. mu = Total(g, M) /\ mn = Cardinality(M) /\ du = Total(g, D) /\ dn = Cardinality(D)
    BY DEF Sound, CountsRight
  <2>3. (\A d \in Item : h[d] \in Nat) /\ h[c] = r.Size
    BY SizesNat DEF SizesOf
  <2>4. \A d \in U : g[d] = h[d]
    BY <1>1, <1>2 DEF SizesOf
  <2>5. \A d \in Item : g[d] \in Nat
    BY <1>1, SizesNat
  <2>6. InMem(V, new) = IF r.mem THEN M \cup {c} ELSE M
    BY <1>2 DEF InMem
  <2>7. V \ InMem(V, new) = IF r.mem THEN D ELSE D \cup {c}
    BY <2>1, <2>6
  <2> HIDE DEF g, h, M, D
  <2>8. ASSUME NEW T \in SUBSET U
        PROVE  /\ Total(h, T) = Total(g, T)
               /\ Total(h, T \cup {c}) = Total(g, T) + r.Size
               /\ Cardinality(T \cup {c}) = Cardinality(T) + 1
    <3>1. IsFiniteSet(T) /\ IsFiniteSet(T \cup {c})
      BY <1>1, ItemsFinite
    <3>2. Total(h, T) = Total(g, T)
      BY <1>1, <2>4, <2>5, <3>1, TotalSame
    <3>3. c \notin T /\ (T \cup {c}) \ {c} = T /\ c \in T \cup {c}
      OBVIOUS
    <3>4. \A x \in T \cup {c} : h[x] \in Nat
      BY <1>1, <2>3
    <3> DEFINE W == T \cup {c}
    <3>5. IsFiniteSet(W) /\ c \in W /\ W \ {c} = T /\ \A x \in W : h[x] \in Nat
      BY <3>1, <3>3, <3>4
    <3>7. Cardinality(W) = Cardinality(T) + 1
      BY <3>1, <3>3, FS_AddElement
    <3> HIDE DEF W
    <3>6. Total(h, T) \in Nat /\ r.Size \in Nat
      <4>1. \A x \in T : h[x] \in Nat
        BY <3>4
      <4>2. Total(h, T) \in Nat
        BY ONLY <3>1, <4>1, TotalStep
      <4> QED
        BY <2>3, <4>2
    <3>8. Total(h, W) = h[c] + Total(h, W \ {c})
      BY ONLY <3>5, TotalStep
    <3>9. Total(h, W) = h[c] + Total(h, T)
      BY <3>5, <3>8
    <3>10. Total(h, W) = Total(g, T) + r.Size
      BY <2>3, <3>2, <3>6, <3>9
    <3> QED
      BY <3>2, <3>7, <3>10 DEF W
  <2>9. CASE r.mem
    <3>1. InMem(V, new) = M \cup {c} /\ V \ InMem(V, new) = D
      BY <2>6, <2>7, <2>9
    <3>2. mu2 = mu + r.Size /\ mn2 = mn + 1 /\ dn2 = dn
      BY <2>9
    <3> QED
      BY <2>1, <2>2, <2>8, <3>1, <3>2 DEF CountsRight, h
  <2>10. CASE ~r.mem
    <3>1. r.Size = 0
      BY <2>10
    <3>2. Total(h, D \cup {c}) = du
      <4>1. IsFiniteSet(D) /\ \A x \in D : g[x] \in Nat
        BY <1>1, <2>1, <2>5, ItemsFinite
      <4>2. Total(g, D) \in Nat
        BY ONLY <4>1, TotalStep
      <4>3. Total(h, D \cup {c}) = Total(g, D) + r.Size
        BY <2>1, <2>8
      <4>4. du = Total(g, D)
        BY <2>2
      <4> QED
        BY <3>1, <4>2, <4>3, <4>4
    <3> QED
      BY <2>1, <2>2, <2>6, <2>7, <2>8, <2>10, <3>2 DEF CountsRight, h
  <2> QED
    BY <2>9, <2>10
<1> QED
  BY <1>5, <1>6, <1>7, <1>8, <1>9 DEF Sound

\* cache_assign(): the reservation c becomes the file with the number n.
LEMMA Filed ==
  ASSUME NEW U, NEW ch, NEW it, NEW fl, NEW n \in Name,
         NEW mu, NEW mn, NEW du, NEW dn,
         Sound(U, ch, it, fl, n, mu, mn, du, dn),
         NEW c \in U, OnDisk(it, c), it[c].Cached = 0,
         NEW new \in [Item -> ItemRecord],
         \A d \in Item : d # c => new[d] = it[d],
         new[c].Location = it[c].Location, ~new[c].mem, new[c].Cached = n,
         NEW fl2, fl2 = [fl EXCEPT ![n] = it[c].Location]
  PROVE  Sound(U, ch, new, fl2, n + 1, mu, mn, du + new[c].Size, dn)
<1>1. U \in SUBSET Item /\ it \in [Item -> ItemRecord] /\ c \in Item
  BY DEF Sound, ItemsRight
<1>2. \A d \in U \ {c} : new[d] = it[d]
  BY <1>1
<1>0. n \in Nat \ {0} /\ n <= MaxFid /\ MaxFid \in Nat
  BY CacheAssumption DEF Name
<1>3. /\ \A d \in U \ {c} : /\ OnDisk(new, d) <=> OnDisk(it, d)
                            /\ HasFile(new, d) <=> HasFile(it, d)
      /\ HasFile(new, c) /\ OnDisk(new, c) /\ ~HasFile(it, c)
  BY <1>0, <1>2 DEF OnDisk, HasFile
<1>4. ItemsRight(U, new)
  <2>1. ItemsRight(U, it)
    BY DEF Sound
  <2>2. \A d \in Item \ U : new[d] = Blank
    BY <2>1 DEF ItemsRight
  <2>3. \A d \in U \ {c} :
          /\ new[d].Location \in Loc
          /\ new[d].mem => new[d].Cached = 0
          /\ OnDisk(new, d) /\ new[d].Cached = 0 =>
               ~new[d].Object /\ new[d].Reffs = 1 /\ new[d].Size = 0
    BY <1>2, <1>3, <2>1 DEF ItemsRight
  <2>4. /\ new[c].Location \in Loc
        /\ new[c].mem => new[c].Cached = 0
        /\ new[c].Cached # 0
    BY <1>0, <2>1 DEF ItemsRight
  <2> QED
    BY <1>1, <2>2, <2>3, <2>4 DEF ItemsRight
<1>f. FilesRight(U, it, fl, n)
  BY DEF Sound
<1>5. Distinct(U, new)
  <2>1. Distinct(U, it)
    BY DEF Sound
  <2>2. ASSUME NEW d \in U \ {c}, OnDisk(new, d)
        PROVE  /\ new[d].Location # new[c].Location
               /\ new[d].Cached # n
    <3>1. OnDisk(it, d) /\ new[d] = it[d] /\ d # c
      BY <1>2, <1>3, <2>2
    <3>2. it[d].Location # it[c].Location
      BY <2>1, <3>1 DEF Distinct
    <3>3. it[d].Cached # 0 => it[d].Cached < n /\ it[d].Cached \in Name
      BY <1>1, <1>f, <3>1 DEF FilesRight, HasFile, OnDisk, ItemRecord
    <3> QED
      BY <1>0, <3>1, <3>2, <3>3 DEF Name
  <2> SUFFICES ASSUME NEW a \in U, NEW b \in U, a # b, OnDisk(new, a), OnDisk(new, b)
               PROVE  /\ new[a].Location # new[b].Location
                      /\ new[a].Cached # 0 => new[a].Cached # new[b].Cached
    BY DEF Distinct
  <2>3. CASE a # c /\ b # c
    BY <1>2, <1>3, <2>1, <2>3 DEF Distinct
  <2>4. CASE a = c
    BY <2>2, <2>4
  <2>5. CASE b = c
    BY <2>2, <2>5
  <2> QED
    BY <2>3, <2>4, <2>5
<1>6. Chained(U, ch, new)
  <2>1. \A d \in U : new[d].Location = it[d].Location
    BY <1>2
  <2> QED
    BY <2>1 DEF Sound, Chained
<1>7. FilesRight(U, new, fl2, n + 1)
  <2>1. fl2 \in [Name -> Loc \cup {Nil}]
    <3>1. fl \in [Name -> Loc \cup {Nil}] /\ it[c].Location \in Loc
      BY <1>f DEF FilesRight, Sound, ItemsRight
    <3> QED
      BY <3>1
  <2>2. n + 1 \in 1 .. MaxFid + 1
    BY <1>0
  <2>3. ASSUME NEW d \in U, HasFile(new, d)
        PROVE  /\ new[d].Cached < n + 1
               /\ fl2[new[d].Cached] \in {new[d].Location, Nil}
    <3>1. CASE d = c
      BY <1>0, <1>f, <3>1 DEF FilesRight
    <3>2. CASE d # c
      <4>1. HasFile(it, d) /\ new[d] = it[d]
        BY <1>2, <1>3, <2>3, <3>2
      <4>2. /\ it[d].Cached \in Name /\ it[d].Cached < n
            /\ fl[it[d].Cached] \in {it[d].Location, Nil}
        BY <1>1, <1>f, <4>1 DEF FilesRight, HasFile, ItemRecord
      <4>3. it[d].Cached # n /\ it[d].Cached < n + 1
        BY <1>0, <4>2 DEF Name
      <4>4. fl2[it[d].Cached] = fl[it[d].Cached]
        BY <1>f, <4>2, <4>3 DEF FilesRight
      <4> QED
        BY <4>1, <4>2, <4>3, <4>4
    <3> QED
      BY <3>1, <3>2
  <2> QED
    BY <2>1, <2>2, <2>3 DEF FilesRight
<1>8. CountsRight(U, new, mu, mn, du + new[c].Size, dn)
  <2> DEFINE g == SizesOf(it)
             h == SizesOf(new)
             M == InMem(U, it)
             D == U \ M
  <2>1. M \in SUBSET U /\ D \in SUBSET U /\ c \in D /\ c \notin M
    BY DEF InMem, OnDisk
  <2>2. mu = Total(g, M) /\ mn = Cardinality(M) /\ du = Total(g, D) /\ dn = Cardinality(D)
    BY DEF Sound, CountsRight
  <2>3. \A d \in Item : h[d] \in Nat /\ g[d] \in Nat
    BY <1>1, SizesNat
  <2>4. /\ \A d \in U \ {c} : g[d] = h[d]
        /\ h[c] = new[c].Size /\ g[c] = 0
    <3>1. it[c].Size = 0
      BY DEF Sound, ItemsRight
    <3> QED
      BY <1>1, <1>2, <3>1 DEF SizesOf
  <2>5. InMem(U, new) = M
    BY <1>2 DEF InMem, OnDisk
  <2> HIDE DEF g, h, M, D
  <2>6. IsFiniteSet(M) /\ IsFiniteSet(D) /\ IsFiniteSet(D \ {c})
    BY <1>1, <2>1, ItemsFinite
  <2>7. Total(h, M) = Total(g, M)
    BY <1>1, <2>1, <2>3, <2>4, <2>6, TotalSame
  <2>8. Total(h, D \ {c}) = Total(g, D \ {c})
    BY <1>1, <2>1, <2>3, <2>4, <2>6, TotalSame
  <2>9. \A x \in D : h[x] \in Nat /\ g[x] \in Nat
    BY <1>1, <2>1, <2>3
  <2>10. Total(h, D) = h[c] + Total(h, D \ {c})
    BY <2>1, <2>6, <2>9, TotalStep
  <2>11. Total(g, D) = g[c] + Total(g, D \ {c})
    BY <2>1, <2>6, <2>9, TotalStep
  <2>12. Total(g, D \ {c}) \in Nat /\ h[c] \in Nat
    BY <1>1, <2>3, <2>6, <2>9, TotalStep
  <2>13. Total(h, D) = du + new[c].Size
    BY <2>2, <2>4, <2>8, <2>10, <2>11, <2>12
  <2> QED
    BY <2>2, <2>5, <2>7, <2>13 DEF CountsRight, h, D
<1> QED
  BY <1>3, <1>4, <1>5, <1>6, <1>7, <1>8 DEF Sound

LEMMA LinesOfOthers ==
  ASSUME NEW U, NEW it, NEW new, NEW c \in U, ~HasFile(it, c),
         \A d \in U \ {c} : new[d] = it[d]
  PROVE  LinesOf(U \ {c}, new) = LinesOf(U, it)
<1>1. {d \in U \ {c} : HasFile(new, d)} = {d \in U : HasFile(it, d)}
  BY DEF HasFile
<1> QED
  BY <1>1 DEF LinesOf


-----------------------------------------------------------------------------
(***************************************************************************)
(* What the operators of the cache return in a state of the invariant.     *)
(***************************************************************************)
LEMMA Facts ==
  ASSUME IInv
  PROVE  /\ Sound(Items, chain, item, files, fid, mem_use, mem_num, dsk_use, dsk_num)
         /\ Items \in SUBSET Item /\ IsFiniteSet(Items)
         /\ item \in [Item -> ItemRecord]
         /\ chain \in [Loc -> Seq(Item)]
         /\ \A l \in Loc : ToSet(chain[l]) = {c \in Items : item[c].Location = l}
         /\ \A c \in Item \ Items : item[c] = Blank
         /\ \A c \in Items : item[c].Location \in Loc
         /\ fid \in 1 .. MaxFid + 1
         /\ files \in [Name -> Loc \cup {Nil}]
         /\ {mem_use, mem_num, dsk_use, dsk_num} \in SUBSET Nat
<1>1. Items \in SUBSET Item /\ item \in [Item -> ItemRecord]
  BY DEF IInv, ItemsRight
<1>2. \A S \in SUBSET Item : Total(SizesOf(item), S) \in Nat /\ Cardinality(S) \in Nat
  <2> SUFFICES ASSUME NEW S \in SUBSET Item
               PROVE  Total(SizesOf(item), S) \in Nat /\ Cardinality(S) \in Nat
    OBVIOUS
  <2>1. IsFiniteSet(S)
    BY ItemsFinite
  <2>2. \A c \in S : SizesOf(item)[c] \in Nat
    BY <1>1, SizesNat
  <2> QED
    BY <2>1, <2>2, TotalStep, FS_CardinalityType
<1>3. InMem(Items, item) \in SUBSET Item /\ Items \ InMem(Items, item) \in SUBSET Item
  BY <1>1 DEF InMem
<1>4. {mem_use, mem_num, dsk_use, dsk_num} \in SUBSET Nat
  BY <1>2, <1>3 DEF IInv, CountsRight
<1>5. Sound(Items, chain, item, files, fid, mem_use, mem_num, dsk_use, dsk_num)
  BY DEF IInv, Sound
<1>6. IsFiniteSet(Items)
  BY <1>1, ItemsFinite
<1>7. /\ chain \in [Loc -> Seq(Item)]
      /\ \A l \in Loc : ToSet(chain[l]) = {c \in Items : item[c].Location = l}
  BY DEF IInv, Chained
<1>8. /\ \A c \in Item \ Items : item[c] = Blank
      /\ \A c \in Items : item[c].Location \in Loc
  BY DEF IInv, ItemsRight
<1>9. fid \in 1 .. MaxFid + 1 /\ files \in [Name -> Loc \cup {Nil}]
  BY DEF IInv, FilesRight
<1> QED
  BY <1>1, <1>4, <1>5, <1>6, <1>7, <1>8, <1>9

\* The items of a location that are on disk or shall be: there is one at most.
DiskOf(U, it, l) == {c \in U : it[c].Location = l /\ OnDisk(it, c)}

LEMMA DiskItemIs ==
  ASSUME IInv, NEW l \in Loc
  PROVE  /\ DiskOf(Items, item, l) = {} => DiskItem(l) = Nil
         /\ DiskOf(Items, item, l) # {} =>
              /\ DiskItem(l) \in DiskOf(Items, item, l)
              /\ DiskItem(l) # Nil
              /\ DiskItem(l) \in Item /\ DiskItem(l) \in Items
<1> DEFINE q == chain[l]
           onDisk == {i \in DOMAIN q : ~item[q[i]].mem}
<1>1. q \in Seq(Item) /\ ToSet(q) = {c \in Items : item[c].Location = l}
  BY Facts
<1>2. DOMAIN q = 1 .. Len(q) /\ Len(q) \in Nat
  BY <1>1, LenProperties
<1>3. DiskItem(l) = IF onDisk = {} THEN Nil ELSE q[Min(onDisk)]
  BY DEF DiskItem
<1> HIDE DEF q
<1>4. \A i \in onDisk : q[i] \in DiskOf(Items, item, l)
  BY <1>1 DEF ToSet, DiskOf, OnDisk
<1>5. \A c \in DiskOf(Items, item, l) : \E i \in DOMAIN q : q[i] = c /\ ~item[q[i]].mem
  <2> SUFFICES ASSUME NEW c \in DiskOf(Items, item, l)
               PROVE  \E i \in DOMAIN q : q[i] = c /\ ~item[q[i]].mem
    OBVIOUS
  <2>1. c \in ToSet(q) /\ ~item[c].mem
    BY <1>1 DEF DiskOf, OnDisk
  <2> QED
    BY <2>1 DEF ToSet
<1>6. CASE onDisk = {}
  BY <1>3, <1>5, <1>6
<1>7. CASE onDisk # {}
  <2>1. onDisk \in SUBSET Nat
    BY <1>2
  <2>2. Min(onDisk) \in onDisk
    BY <1>7, <2>1, MinOfNats
  <2>3. DiskItem(l) \in DiskOf(Items, item, l)
    BY <1>3, <1>4, <1>7, <2>2
  <2>4. DiskItem(l) \in Items /\ DiskItem(l) \in Item
    BY <2>3, Facts DEF DiskOf
  <2>5. DiskItem(l) # Nil
    BY <2>4, CacheAssumption
  <2> QED
    BY <2>3, <2>4, <2>5
<1> QED
  BY <1>6, <1>7

\* A location that is reserved has an item that waits for its file.
LEMMA ReservedItem ==
  ASSUME IInv, NEW l \in Loc, Reserved(l)
  PROVE  /\ DiskItem(l) \in Items /\ DiskItem(l) \in Item
         /\ item[DiskItem(l)].Location = l
         /\ OnDisk(item, DiskItem(l)) /\ item[DiskItem(l)].Cached = 0
         /\ item[DiskItem(l)].Reffs = 1
         /\ ~HasFile(item, DiskItem(l))
<1>1. /\ DiskItem(l) \in DiskOf(Items, item, l)
      /\ DiskItem(l) \in Items /\ DiskItem(l) \in Item
  BY DiskItemIs DEF Reserved
<1>2. OnDisk(item, DiskItem(l)) /\ item[DiskItem(l)].Cached = 0
  BY <1>1 DEF Reserved, Named, DiskOf, OnDisk
<1> QED
  BY <1>1, <1>2 DEF DiskOf, HasFile, IInv, ItemsRight

LEMMA LocalIs ==
  ASSUME IInv, NEW l \in Loc, LocalOf(l) # Nil
  PROVE  LocalOf(l) \in Items /\ HasFile(item, LocalOf(l))
<1> DEFINE q == chain[l]
           named == {i \in DOMAIN q : item[q[i]].Cached # 0}
<1>1. q \in Seq(Item) /\ ToSet(q) = {c \in Items : item[c].Location = l}
  BY Facts
<1>2. DOMAIN q = 1 .. Len(q) /\ Len(q) \in Nat
  BY <1>1, LenProperties
<1>3. LocalOf(l) = IF named = {} THEN Nil ELSE q[Min(named)]
  BY DEF LocalOf
<1> HIDE DEF q
<1>4. named # {} /\ named \in SUBSET Nat
  BY <1>2, <1>3
<1>5. Min(named) \in named
  BY <1>4, MinOfNats
<1>6. LocalOf(l) \in Items /\ item[LocalOf(l)].Cached # 0
  BY <1>1, <1>3, <1>4, <1>5 DEF ToSet
<1> QED
  BY <1>6 DEF HasFile, IInv, ItemsRight

LEMMA FoundIs ==
  ASSUME IInv, NEW l \in Loc, NEW ident, NEW any, Found(l, ident, any) # 0
  PROVE  /\ chain[l][Found(l, ident, any)] \in ToSet(chain[l])
         /\ chain[l][Found(l, ident, any)] \in Items
         /\ item[chain[l][Found(l, ident, any)]].Location = l
<1> DEFINE q == chain[l]
           fits == {i \in DOMAIN q : IF ident = 0 THEN item[q[i]].Cached # 0
                                                  ELSE item[q[i]].Ident = ident}
           rest == {i \in DOMAIN q : any /\ item[q[i]].Cached = 0}
<1>1. q \in Seq(Item) /\ ToSet(q) = {c \in Items : item[c].Location = l}
  BY Facts
<1>2. DOMAIN q = 1 .. Len(q) /\ Len(q) \in Nat
  BY <1>1, LenProperties
<1>3. Found(l, ident, any) = CASE fits # {} -> Min(fits)
                               [] fits = {} /\ rest # {} -> Max(rest)
                               [] OTHER -> 0
  BY DEF Found
<1> HIDE DEF q
<1>4. /\ fits \in SUBSET DOMAIN q /\ rest \in SUBSET DOMAIN q
      /\ fits \in SUBSET Nat /\ rest \in SUBSET (0 .. Len(q))
  BY <1>2
<1> HIDE DEF fits, rest
<1>5. Found(l, ident, any) \in DOMAIN q
  <2>1. CASE fits # {}
    <3>1. Found(l, ident, any) = Min(fits)
      BY <1>3, <2>1
    <3> QED
      BY <1>4, <2>1, <3>1, MinOfNats
  <2>2. CASE fits = {} /\ rest # {}
    <3>1. Found(l, ident, any) = Max(rest)
      BY <1>3, <2>2
    <3> QED
      BY <1>2, <1>4, <2>2, <3>1, MaxOfNats
  <2> QED
    BY <1>3, <2>1, <2>2
<1>6. q[Found(l, ident, any)] \in ToSet(q)
  BY <1>5 DEF ToSet
<1> QED
  BY <1>1, <1>6 DEF q

LEMMA ThrowIs ==
  ASSUME NEW may, NEW need
  PROVE  Throw(may, need) \in SUBSET (may \cap Items)
<1>1. \A i \in DOMAIN lru : lru[i] \in Items
  BY DEF Items, ToSet
<1> QED
  BY <1>1 DEF Throw

\* If one of the items that may go stays, there is room for what is needed.
LEMMA ThrowEnough ==
  ASSUME IInv, NEW may \in SUBSET Items, NEW need \in Int,
         NEW d \in may, d \notin Throw(may, need)
  PROVE  need <= Total(SizesOf(item), Throw(may, need))
<1> DEFINE g == SizesOf(item)
           at == {i \in DOMAIN lru : lru[i] \in may}
           behind(i) == {lru[k] : k \in {m \in at : m > i}}
           less(i) == Bytes(behind(i)) < need
           gone == Throw(may, need)
           over == {i \in at : ~less(i)}
<1>1. /\ Items \in SUBSET Item /\ item \in [Item -> ItemRecord]
      /\ lru \in Seq(Item)
  BY Facts DEF IInv
<1>2. \A S \in SUBSET may : /\ IsFiniteSet(S) /\ Total(g, S) \in Nat
                            /\ \A x \in S : g[x] \in Nat
  <2> SUFFICES ASSUME NEW S \in SUBSET may
               PROVE  /\ IsFiniteSet(S) /\ Total(g, S) \in Nat
                      /\ \A x \in S : g[x] \in Nat
    OBVIOUS
  <2>1. S \in SUBSET Item
    BY <1>1
  <2>2. IsFiniteSet(S) /\ \A x \in S : g[x] \in Nat
    BY <1>1, <2>1, ItemsFinite, SizesNat
  <2> QED
    BY <2>2, TotalStep
<1>3. CASE need <= 0
  <2>1. gone \in SUBSET may
    BY ThrowIs
  <2>2. Total(g, gone) \in Nat
    BY <1>2, <2>1
  <2> QED
    BY <1>3, <2>2
<1>4. CASE ~(need <= 0)
  <2>1. gone = {lru[i] : i \in {m \in at : less(m)}}
    BY <1>4 DEF Throw
  <2>2. Len(lru) \in Nat /\ DOMAIN lru = 1 .. Len(lru)
    BY <1>1, LenProperties
  <2>3. over # {} /\ over \in SUBSET (0 .. Len(lru))
    <3>1. PICK i \in DOMAIN lru : lru[i] = d
      BY DEF Items, ToSet
    <3>2. i \in at
      BY <3>1
    <3> HIDE DEF less, at
    <3>3. ~less(i)
      BY <2>1, <3>1, <3>2
    <3>4. at \in SUBSET (0 .. Len(lru))
      BY <2>2 DEF at
    <3> QED
      BY <3>2, <3>3, <3>4
  <2> DEFINE m == Max(over)
  <2>4. m \in over /\ \A k \in over : k <= m
    BY <2>2, <2>3, MaxOfNats
  <2> HIDE DEF m
  <2>5. behind(m) \in SUBSET gone
    <3> SUFFICES ASSUME NEW k \in at, k > m
                 PROVE  lru[k] \in gone
      OBVIOUS
    <3>1. at \in SUBSET Nat /\ m \in Nat
      BY <2>2, <2>4
    <3>2. k \notin over
      BY <2>4, <3>1
    <3> HIDE DEF less, at, gone
    <3> QED
      BY <2>1, <3>2
  <2>6. behind(m) \in SUBSET may /\ gone \in SUBSET may
    BY ThrowIs
  <2>7. Bytes(behind(m)) = Total(g, behind(m))
    <3>1. behind(m) \in SUBSET Item
      BY <1>1, <2>6
    <3> HIDE DEF behind
    <3> QED
      BY <1>1, <3>1, BytesTotal
  <2> HIDE DEF behind, gone, g
  <2>8. Total(g, behind(m)) <= Total(g, gone)
    BY <1>2, <2>5, <2>6, TotalOfMore
  <2>9. ~(Bytes(behind(m)) < need)
    BY <2>4
  <2>10. Total(g, behind(m)) \in Nat /\ Total(g, gone) \in Nat
    BY <1>2, <2>6
  <2> QED
    BY <2>7, <2>8, <2>9, <2>10 DEF gone, g
<1> QED
  BY <1>3, <1>4

LEMMA MovedToFront ==
  ASSUME NEW T, NEW q \in Seq(T), NEW c \in ToSet(q)
  PROVE  /\ MoveToFront(q, c) \in Seq(T)
         /\ ToSet(MoveToFront(q, c)) = ToSet(q)
         /\ IsInjective(q) => IsInjective(MoveToFront(q, c))
<1> DEFINE r == MoveOut(q, {c})
<1>1. c \in T
  <2>1. DOMAIN q = 1 .. Len(q)
    BY LenProperties
  <2> QED
    BY <2>1, ElementOfSeq DEF ToSet
<1>2. /\ r \in Seq(T) /\ ToSet(r) = ToSet(q) \ {c}
      /\ IsInjective(q) => IsInjective(r)
  BY MoveOutElements, MoveOutKeeps
<1> HIDE DEF r
<1>3. c \notin ToSet(r)
  BY <1>2
<1>4. /\ <<c>> \o r \in Seq(T)
      /\ ToSet(<<c>> \o r) = {c} \cup ToSet(r)
      /\ IsInjective(r) => IsInjective(<<c>> \o r)
  BY <1>1, <1>2, <1>3, Prepended
<1> QED
  BY <1>2, <1>4 DEF MoveToFront, r

LEMMA Rechained ==
  ASSUME NEW U, NEW ch, NEW it, Chained(U, ch, it), NEW ch2 \in [Loc -> Seq(Item)],
         \A l \in Loc : ToSet(ch2[l]) = ToSet(ch[l])
  PROVE  Chained(U, ch2, it)
BY DEF Chained

\* The sums over items that go, as the handlers compute them
LEMMA SumsOf ==
  ASSUME IInv, NEW S \in SUBSET Items
  PROVE  /\ MemOf(S) = InMem(S, item) /\ DskOf(S) = S \ InMem(S, item)
         /\ Bytes(S) = Total(SizesOf(item), S)
         /\ Bytes(MemOf(S)) = Total(SizesOf(item), InMem(S, item))
         /\ Bytes(DskOf(S)) = Total(SizesOf(item), S \ InMem(S, item))
         /\ Unlinked(NamesOf(S)) = UnlinkedBy(item, S, files)
         /\ Bytes(S) \in Nat /\ Bytes(MemOf(S)) \in Nat /\ Bytes(DskOf(S)) \in Nat
<1>1. item \in [Item -> ItemRecord] /\ S \in SUBSET Item
  BY Facts
<1>2. MemOf(S) = InMem(S, item) /\ DskOf(S) = S \ InMem(S, item)
  BY DEF MemOf, DskOf, InMem
<1>3. MemOf(S) \in SUBSET Item /\ DskOf(S) \in SUBSET Item
  BY <1>1 DEF MemOf, DskOf
<1>4. ASSUME NEW T \in SUBSET Item
      PROVE  Bytes(T) = Total(SizesOf(item), T) /\ Bytes(T) \in Nat
  <2>1. Bytes(T) = Total(SizesOf(item), T)
    BY <1>1, BytesTotal
  <2>2. IsFiniteSet(T) /\ \A c \in T : SizesOf(item)[c] \in Nat
    BY <1>1, ItemsFinite, SizesNat
  <2>3. Total(SizesOf(item), T) \in Nat
    BY ONLY <2>2, TotalStep
  <2> QED
    BY <2>1, <2>3
<1>5. Unlinked(NamesOf(S)) = UnlinkedBy(item, S, files)
  BY DEF Unlinked, NamesOf, UnlinkedBy, Named, HasFile
<1> QED
  BY <1>1, <1>2, <1>3, <1>4, <1>5

\* destroy_item() for each item of S, as a step
LEMMA DestroySound ==
  ASSUME IInv, NEW S \in SUBSET Items, Destroy(S)
  PROVE  /\ lru' \in Seq(Item) /\ IsInjective(lru') /\ Items' = Items \ S
         /\ Sound(Items', chain', Cleared(item, S), files', fid,
                  mem_use', mem_num', dsk_use', dsk_num')
         /\ Pointed(Items', Cleared(item, S), held, loaded)
         /\ IndexRight(index, files')
         /\ (\A c \in S : ~HasFile(item, c)) =>
              LinesOf(Items', Cleared(item, S)) = LinesOf(Items, item)
         /\ Bounded(Items', Cleared(item, S), mem_use')
<1>1. /\ Sound(Items, chain, item, files, fid, mem_use, mem_num, dsk_use, dsk_num)
      /\ Items \in SUBSET Item /\ item \in [Item -> ItemRecord]
      /\ files \in [Name -> Loc \cup {Nil}]
  BY Facts
<1>2. lru' \in Seq(Item) /\ IsInjective(lru') /\ Items' = Items \ S
  <2>1. lru \in Seq(Item) /\ IsInjective(lru) /\ lru' = MoveOut(lru, S)
    BY DEF IInv, Destroy
  <2>2. /\ MoveOut(lru, S) \in Seq(Item)
        /\ ToSet(MoveOut(lru, S)) = ToSet(lru) \ S
        /\ IsInjective(MoveOut(lru, S))
    BY <2>1, MoveOutElements, MoveOutKeeps
  <2> QED
    BY <2>1, <2>2 DEF Items
<1>3. /\ chain' = [l \in Loc |-> MoveOut(chain[l], S)]
      /\ files' = UnlinkedBy(item, S, files)
      /\ mem_use' = mem_use - Total(SizesOf(item), InMem(S, item))
      /\ mem_num' = mem_num - Cardinality(InMem(S, item))
      /\ dsk_use' = dsk_use - Total(SizesOf(item), S \ InMem(S, item))
      /\ dsk_num' = dsk_num - Cardinality(S \ InMem(S, item))
  BY SumsOf DEF Destroy
<1>4. Sound(Items', chain', Cleared(item, S), files', fid,
            mem_use', mem_num', dsk_use', dsk_num')
  BY <1>1, <1>2, <1>3, Destroyed
<1>5. Pointed(Items', Cleared(item, S), held, loaded)
  BY <1>1, <1>2, PointedCleared DEF IInv
<1>6. IndexRight(index, files')
  BY <1>1, <1>3, IndexUnlinked DEF IInv
<1>7. (\A c \in S : ~HasFile(item, c)) =>
        LinesOf(Items', Cleared(item, S)) = LinesOf(Items, item)
  BY <1>1, <1>2, LinesCleared
<1>8. Bounded(Items', Cleared(item, S), mem_use')
  BY <1>1, <1>2, <1>3, BoundedCleared DEF IInv, CountsRight
<1> QED
  BY <1>2, <1>4, <1>5, <1>6, <1>7, <1>8

\* cache_flush (NULL) brings cache.idx up to date with what there is now.
LEMMA Flushed ==
  ASSUME NEW n, FlushAll(n),
         lru' \in Seq(Item), IsInjective(lru'),
         NEW ch, NEW mu, NEW mn, NEW du,
         ItemsRight(Items', item'), Distinct(Items', item'),
         CountsRight(Items', item', mu, mn, du, dsk_num'),
         \/ FilesRight(Items', item', files', n)
         \/ dsk_num' = 0 /\ files' \in [Name -> Loc \cup {Nil}]
  PROVE  /\ FilesRight(Items', item', files', fid')
         /\ IndexRight(index', files')
         /\ ToSet(index'.lines) = LinesOf(Items', item')
         /\ {changed', wrote'} \in SUBSET BOOLEAN
<1>1. /\ fid' = (IF dsk_num' = 0 THEN 1 ELSE n)
      /\ index' = [fid |-> fid', lines |-> Lines(lru', item')]
      /\ changed' = FALSE /\ wrote' = TRUE
  BY DEF FlushAll
<1>2. FilesRight(Items', item', files', fid')
  <2>1. CASE dsk_num' = 0
    <3>1. Items' \ InMem(Items', item') = {}
      <4>1. Cardinality(Items' \ InMem(Items', item')) = 0
        BY <2>1 DEF CountsRight
      <4>2. Items' \ InMem(Items', item') \in SUBSET Item
        BY DEF ItemsRight
      <4>3. IsFiniteSet(Items' \ InMem(Items', item'))
        BY <4>2, ItemsFinite
      <4> QED
        BY <4>1, <4>3, FS_EmptySet
    <3>2. \A c \in Items' : ~HasFile(item', c)
      BY <3>1 DEF InMem, HasFile
    <3>3. files' \in [Name -> Loc \cup {Nil}]
      BY DEF FilesRight
    <3>4. fid' \in 1 .. MaxFid + 1
      BY <1>1, <2>1, CacheAssumption
    <3> QED
      BY <3>2, <3>3, <3>4 DEF FilesRight
  <2>2. CASE dsk_num' # 0
    BY <1>1, <2>2
  <2> QED
    BY <2>1, <2>2
<1>3. Items' = ToSet(lru')
  BY DEF Items
<1>4. /\ Lines(lru', item') \in Seq(Line)
      /\ ToSet(Lines(lru', item')) = LinesOf(Items', item')
      /\ \A i, k \in DOMAIN Lines(lru', item') :
           i # k => Lines(lru', item')[i].Location # Lines(lru', item')[k].Location
  BY <1>3, LinesListed
<1>5. IndexRight([fid |-> fid', lines |-> Lines(lru', item')], files')
  BY <1>2, <1>4, IndexOfItems
<1>6. index'.lines = Lines(lru', item')
  BY <1>1
<1> QED
  BY <1>1, <1>2, <1>4, <1>5, <1>6

-----------------------------------------------------------------------------
(***************************************************************************)
(* Every handler keeps the invariant.                                      *)
(***************************************************************************)

\* The parts of the invariant that no handler but the last three of a session
\* has anything to do with
LEMMA Kept ==
  ASSUME NEW p, p \in {"down", "built", "up"}, phase' = p, p # "down",
         lru' \in Seq(Item), IsInjective(lru'),
         {changed', at_exit', wrote'} \in SUBSET BOOLEAN,
         Sound(Items', chain', item', files', fid',
               mem_use', mem_num', dsk_use', dsk_num'),
         Pointed(Items', item', held', loaded'),
         IndexRight(index', files'),
         ~changed' => ToSet(index'.lines) = LinesOf(Items', item'),
         Bounded(Items', item', mem_use')
  PROVE  IInv'
BY DEF IInv, Sound

\* ... and what a step that does not write the index leaves of it
LEMMA NotFlushed ==
  ASSUME IInv, phase # "down", NEW ch \in BOOLEAN, NoFlush(ch),
         ~ch => LinesOf(Items', item') = LinesOf(Items, item)
  PROVE  /\ {changed', wrote'} \in SUBSET BOOLEAN
         /\ fid' = fid /\ index' = index
         /\ ~changed' => ToSet(index'.lines) = LinesOf(Items', item')
<1>1. changed \in BOOLEAN
  BY DEF IInv
<1> QED
  BY <1>1 DEF IInv, NoFlush

LEMMA LookupKeeps ==
  ASSUME IInv, NEW l \in Loc, NEW ident, NEW any, CacheLookup(l, ident, any)
  PROVE  IInv'
<1> DEFINE c == chain[l][Found(l, ident, any)]
<1>1. c \in ToSet(chain[l]) /\ c \in Items /\ item[c].Location = l
  BY FoundIs DEF CacheLookup
<1>2. /\ phase = "up"
      /\ lru' = MoveToFront(lru, c)
      /\ chain' = [chain EXCEPT ![l] = MoveToFront(chain[l], c)]
      /\ item' = [item EXCEPT ![c].Object = item[c].Object \/ (ident = 0 /\ Named(c))]
      /\ NoFlush(ReorderChanges(c))
      /\ UNCHANGED <<phase, mem_use, mem_num, dsk_use, dsk_num, files, at_exit,
                     held, loaded>>
  BY DEF CacheLookup
<1> HIDE DEF c
<1>3. /\ Sound(Items, chain, item, files, fid, mem_use, mem_num, dsk_use, dsk_num)
      /\ Items \in SUBSET Item /\ item \in [Item -> ItemRecord]
      /\ chain \in [Loc -> Seq(Item)]
  BY Facts
<1>4. lru' \in Seq(Item) /\ IsInjective(lru') /\ Items' = Items
  <2>1. lru \in Seq(Item) /\ IsInjective(lru) /\ c \in ToSet(lru)
    BY <1>1 DEF IInv, Items
  <2> QED
    BY <1>2, <2>1, MovedToFront DEF Items
<1>5. chain' \in [Loc -> Seq(Item)] /\ \A m \in Loc : ToSet(chain'[m]) = ToSet(chain[m])
  <2>1. chain[l] \in Seq(Item)
    BY <1>3
  <2>2. /\ MoveToFront(chain[l], c) \in Seq(Item)
        /\ ToSet(MoveToFront(chain[l], c)) = ToSet(chain[l])
    BY <1>1, <2>1, MovedToFront
  <2> QED
    BY <1>2, <1>3, <2>2
<1>6. /\ item' \in [Item -> ItemRecord]
      /\ \A d \in Item : d # c => item'[d] = item[d]
      /\ \A d \in Items : /\ item'[d].Location = item[d].Location
                          /\ item'[d].mem = item[d].mem
                          /\ item'[d].Cached = item[d].Cached
                          /\ item'[d].Size = item[d].Size
                          /\ item'[d].Reffs = item[d].Reffs
                          /\ LineOf(item'[d]) = LineOf(item[d])
      /\ ~HasFile(item, c) => item'[c].Object = item[c].Object
  <2>1. c \in Item /\ item[c] \in ItemRecord /\ item[c].Object \in BOOLEAN
    BY <1>1, <1>3 DEF ItemRecord
  <2>2. item[c].Object \/ (ident = 0 /\ Named(c)) \in BOOLEAN
    OBVIOUS
  <2>3. /\ item'[c] = [item[c] EXCEPT !.Object = item[c].Object \/ (ident = 0 /\ Named(c))]
        /\ \A d \in Item : d # c => item'[d] = item[d]
    BY <1>2, <1>3, <2>1
  <2>4. /\ item'[c].Location = item[c].Location /\ item'[c].mem = item[c].mem
        /\ item'[c].Cached = item[c].Cached /\ item'[c].Size = item[c].Size
        /\ item'[c].Reffs = item[c].Reffs /\ item'[c].Ident = item[c].Ident
        /\ item'[c].Expires = item[c].Expires
        /\ item'[c].Object = (item[c].Object \/ (ident = 0 /\ Named(c)))
        /\ item'[c] \in ItemRecord
    BY <2>1, <2>2, <2>3 DEF ItemRecord
  <2>5. LineOf(item'[c]) = LineOf(item[c])
    BY <2>4 DEF LineOf
  <2>6. ~HasFile(item, c) => item'[c].Object = item[c].Object
    BY <2>1, <2>4 DEF HasFile, Named
  <2>7. item' \in [Item -> ItemRecord]
    BY <1>2, <1>3, <2>1, <2>3, <2>4
  <2> QED
    BY <1>3, <2>3, <2>4, <2>5, <2>6, <2>7
<1>7. Sound(Items', chain', item', files', fid, mem_use', mem_num', dsk_use', dsk_num')
  <2>1. \A d \in Items : OnDisk(item, d) /\ item[d].Cached = 0 =>
           ~item'[d].Object /\ item'[d].Reffs = 1
    BY <1>3, <1>6 DEF Sound, ItemsRight, HasFile
  <2>2. \A d \in Item \ Items : item'[d] = item[d]
    BY <1>1, <1>6
  <2>3. Sound(Items, chain, item', files, fid, mem_use, mem_num, dsk_use, dsk_num)
    BY <1>3, <1>6, <2>1, <2>2, Touched
  <2>4. Chained(Items, chain', item')
    BY <1>5, <2>3, Rechained DEF Sound
  <2> QED
    BY <1>2, <1>4, <2>3, <2>4 DEF Sound
<1>8. Pointed(Items', item', held', loaded')
  BY <1>2, <1>4, <1>6 DEF IInv, Pointed, OnDisk, HasFile
<1>9. LinesOf(Items', item') = LinesOf(Items, item)
  BY <1>4, <1>6, LinesSame
<1>10. Bounded(Items', item', mem_use')
  BY <1>2, <1>4, <1>6 DEF IInv, Bounded, InMem
<1>11. ReorderChanges(c) \in BOOLEAN
  BY DEF ReorderChanges
<1>12. /\ {changed', wrote'} \in SUBSET BOOLEAN
       /\ fid' = fid /\ index' = index
       /\ ~changed' => ToSet(index'.lines) = LinesOf(Items', item')
  BY <1>2, <1>9, <1>11, NotFlushed
<1>13. IndexRight(index', files') /\ {changed', at_exit', wrote'} \in SUBSET BOOLEAN
  BY <1>2, <1>12 DEF IInv
<1> QED
  BY <1>2, <1>4, <1>7, <1>8, <1>10, <1>12, <1>13, Kept

\* One item changes in a field that the counters do not depend on.
LEMMA OneTouched ==
  ASSUME IInv, NEW c \in Items, NEW r \in ItemRecord,
         item' = [item EXCEPT ![c] = r],
         r.Location = item[c].Location, r.mem = item[c].mem,
         r.Cached = item[c].Cached, r.Size = item[c].Size,
         OnDisk(item, c) /\ item[c].Cached = 0 => ~r.Object /\ r.Reffs = 1
  PROVE  /\ Sound(Items, chain, item', files, fid, mem_use, mem_num, dsk_use, dsk_num)
         /\ item'[c] = r /\ \A d \in Items : d # c => item'[d] = item[d]
         /\ (HasFile(item, c) => LineOf(r) = LineOf(item[c])) =>
              LinesOf(Items, item') = LinesOf(Items, item)
<1>1. /\ Sound(Items, chain, item, files, fid, mem_use, mem_num, dsk_use, dsk_num)
      /\ Items \in SUBSET Item /\ item \in [Item -> ItemRecord]
  BY Facts
<1>2. /\ item' \in [Item -> ItemRecord] /\ item'[c] = r
      /\ \A d \in Item : d # c => item'[d] = item[d]
  BY <1>1
<1>3. \A d \in Items : /\ item'[d].Location = item[d].Location
                       /\ item'[d].mem = item[d].mem
                       /\ item'[d].Cached = item[d].Cached
                       /\ item'[d].Size = item[d].Size
  BY <1>1, <1>2
<1>4. \A d \in Items : OnDisk(item, d) /\ item[d].Cached = 0 =>
         ~item'[d].Object /\ item'[d].Reffs = 1
  BY <1>1, <1>2 DEF Sound, ItemsRight
<1>5. \A d \in Item \ Items : item'[d] = item[d]
  BY <1>2
<1>6. Sound(Items, chain, item', files, fid, mem_use, mem_num, dsk_use, dsk_num)
  BY <1>1, <1>2, <1>3, <1>4, <1>5, Touched
<1>7. ASSUME HasFile(item, c) => LineOf(r) = LineOf(item[c])
      PROVE  LinesOf(Items, item') = LinesOf(Items, item)
  <2>1. \A d \in Items : HasFile(item, d) => LineOf(item'[d]) = LineOf(item[d])
    BY <1>1, <1>2, <1>7
  <2> QED
    BY ONLY <1>3, <2>1, LinesSame
<1> QED
  BY <1>1, <1>2, <1>6, <1>7

LEMMA QueryKeeps ==
  ASSUME IInv, NEW l \in Loc, CacheQuery(l)
  PROVE  IInv'
<1> DEFINE c == DiskItem(l)
           r == [item[c] EXCEPT !.Object = TRUE]
<1>1. c \in Items /\ c \in Item /\ HasFile(item, c)
  BY DiskItemIs DEF CacheQuery, Named, HasFile
<1>2. /\ phase = "up"
      /\ lru' = MoveToFront(lru, c)
      /\ item' = [item EXCEPT ![c] = r]
      /\ NoFlush(ReorderChanges(c))
      /\ UNCHANGED <<phase, chain, mem_use, mem_num, dsk_use, dsk_num, files,
                     at_exit, held, loaded>>
  BY DEF CacheQuery
<1>3. item \in [Item -> ItemRecord]
  BY Facts
<1> HIDE DEF c
<1>4. /\ r \in ItemRecord /\ r.Location = item[c].Location /\ r.mem = item[c].mem
      /\ r.Cached = item[c].Cached /\ r.Size = item[c].Size
      /\ r.Reffs = item[c].Reffs /\ LineOf(r) = LineOf(item[c])
  BY <1>1, <1>3 DEF ItemRecord, LineOf
<1> HIDE DEF r
<1>5. lru' \in Seq(Item) /\ IsInjective(lru') /\ Items' = Items
  <2>1. lru \in Seq(Item) /\ IsInjective(lru) /\ c \in ToSet(lru)
    BY <1>1 DEF IInv, Items
  <2> QED
    BY <1>2, <2>1, MovedToFront DEF Items
<1>6. /\ Sound(Items, chain, item', files, fid, mem_use, mem_num, dsk_use, dsk_num)
      /\ item'[c] = r /\ \A d \in Items : d # c => item'[d] = item[d]
      /\ LinesOf(Items, item') = LinesOf(Items, item)
  BY <1>1, <1>2, <1>4, OneTouched DEF HasFile
<1>7. \A d \in Items : item'[d].mem = item[d].mem /\ item'[d].Cached = item[d].Cached
                       /\ item'[d].Reffs = item[d].Reffs
  BY <1>4, <1>6
<1>8. Pointed(Items', item', held', loaded') /\ Bounded(Items', item', mem_use')
  BY <1>2, <1>5, <1>7 DEF IInv, Pointed, OnDisk, HasFile, Bounded, InMem
<1>9. ReorderChanges(c) \in BOOLEAN
  BY DEF ReorderChanges
<1>10. /\ {changed', wrote'} \in SUBSET BOOLEAN
       /\ fid' = fid /\ index' = index
       /\ ~changed' => ToSet(index'.lines) = LinesOf(Items', item')
  BY <1>2, <1>5, <1>6, <1>9, NotFlushed
<1>11. /\ IndexRight(index', files') /\ {changed', at_exit', wrote'} \in SUBSET BOOLEAN
       /\ Sound(Items', chain', item', files', fid',
                mem_use', mem_num', dsk_use', dsk_num')
  BY <1>2, <1>5, <1>6, <1>10 DEF IInv
<1> QED
  BY <1>2, <1>5, <1>8, <1>10, <1>11, Kept

LEMMA BoundKeeps ==
  ASSUME IInv, NEW c \in Item, CacheBound(c)
  PROVE  IInv'
<1> DEFINE r == [item[c] EXCEPT !.Reffs = item[c].Reffs + 1]
<1>1. /\ phase = "up" /\ item[c].Object /\ held[c] < MaxHeld
      /\ item' = [item EXCEPT ![c] = r]
      /\ held' = [held EXCEPT ![c] = held[c] + 1]
      /\ NoFlush(FALSE)
      /\ UNCHANGED <<phase, lru, chain, mem_use, mem_num, dsk_use, dsk_num,
                     files, at_exit, loaded>>
  BY DEF CacheBound
<1>2. item \in [Item -> ItemRecord] /\ item[c].Reffs \in Nat
  BY Facts DEF ItemRecord
<1>3. c \in Items /\ ~(OnDisk(item, c) /\ item[c].Cached = 0)
  BY <1>1, Facts DEF Blank, IInv, ItemsRight
<1>4. /\ r \in ItemRecord /\ r.Location = item[c].Location /\ r.mem = item[c].mem
      /\ r.Cached = item[c].Cached /\ r.Size = item[c].Size
      /\ r.Reffs = item[c].Reffs + 1 /\ LineOf(r) = LineOf(item[c])
  BY <1>2 DEF ItemRecord, LineOf
<1> HIDE DEF r
<1>5. lru' \in Seq(Item) /\ IsInjective(lru') /\ Items' = Items
  BY <1>1 DEF IInv, Items
<1>6. /\ Sound(Items, chain, item', files, fid, mem_use, mem_num, dsk_use, dsk_num)
      /\ item'[c] = r /\ \A d \in Items : d # c => item'[d] = item[d]
      /\ LinesOf(Items, item') = LinesOf(Items, item)
  BY <1>1, <1>3, <1>4, OneTouched
<1>7. /\ \A d \in Items : item'[d].mem = item[d].mem /\ item'[d].Cached = item[d].Cached
      /\ \A d \in Items : item'[d].Reffs = 0 => item[d].Reffs = 0
  BY <1>2, <1>4, <1>6
<1>8. Pointed(Items', item', held', loaded')
  <2>1. held \in [Item -> 0 .. MaxHeld] /\ MaxHeld \in Nat
    BY CacheAssumption DEF IInv, Pointed
  <2>2. /\ held' \in [Item -> 0 .. MaxHeld] /\ held'[c] = held[c] + 1
        /\ \A d \in Item : d # c => held'[d] = held[d]
    BY <1>1, <2>1
  <2>3. ASSUME NEW d \in Items
        PROVE  /\ item'[d].mem => held'[d] <= item'[d].Reffs
               /\ OnDisk(item', d) /\ item'[d].Cached = 0 => held'[d] = 0
               /\ d \in loaded => HasFile(item', d)
    <3>1. /\ item[d].mem => held[d] <= item[d].Reffs
          /\ OnDisk(item, d) /\ item[d].Cached = 0 => held[d] = 0
          /\ d \in loaded => HasFile(item, d)
      BY DEF IInv, Pointed
    <3>2. CASE d = c
      BY <1>2, <1>3, <1>4, <1>6, <2>1, <2>2, <3>1, <3>2 DEF OnDisk, HasFile
    <3>3. CASE d # c
      <4>1. d \in Item
        BY Facts
      <4> QED
        BY <1>6, <2>2, <3>1, <3>3, <4>1 DEF OnDisk, HasFile
    <3> QED
      BY <3>2, <3>3
  <2> QED
    BY <1>1, <1>5, <2>2, <2>3 DEF IInv, Pointed
<1>9. Bounded(Items', item', mem_use')
  BY <1>1, <1>5, <1>7 DEF IInv, Bounded, InMem
<1>10. /\ {changed', wrote'} \in SUBSET BOOLEAN
       /\ fid' = fid /\ index' = index
       /\ ~changed' => ToSet(index'.lines) = LinesOf(Items', item')
  BY <1>1, <1>5, <1>6, NotFlushed
<1>11. /\ IndexRight(index', files') /\ {changed', at_exit', wrote'} \in SUBSET BOOLEAN
       /\ Sound(Items', chain', item', files', fid',
                mem_use', mem_num', dsk_use', dsk_num')
  BY <1>1, <1>5, <1>6, <1>10 DEF IInv
<1> QED
  BY <1>1, <1>5, <1>8, <1>9, <1>10, <1>11, Kept

LEMMA ExpiresKeeps ==
  ASSUME IInv, NEW l \in Loc, NEW date \in Dates, CacheExpires(l, date)
  PROVE  IInv'
<1> DEFINE c == DiskItem(l)
           r == [item[c] EXCEPT !.Expires = date]
<1>1. c \in Items /\ c \in Item
  BY DiskItemIs DEF CacheExpires
<1>2. /\ phase = "up" /\ item' = [item EXCEPT ![c] = r]
      /\ changed' = TRUE /\ wrote' = FALSE
      /\ UNCHANGED <<phase, lru, chain, mem_use, mem_num, dsk_use, dsk_num, fid,
                     index, files, at_exit, held, loaded>>
  BY DEF CacheExpires
<1> HIDE DEF c
<1>3. item[c] \in ItemRecord /\ date \in {NEVER, AT_EXIT, LATER}
  BY <1>1, Facts, CacheAssumption
<1>4. /\ r \in ItemRecord /\ r.Location = item[c].Location /\ r.mem = item[c].mem
      /\ r.Cached = item[c].Cached /\ r.Size = item[c].Size
      /\ r.Reffs = item[c].Reffs /\ r.Object = item[c].Object
  BY <1>3 DEF ItemRecord
<1> HIDE DEF r
<1>5. OnDisk(item, c) /\ item[c].Cached = 0 => ~r.Object /\ r.Reffs = 1
  BY <1>1, <1>4 DEF IInv, ItemsRight
<1>6. /\ Sound(Items, chain, item', files, fid, mem_use, mem_num, dsk_use, dsk_num)
      /\ item'[c] = r /\ \A d \in Items : d # c => item'[d] = item[d]
  BY <1>1, <1>2, <1>4, <1>5, OneTouched
<1>7. lru' \in Seq(Item) /\ IsInjective(lru') /\ Items' = Items
  BY <1>2 DEF IInv, Items
<1>8. \A d \in Items : item'[d].mem = item[d].mem /\ item'[d].Cached = item[d].Cached
                       /\ item'[d].Reffs = item[d].Reffs
  BY <1>4, <1>6
<1>9. Pointed(Items', item', held', loaded') /\ Bounded(Items', item', mem_use')
  BY <1>2, <1>7, <1>8 DEF IInv, Pointed, OnDisk, HasFile, Bounded, InMem
<1>10. /\ IndexRight(index', files') /\ {changed', at_exit', wrote'} \in SUBSET BOOLEAN
       /\ Sound(Items', chain', item', files', fid',
                mem_use', mem_num', dsk_use', dsk_num')
  BY <1>2, <1>6, <1>7 DEF IInv
<1> QED
  BY <1>2, <1>7, <1>9, <1>10, Kept

\* cache_release() of a pointer that is counted no more: what it leaves of the
\* items that are not destroyed, and that it makes all the room there is to make
LEMMA ReleaseKeeps ==
  ASSUME IInv, NEW c \in Item, NEW erase \in BOOLEAN, Release(c, erase),
         phase = "up", UNCHANGED <<phase, at_exit>>,
         ~(c \in Items /\ OnDisk(item, c) /\ item[c].Cached = 0),
         loaded' \in SUBSET loaded,
         held' \in [Item -> 0 .. MaxHeld],
         \A d \in Item : held'[d] <= held[d],
         c \in Items /\ item[c].mem => held'[c] <= OneLess(item[c].Reffs)
  PROVE  IInv'
<1> DEFINE reffs == OneLess(item[c].Reffs)
           gone  == IF /\ c \in Items /\ erase /\ reffs = 0
                       /\ item[c].mem \/ Named(c)
                    THEN {c} ELSE {}
           may   == ({d \in MemOf(Items) : d # c /\ item[d].Reffs = 0}
                      \cup {d \in MemOf({c} \cap Items) : reffs = 0}) \ gone
           need  == mem_use - Bytes(MemOf(gone)) - MemMax
           out   == Throw(may, need)
           all   == gone \cup out
           old   == Cleared(item, all)
<1>1. /\ Destroy(all)
      /\ item' = [d \in Item |->
           IF d \in all THEN Blank
           ELSE IF d = c /\ c \in Items THEN [item[c] EXCEPT !.Reffs = reffs]
           ELSE item[d]]
      /\ IF \E d \in gone : Named(d) THEN FlushAll(fid) ELSE NoFlush(FALSE)
  BY DEF Release, RoomAfterRelease
<1>2. /\ Items \in SUBSET Item /\ item \in [Item -> ItemRecord]
      /\ \A d \in Item \ Items : item[d] = Blank
      /\ mem_use \in Nat /\ MemMax \in Nat
  BY Facts, CacheAssumption
<1>3. gone \in SUBSET Items
  OBVIOUS
<1>4. /\ may \in SUBSET InMem(Items, item) /\ may \cap gone = {}
      /\ \A d \in InMem(Items, item) :
           d \notin gone /\ (IF d = c THEN reffs = 0 ELSE item[d].Reffs = 0) => d \in may
  BY DEF MemOf, InMem
<1>5. out \in SUBSET may
  BY ThrowIs
<1>6. all \in SUBSET Items /\ out \in SUBSET InMem(Items, item)
  BY <1>3, <1>4, <1>5 DEF InMem
<1>7. reffs \in Nat
  BY <1>2 DEF OneLess, ItemRecord
<1> HIDE DEF reffs, gone, may, out
<1>8. /\ lru' \in Seq(Item) /\ IsInjective(lru') /\ Items' = Items \ all
      /\ Sound(Items', chain', old, files', fid, mem_use', mem_num', dsk_use', dsk_num')
      /\ Pointed(Items', old, held, loaded)
      /\ IndexRight(index, files')
      /\ (\A d \in all : ~HasFile(item, d)) => LinesOf(Items', old) = LinesOf(Items, item)
  BY <1>1, <1>6, DestroySound
<1>9. /\ old \in [Item -> ItemRecord]
      /\ \A d \in Item \ all : old[d] = item[d]
      /\ \A d \in Item : d \in all => old[d] = Blank
  BY <1>2, ClearedItems
<1> HIDE DEF all
<1> DEFINE r == [item[c] EXCEPT !.Reffs = reffs]
<1>10. /\ \A d \in Item : d # c => item'[d] = old[d]
       /\ c \notin Items' => item'[c] = old[c]
       /\ c \in Items' => item'[c] = r /\ old[c] = item[c]
  BY <1>1, <1>2, <1>8, <1>9
<1>11. /\ r \in ItemRecord /\ r.Location = item[c].Location /\ r.mem = item[c].mem
       /\ r.Cached = item[c].Cached /\ r.Size = item[c].Size
       /\ r.Reffs = reffs /\ LineOf(r) = LineOf(item[c])
  BY <1>2, <1>7 DEF ItemRecord, LineOf
<1> HIDE DEF r, old
<1>12. item' \in [Item -> ItemRecord]
  <2>1. \A d \in Item : item'[d] \in ItemRecord
    BY <1>9, <1>10, <1>11
  <2>2. item' = [d \in Item |-> item'[d]]
    BY <1>1
  <2> QED
    BY <2>1, <2>2
<1>13. \A d \in Items' : /\ item'[d].Location = old[d].Location
                         /\ item'[d].mem = old[d].mem
                         /\ item'[d].Cached = old[d].Cached
                         /\ item'[d].Size = old[d].Size
                         /\ LineOf(item'[d]) = LineOf(old[d])
                         /\ OnDisk(old, d) /\ old[d].Cached = 0 =>
                              ~item'[d].Object /\ item'[d].Reffs = 1
  <2> SUFFICES ASSUME NEW d \in Items'
               PROVE  /\ item'[d].Location = old[d].Location
                      /\ item'[d].mem = old[d].mem
                      /\ item'[d].Cached = old[d].Cached
                      /\ item'[d].Size = old[d].Size
                      /\ LineOf(item'[d]) = LineOf(old[d])
                      /\ OnDisk(old, d) /\ old[d].Cached = 0 =>
                           ~item'[d].Object /\ item'[d].Reffs = 1
    OBVIOUS
  <2>1. d \in Item /\ d \in Items
    BY <1>2, <1>8
  <2>2. CASE d = c
    <3>1. item'[d] = r /\ old[d] = item[c]
      BY <1>10, <2>2
    <3>2. ~(OnDisk(old, d) /\ old[d].Cached = 0)
      BY <2>1, <2>2, <3>1 DEF OnDisk
    <3> QED
      BY <1>11, <2>2, <3>1, <3>2
  <2>3. CASE d # c
    <3>1. item'[d] = old[d]
      BY <1>10, <2>1, <2>3
    <3> QED
      BY <1>8, <3>1 DEF Sound, ItemsRight
  <2> QED
    BY <2>2, <2>3
<1>14. Sound(Items', chain', item', files', fid, mem_use', mem_num', dsk_use', dsk_num')
  <2>1. \A d \in Item \ Items' : item'[d] = old[d]
    BY <1>10
  <2> QED
    BY <1>8, <1>12, <1>13, <2>1, Touched
<1>15. LinesOf(Items', item') = LinesOf(Items', old)
  BY ONLY <1>13, LinesSame
<1>16. Pointed(Items', item', held', loaded')
  <2>0. held \in [Item -> 0 .. MaxHeld] /\ loaded \in SUBSET Item /\ MaxHeld \in Nat
    BY CacheAssumption DEF IInv, Pointed
  <2>1. ASSUME NEW d \in Items'
        PROVE  /\ item'[d].mem => held'[d] <= item'[d].Reffs
               /\ OnDisk(item', d) /\ item'[d].Cached = 0 => held'[d] = 0
               /\ d \in loaded' => HasFile(item', d)
    <3>1. /\ d \in Item /\ d \in Items /\ d \notin all
          /\ held'[d] <= held[d] /\ held'[d] \in Nat /\ held[d] \in Nat
      BY <1>2, <1>8, <2>0
    <3>2. /\ old[d].mem => held[d] <= old[d].Reffs
          /\ OnDisk(old, d) /\ old[d].Cached = 0 => held[d] = 0
          /\ d \in loaded => HasFile(old, d)
      BY <1>8 DEF Pointed
    <3>3. item'[d].mem => held'[d] <= item'[d].Reffs
      <4>1. CASE d = c
        <5>1. item'[d] = r /\ old[d] = item[c]
          BY <1>10, <4>1
        <5> QED
          BY <1>11, <3>1, <4>1, <5>1 DEF reffs
      <4>2. CASE d # c
        <5>1. item'[d] = old[d] /\ old[d] = item[d] /\ item[d].Reffs \in Nat
          BY <1>2, <1>9, <1>10, <3>1, <4>2 DEF ItemRecord
        <5> QED
          BY <3>1, <3>2, <5>1
      <4> QED
        BY <4>1, <4>2
    <3>4. OnDisk(item', d) /\ item'[d].Cached = 0 => held'[d] = 0
      BY <1>13, <3>1, <3>2 DEF OnDisk
    <3>5. d \in loaded' => HasFile(item', d)
      BY <1>13, <3>2 DEF HasFile
    <3> QED
      BY <3>3, <3>4, <3>5
  <2>2. loaded' \in SUBSET Item
    BY <2>0
  <2> QED
    BY <2>1, <2>2 DEF Pointed
<1>17. Bounded(Items', item', mem_use')
  <2> SUFFICES ASSUME mem_use' > MemMax,
                      NEW e \in InMem(Items', item'), item'[e].Reffs = 0
               PROVE  FALSE
    BY DEF Bounded
  <2>1. e \in Items' /\ e \in Items /\ e \in Item /\ e \notin all /\ item'[e].mem
    BY <1>2, <1>8 DEF InMem
  <2>2. item[e].mem /\ (IF e = c THEN reffs = 0 ELSE item[e].Reffs = 0)
    <3>1. CASE e = c
      BY <1>10, <1>11, <2>1, <3>1
    <3>2. CASE e # c
      BY <1>9, <1>10, <2>1, <3>2
    <3> QED
      BY <3>1, <3>2
  <2>3. e \in may /\ e \notin out
    BY <1>4, <2>1, <2>2 DEF all, InMem
  <2>4. /\ may \in SUBSET Items /\ Bytes(MemOf(gone)) \in Nat
        /\ Bytes(MemOf(gone)) = Total(SizesOf(item), InMem(gone, item))
    BY <1>3, <1>4, SumsOf DEF InMem
  <2>5. need \in Int
    BY <1>2, <2>4
  <2>6. need <= Total(SizesOf(item), out)
    BY <2>3, <2>4, <2>5, ThrowEnough DEF out
  <2>7. mem_use' = mem_use - Total(SizesOf(item), InMem(all, item))
    BY <1>1, <1>6, SumsOf DEF Destroy
  <2>8. /\ InMem(all, item) = InMem(gone, item) \cup out
        /\ InMem(gone, item) \cap out = {}
        /\ InMem(gone, item) \in SUBSET Item /\ out \in SUBSET Item
    BY <1>2, <1>3, <1>4, <1>5, <1>6 DEF all, InMem
  <2>9. /\ IsFiniteSet(InMem(gone, item)) /\ IsFiniteSet(out)
        /\ \A x \in InMem(gone, item) \cup out : SizesOf(item)[x] \in Nat
        /\ \A x \in out : SizesOf(item)[x] \in Nat
    BY <1>2, <2>8, ItemsFinite, SizesNat
  <2>10. Total(SizesOf(item), InMem(gone, item) \cup out)
           = Total(SizesOf(item), InMem(gone, item)) + Total(SizesOf(item), out)
    BY ONLY <2>8, <2>9, TotalOfTwo
  <2>11. Total(SizesOf(item), out) \in Nat
    BY ONLY <2>9, TotalStep
  <2> QED
    BY <1>2, <2>4, <2>6, <2>7, <2>8, <2>10, <2>11
<1>18. CASE \E d \in gone : Named(d)
  <2>1. FlushAll(fid)
    BY <1>1, <1>18
  <2>2. /\ ItemsRight(Items', item') /\ Distinct(Items', item')
        /\ CountsRight(Items', item', mem_use', mem_num', dsk_use', dsk_num')
        /\ FilesRight(Items', item', files', fid)
        /\ Chained(Items', chain', item')
    BY <1>14 DEF Sound
  <2>3. /\ FilesRight(Items', item', files', fid')
        /\ IndexRight(index', files')
        /\ ToSet(index'.lines) = LinesOf(Items', item')
        /\ {changed', wrote'} \in SUBSET BOOLEAN
    BY <1>8, <2>1, <2>2, Flushed
  <2>4. /\ {changed', at_exit', wrote'} \in SUBSET BOOLEAN
        /\ Sound(Items', chain', item', files', fid',
                 mem_use', mem_num', dsk_use', dsk_num')
    BY <2>2, <2>3 DEF IInv, Sound
  <2> QED
    BY <1>8, <1>16, <1>17, <2>3, <2>4, Kept
<1>19. CASE ~(\E d \in gone : Named(d))
  <2>1. \A d \in all : ~HasFile(item, d)
    BY <1>6, <1>19 DEF Named, HasFile, InMem, all
  <2>2. NoFlush(FALSE) /\ LinesOf(Items', item') = LinesOf(Items, item)
    BY <1>1, <1>8, <1>15, <1>19, <2>1
  <2>3. /\ {changed', wrote'} \in SUBSET BOOLEAN
        /\ fid' = fid /\ index' = index
        /\ ~changed' => ToSet(index'.lines) = LinesOf(Items', item')
    BY <2>2, NotFlushed
  <2>4. /\ IndexRight(index', files') /\ {changed', at_exit', wrote'} \in SUBSET BOOLEAN
        /\ Sound(Items', chain', item', files', fid',
                 mem_use', mem_num', dsk_use', dsk_num')
    BY <1>8, <1>14, <2>3 DEF IInv
  <2> QED
    BY <1>8, <1>16, <1>17, <2>3, <2>4, Kept
<1> QED
  BY <1>18, <1>19

LEMMA CacheReleaseKeeps ==
  ASSUME IInv, NEW c \in Item, NEW erase \in BOOLEAN, CacheRelease(c, erase)
  PROVE  IInv'
<1>1. /\ phase = "up" /\ held[c] > 0 /\ held' = [held EXCEPT ![c] = held[c] - 1]
      /\ Release(c, erase) /\ UNCHANGED <<phase, at_exit, loaded>>
  BY DEF CacheRelease
<1>2. held \in [Item -> 0 .. MaxHeld] /\ MaxHeld \in Nat /\ loaded \in SUBSET Item
  BY CacheAssumption DEF IInv, Pointed
<1>3. /\ held' \in [Item -> 0 .. MaxHeld] /\ held'[c] = held[c] - 1
      /\ \A d \in Item : held'[d] <= held[d]
  BY <1>1, <1>2
<1>4. ~(c \in Items /\ OnDisk(item, c) /\ item[c].Cached = 0)
  BY <1>1 DEF IInv, Pointed
<1>5. c \in Items /\ item[c].mem => held'[c] <= OneLess(item[c].Reffs)
  <2> SUFFICES ASSUME c \in Items, item[c].mem
               PROVE  held'[c] <= OneLess(item[c].Reffs)
    OBVIOUS
  <2>1. held[c] <= item[c].Reffs /\ item[c].Reffs \in Nat
    BY Facts DEF IInv, Pointed, ItemRecord
  <2> QED
    BY <1>1, <1>2, <1>3, <2>1 DEF OneLess
<1>6. loaded' \in SUBSET loaded
  BY <1>1
<1> QED
  BY <1>1, <1>3, <1>4, <1>5, <1>6, ReleaseKeeps

LEMMA LoaderReleaseKeeps ==
  ASSUME IInv, NEW c \in Item, LoaderRelease(c)
  PROVE  IInv'
<1>1. /\ phase = "up" /\ c \in loaded /\ loaded' \in SUBSET loaded
      /\ Release(c, FALSE) /\ UNCHANGED <<phase, at_exit, held>>
  BY DEF LoaderRelease
<1>2. held \in [Item -> 0 .. MaxHeld] /\ MaxHeld \in Nat
  BY CacheAssumption DEF IInv, Pointed
<1>3. held' \in [Item -> 0 .. MaxHeld] /\ \A d \in Item : held'[d] <= held[d]
  BY <1>1, <1>2
<1>4. c \in Items => HasFile(item, c)
  BY <1>1 DEF IInv, Pointed
<1> QED
  BY <1>1, <1>3, <1>4, ReleaseKeeps DEF HasFile

\* Items go, and nothing else happens.
LEMMA DestroyKeeps ==
  ASSUME IInv, NEW S \in SUBSET Items, Destroy(S),
         item' = [c \in Item |-> IF c \in S THEN Blank ELSE item[c]],
         phase # "down", phase' \in {"built", "up"},
         UNCHANGED <<at_exit, held, loaded>>,
         \/ FlushAll(fid)
         \/ \E ch \in BOOLEAN : NoFlush(ch) /\ (~ch => \A d \in S : ~HasFile(item, d))
  PROVE  IInv'
<1>1. item' = Cleared(item, S)
  BY DEF Cleared
<1>2. /\ lru' \in Seq(Item) /\ IsInjective(lru')
      /\ Sound(Items', chain', item', files', fid,
               mem_use', mem_num', dsk_use', dsk_num')
      /\ Pointed(Items', item', held, loaded)
      /\ IndexRight(index, files')
      /\ (\A c \in S : ~HasFile(item, c)) =>
           LinesOf(Items', item') = LinesOf(Items, item)
      /\ Bounded(Items', item', mem_use')
  BY <1>1, DestroySound
<1>3. Pointed(Items', item', held', loaded')
  BY <1>2
<1>4. CASE FlushAll(fid)
  <2>1. /\ ItemsRight(Items', item') /\ Distinct(Items', item')
        /\ CountsRight(Items', item', mem_use', mem_num', dsk_use', dsk_num')
        /\ FilesRight(Items', item', files', fid)
    BY <1>2 DEF Sound
  <2>2. /\ FilesRight(Items', item', files', fid')
        /\ IndexRight(index', files')
        /\ ToSet(index'.lines) = LinesOf(Items', item')
        /\ {changed', wrote'} \in SUBSET BOOLEAN
    BY <1>2, <1>4, <2>1, Flushed
  <2>3. /\ {changed', at_exit', wrote'} \in SUBSET BOOLEAN
        /\ Sound(Items', chain', item', files', fid',
                 mem_use', mem_num', dsk_use', dsk_num')
    BY <1>2, <2>2 DEF IInv, Sound
  <2> QED
    BY <1>2, <1>3, <2>2, <2>3, Kept
<1>5. CASE \E ch \in BOOLEAN : NoFlush(ch) /\ (~ch => \A d \in S : ~HasFile(item, d))
  <2>1. PICK ch \in BOOLEAN : NoFlush(ch) /\ (~ch => \A d \in S : ~HasFile(item, d))
    BY <1>5
  <2>2. ~ch => LinesOf(Items', item') = LinesOf(Items, item)
    BY <1>2, <2>1
  <2>3. /\ {changed', wrote'} \in SUBSET BOOLEAN
        /\ fid' = fid /\ index' = index
        /\ ~changed' => ToSet(index'.lines) = LinesOf(Items', item')
    BY <2>1, <2>2, NotFlushed
  <2>4. /\ IndexRight(index', files') /\ {changed', at_exit', wrote'} \in SUBSET BOOLEAN
        /\ Sound(Items', chain', item', files', fid',
                 mem_use', mem_num', dsk_use', dsk_num')
    BY <1>2, <2>3 DEF IInv
  <2> QED
    BY <1>2, <1>3, <2>3, <2>4, Kept
<1> QED
  BY <1>4, <1>5

LEMMA ClearKeeps ==
  ASSUME IInv, NEW S, CacheClear(S)
  PROVE  IInv'
<1> DEFINE gone == {c \in S \cap Items : item[c].Reffs = 0 /\ (item[c].mem \/ Named(c))}
<1>1. /\ phase = "up" /\ Destroy(gone)
      /\ item' = [c \in Item |-> IF c \in gone THEN Blank ELSE item[c]]
      /\ IF \E c \in gone : Named(c) THEN FlushAll(fid) ELSE NoFlush(FALSE)
      /\ UNCHANGED <<phase, at_exit, held, loaded>>
  BY DEF CacheClear
<1>2. gone \in SUBSET Items
  OBVIOUS
<1> HIDE DEF gone
<1>3. (\E c \in gone : Named(c)) \/ (\A c \in gone : ~HasFile(item, c))
  BY DEF Named, HasFile
<1> QED
  BY <1>1, <1>2, <1>3, DestroyKeeps

LEMMA AbortKeeps ==
  ASSUME IInv, NEW l \in Loc, CacheAbort(l)
  PROVE  IInv'
<1> DEFINE c == DiskItem(l)
<1>1. /\ phase = "up" /\ Destroy({c}) /\ item' = [item EXCEPT ![c] = Blank]
      /\ NoFlush(FALSE) /\ UNCHANGED <<phase, at_exit, held, loaded>>
  BY DEF CacheAbort
<1>2. c \in Items /\ ~HasFile(item, c)
  BY ReservedItem DEF CacheAbort
<1>3. item' = [d \in Item |-> IF d \in {c} THEN Blank ELSE item[d]]
  BY <1>1, Facts
<1> HIDE DEF c
<1>4. {c} \in SUBSET Items /\ \A d \in {c} : ~HasFile(item, d)
  BY <1>2
<1> QED
  BY <1>1, <1>3, <1>4, DestroyKeeps

\* What cache_remove() takes has a file that nobody uses.
LEMMA FilesToRemoveIs ==
  ASSUME NEW num, NEW use
  PROVE  /\ FilesToRemove(num, use) \in SUBSET Items
         /\ \A c \in FilesToRemove(num, use) : HasFile(item, c)
<1>1. \A i \in DOMAIN lru : lru[i] \in Items
  BY DEF Items, ToSet
<1> QED
  BY <1>1 DEF FilesToRemove, Named, HasFile

LEMMA RoomForIs ==
  ASSUME NEW size
  PROVE  /\ RoomFor(size) \in SUBSET Items
         /\ \A c \in RoomFor(size) : HasFile(item, c)
BY FilesToRemoveIs DEF RoomFor

LEMMA AssignFailsKeeps ==
  ASSUME IInv, NEW l \in Loc, NEW size, CacheAssignFails(l, size)
  PROVE  IInv'
<1> DEFINE c == DiskItem(l)
           gone == RoomFor(size)
           all == gone \cup {c}
<1>1. /\ phase = "up" /\ Destroy(all)
      /\ item' = [d \in Item |-> IF d \in all THEN Blank ELSE item[d]]
      /\ NoFlush(gone # {}) /\ UNCHANGED <<phase, at_exit, held, loaded>>
  BY DEF CacheAssignFails
<1>2. c \in Items /\ ~HasFile(item, c)
  BY ReservedItem DEF CacheAssignFails
<1>3. gone \in SUBSET Items
  BY RoomForIs
<1> HIDE DEF c, gone
<1>4. all \in SUBSET Items /\ (~(gone # {}) => \A d \in all : ~HasFile(item, d))
  BY <1>2, <1>3
<1>5. (gone # {}) \in BOOLEAN
  OBVIOUS
<1> QED
  BY <1>1, <1>4, <1>5, DestroyKeeps

LEMMA SetupKeeps ==
  ASSUME IInv, CacheSetup
  PROVE  IInv'
<1> DEFINE gone == IF dsk_num > DskLim \/ dsk_use > DskMax
                   THEN FilesToRemove(dsk_num - DskLim, dsk_use - DskMax)
                   ELSE {}
<1>1. /\ phase = "built" /\ phase' = "up" /\ Destroy(gone)
      /\ item' = [c \in Item |-> IF c \in gone THEN Blank ELSE item[c]]
      /\ IF gone # {} THEN FlushAll(fid) ELSE NoFlush(FALSE)
      /\ UNCHANGED <<at_exit, held, loaded>>
  BY DEF CacheSetup
<1>2. gone \in SUBSET Items
  BY FilesToRemoveIs
<1> HIDE DEF gone
<1> QED
  BY <1>1, <1>2, DestroyKeeps

LEMMA ExclusiveKeeps ==
  ASSUME IInv, NEW l \in Loc, CacheExclusive(l)
  PROVE  IInv'
<1> DEFINE c == Min(Free)
           r == [Blank EXCEPT !.Location = l, !.Reffs = 1]
<1>1. /\ phase = "up" /\ DiskItem(l) = Nil
      /\ lru' = <<c>> \o lru
      /\ chain' = [chain EXCEPT ![l] = <<c>> \o chain[l]]
      /\ item' = [item EXCEPT ![c] = r]
      /\ dsk_num' = dsk_num + 1
      /\ NoFlush(FALSE)
      /\ UNCHANGED <<phase, mem_use, mem_num, dsk_use, files, at_exit, held, loaded>>
  BY DEF CacheExclusive
<1>2. c \in Item /\ c \notin Items /\ c \notin loaded /\ held[c] = 0
  BY NewItem DEF CacheExclusive
<1>3. /\ Sound(Items, chain, item, files, fid, mem_use, mem_num, dsk_use, dsk_num)
      /\ Items \in SUBSET Item /\ item \in [Item -> ItemRecord]
      /\ chain \in [Loc -> Seq(Item)]
  BY Facts
<1>4. /\ r \in ItemRecord /\ r.Location = l /\ r.Cached = 0 /\ r.mem = FALSE
      /\ ~r.Object /\ r.Reffs = 1 /\ r.Size = 0
  BY DEF Blank, ItemRecord, NEVER
<1> HIDE DEF c, r
<1>5. lru' \in Seq(Item) /\ IsInjective(lru') /\ Items' = Items \cup {c}
  <2>1. lru \in Seq(Item) /\ IsInjective(lru) /\ c \notin ToSet(lru)
    BY <1>2 DEF IInv, Items
  <2>2. /\ <<c>> \o lru \in Seq(Item) /\ IsInjective(<<c>> \o lru)
        /\ ToSet(<<c>> \o lru) = {c} \cup ToSet(lru)
    BY <1>2, <2>1, Prepended
  <2> QED
    BY <1>1, <2>2 DEF Items
<1>6. /\ item' \in [Item -> ItemRecord] /\ item'[c] = r
      /\ \A d \in Item : d # c => item'[d] = item[d]
  BY <1>1, <1>2, <1>3, <1>4
<1>7. chain' = [m \in Loc |-> IF m = l THEN <<c>> \o chain[m] ELSE chain[m]]
  BY <1>1, <1>3
<1>8. \A d \in Items : OnDisk(item, d) => item[d].Location # l
  BY <1>1, DiskItemIs DEF DiskOf
<1>9. /\ Sound(Items \cup {c}, chain', item', files, fid,
               mem_use, mem_num, dsk_use, dsk_num')
      /\ LinesOf(Items \cup {c}, item') = LinesOf(Items, item)
  <2>1. /\ ~item'[c].Object /\ item'[c].Reffs = 1 /\ item'[c].Size = 0
        /\ item'[c].Location = l /\ item'[c].Cached = 0
        /\ ~item'[c].mem /\ dsk_num' = dsk_num + 1
    BY <1>1, <1>4, <1>6
  <2>2. chain' = Ahead(chain, c, item'[c].Location)
    BY <1>7, <2>1 DEF Ahead
  <2>3. Sound(Items \cup {c}, chain', item', files, fid,
              mem_use, mem_num, dsk_use, dsk_num')
    <3>1. /\ Sound(Items, chain, item, files, fid, mem_use, mem_num, dsk_use, dsk_num)
          /\ c \in Item /\ c \notin Items
          /\ item' \in [Item -> ItemRecord]
          /\ \A d \in Item : d # c => item'[d] = item[d]
          /\ item'[c].Location \in Loc
          /\ \A d \in Items : OnDisk(item, d) => item[d].Location # item'[c].Location
      BY <1>2, <1>3, <1>6, <1>8, <2>1
    <3>2. /\ item'[c].Location \in Loc /\ item'[c].Cached = 0
          /\ ~item'[c].mem =>
               /\ ~item'[c].Object /\ item'[c].Reffs = 1 /\ item'[c].Size = 0
               /\ \A d \in Items : OnDisk(item, d) => item[d].Location # item'[c].Location
          /\ item'[c].mem => /\ mem_use = mem_use + item'[c].Size
                             /\ mem_num = mem_num + 1 /\ dsk_num' = dsk_num
          /\ ~item'[c].mem => /\ mem_use = mem_use /\ mem_num = mem_num
                              /\ dsk_num' = dsk_num + 1
      BY <2>1, <3>1
    <3> QED
      BY ONLY <2>2, <3>1, <3>2, Added, SMTT(30)
  <2>4. ~HasFile(item', c) /\ \A d \in Items : item'[d] = item[d]
    BY <1>2, <1>3, <1>6, <2>1 DEF HasFile
  <2> QED
    BY <2>3, <2>4, LinesAdded
<1>10. Sound(Items', chain', item', files', fid, mem_use', mem_num', dsk_use', dsk_num')
  BY <1>1, <1>5, <1>9
<1>11. Pointed(Items', item', held', loaded')
  <2>1. \A d \in Items : item'[d] = item[d]
    BY <1>2, <1>3, <1>6
  <2>2. Pointed(Items, item, held, loaded)
    BY DEF IInv
  <2> QED
    BY <1>1, <1>2, <1>4, <1>5, <1>6, <2>1, <2>2 DEF Pointed, OnDisk, HasFile
<1>12. Bounded(Items', item', mem_use')
  <2>1. \A d \in Items : item'[d] = item[d]
    BY <1>2, <1>3, <1>6
  <2>2. InMem(Items', item') = InMem(Items, item)
    BY <1>4, <1>5, <1>6, <2>1 DEF InMem
  <2>3. \A d \in InMem(Items, item) : item'[d] = item[d]
    BY <2>1 DEF InMem
  <2> QED
    BY <1>1, <2>2, <2>3 DEF Bounded, IInv
<1>13. /\ {changed', wrote'} \in SUBSET BOOLEAN
       /\ fid' = fid /\ index' = index
       /\ ~changed' => ToSet(index'.lines) = LinesOf(Items', item')
  BY <1>1, <1>5, <1>9, NotFlushed
<1>14. /\ IndexRight(index', files') /\ {changed', at_exit', wrote'} \in SUBSET BOOLEAN
       /\ Sound(Items', chain', item', files', fid',
                mem_use', mem_num', dsk_use', dsk_num')
  BY <1>1, <1>10, <1>13 DEF IInv
<1> QED
  BY <1>1, <1>5, <1>11, <1>12, <1>13, <1>14, Kept

\* Room for an object is made among those that nobody points to; if one of
\* them stays, there is room enough.
LEMMA RoomMade ==
  ASSUME IInv, NEW size \in Nat
  PROVE  LET gone == Throw(Unused, mem_use + size - MemMax)
         IN  /\ gone \in SUBSET InMem(Items, item)
             /\ \A d \in InMem(Items, item) : item[d].Reffs = 0 /\ d \notin gone =>
                  mem_use - Bytes(gone) + size <= MemMax
<1> DEFINE need == mem_use + size - MemMax
           gone == Throw(Unused, need)
<1>1. /\ mem_use \in Nat /\ MemMax \in Nat /\ need \in Int
  BY Facts, CacheAssumption
<1>2. Unused \in SUBSET Items /\ Unused = {d \in InMem(Items, item) : item[d].Reffs = 0}
  BY DEF Unused, MemOf, InMem
<1>3. gone \in SUBSET Unused
  BY ThrowIs
<1>4. gone \in SUBSET Items
  BY <1>2, <1>3
<1> HIDE DEF gone, need
<1>5. Bytes(gone) = Total(SizesOf(item), gone) /\ Bytes(gone) \in Nat
  BY <1>4, SumsOf
<1>6. ASSUME NEW d \in InMem(Items, item), item[d].Reffs = 0, d \notin gone
      PROVE  mem_use - Bytes(gone) + size <= MemMax
  <2>1. d \in Unused
    BY <1>2, <1>6
  <2>2. need <= Total(SizesOf(item), gone)
    BY <1>1, <1>2, <1>6, <2>1, ThrowEnough DEF gone
  <2> QED
    BY <1>1, <1>5, <2>2 DEF need
<1> QED
  BY <1>2, <1>3, <1>6 DEF gone, need

LEMMA InsertKeeps ==
  ASSUME IInv, NEW l \in Loc, NEW ident \in Idents, NEW size \in Sizes,
         NEW unsized \in BOOLEAN, CacheInsert(l, ident, size, unsized)
  PROVE  IInv'
<1> DEFINE c    == Min(Free)
           gone == Throw(Unused, mem_use + size - MemMax)
           loc  == LocalOf(l)
           r    == [Blank EXCEPT !.Location = l, !.mem = TRUE, !.Ident = ident,
                                 !.Object = TRUE, !.Size = size, !.Reffs = 1]
           old  == Cleared(item, gone)
           mid  == [d \in Item |-> IF d = loc /\ unsized
                                   THEN [item[d] EXCEPT !.Ident = LocalId]
                                   ELSE old[d]]
<1>1. /\ phase = "up"
      /\ lru' = <<c>> \o MoveOut(lru, gone)
      /\ chain' = [m \in Loc |-> (IF m = l THEN <<c>> ELSE <<>>) \o MoveOut(chain[m], gone)]
      /\ item' = [d \in Item |->
              CASE d = c -> r
                [] d \in gone -> Blank
                [] d = loc /\ unsized -> [item[d] EXCEPT !.Ident = LocalId]
                [] OTHER -> item[d]]
      /\ mem_use' = mem_use - Bytes(gone) + size
      /\ mem_num' = mem_num - Cardinality(gone) + 1
      /\ held' = [held EXCEPT ![c] = 1]
      /\ NoFlush(unsized /\ InsertChanges(l))
      /\ UNCHANGED <<phase, dsk_use, dsk_num, files, at_exit, loaded>>
  BY DEF CacheInsert
<1>2. c \in Item /\ c \notin Items /\ c \notin loaded /\ held[c] = 0
  BY NewItem DEF CacheInsert
<1>3. /\ Sound(Items, chain, item, files, fid, mem_use, mem_num, dsk_use, dsk_num)
      /\ Items \in SUBSET Item /\ item \in [Item -> ItemRecord]
      /\ chain \in [Loc -> Seq(Item)]
      /\ files \in [Name -> Loc \cup {Nil}]
      /\ {mem_use, mem_num, dsk_use, dsk_num} \in SUBSET Nat
  BY Facts
<1>4. size \in Nat /\ ident \in Nat /\ LocalId \in Nat /\ MaxHeld \in Nat \ {0}
  BY CacheAssumption
<1>5. /\ gone \in SUBSET InMem(Items, item)
      /\ \A d \in InMem(Items, item) : item[d].Reffs = 0 /\ d \notin gone =>
           mem_use - Bytes(gone) + size <= MemMax
  BY <1>4, RoomMade
<1>6. loc # Nil => loc \in Items /\ HasFile(item, loc)
  BY LocalIs
<1>7. /\ r \in ItemRecord /\ r.Location = l /\ r.Cached = 0 /\ r.mem = TRUE
      /\ r.Reffs = 1 /\ r.Size = size
  BY <1>4 DEF Blank, ItemRecord, NEVER
<1> HIDE DEF c, gone, loc, r
<1>8. gone \in SUBSET Items /\ gone \in SUBSET Item /\ InMem(gone, item) = gone
  BY <1>3, <1>5 DEF InMem
<1>9. IsFiniteSet(gone)
  BY <1>8, ItemsFinite
<1>10. /\ Bytes(gone) = Total(SizesOf(item), gone) /\ Bytes(gone) \in Nat
       /\ Cardinality(gone) \in Nat
  BY <1>8, <1>9, SumsOf, FS_CardinalityType
<1>11. /\ gone \ gone = {} /\ Total(SizesOf(item), {}) = 0 /\ Cardinality({}) = 0
  <2>1. IsFiniteSet({}) /\ Cardinality({}) = 0
    BY FS_EmptySet
  <2>2. \A x \in {} : SizesOf(item)[x] \in Nat
    OBVIOUS
  <2>3. Total(SizesOf(item), {}) = 0
    BY ONLY <2>1, <2>2, TotalStep
  <2> QED
    BY <2>1, <2>3
<1>12. UnlinkedBy(item, gone, files) = files
  <2>1. {d \in gone : HasFile(item, d)} = {}
    BY <1>5 DEF InMem, HasFile
  <2> QED
    BY <1>3, <2>1 DEF UnlinkedBy
<1> DEFINE ch2 == [m \in Loc |-> MoveOut(chain[m], gone)]
           V == Items \ gone
<1>13. Sound(V, ch2, old, files, fid,
             mem_use - Bytes(gone), mem_num - Cardinality(gone), dsk_use, dsk_num)
  <2>1. Sound(V, ch2, old, UnlinkedBy(item, gone, files), fid,
              mem_use - Total(SizesOf(item), InMem(gone, item)),
              mem_num - Cardinality(InMem(gone, item)),
              dsk_use - Total(SizesOf(item), gone \ InMem(gone, item)),
              dsk_num - Cardinality(gone \ InMem(gone, item)))
    BY <1>3, <1>8, Destroyed
  <2>2. dsk_use - 0 = dsk_use /\ dsk_num - 0 = dsk_num
    BY <1>3
  <2> QED
    BY <1>8, <1>10, <1>11, <1>12, <2>1, <2>2
<1>14. /\ old \in [Item -> ItemRecord]
       /\ \A d \in Item \ gone : old[d] = item[d]
       /\ \A d \in Item : d \in gone => old[d] = Blank
  BY <1>3, ClearedItems
<1>15. loc # Nil => loc \in V /\ HasFile(old, loc) /\ old[loc] = item[loc]
  <2>1. loc # Nil => loc \notin gone /\ loc \in Item
    BY <1>3, <1>5, <1>6 DEF InMem, HasFile
  <2> QED
    BY <1>6, <1>14, <2>1 DEF HasFile
<1>16. Nil \notin Item
  BY CacheAssumption
<1> HIDE DEF old
<1>17. \A d \in Item : /\ mid[d] \in ItemRecord
                       /\ mid[d].Location = old[d].Location
                       /\ mid[d].mem = old[d].mem
                       /\ mid[d].Cached = old[d].Cached
                       /\ mid[d].Size = old[d].Size
                       /\ mid[d].Reffs = old[d].Reffs
                       /\ mid[d].Object = old[d].Object
  <2> SUFFICES ASSUME NEW d \in Item
               PROVE  /\ mid[d] \in ItemRecord
                      /\ mid[d].Location = old[d].Location
                      /\ mid[d].mem = old[d].mem
                      /\ mid[d].Cached = old[d].Cached
                      /\ mid[d].Size = old[d].Size
                      /\ mid[d].Reffs = old[d].Reffs
                      /\ mid[d].Object = old[d].Object
    OBVIOUS
  <2>1. CASE d = loc /\ unsized
    <3>1. mid[d] = [old[d] EXCEPT !.Ident = LocalId]
      BY <1>15, <1>16, <2>1
    <3>2. old[d] \in ItemRecord
      BY <1>14
    <3> HIDE DEF mid
    <3> QED
      BY <1>4, <3>1, <3>2 DEF ItemRecord
  <2>2. CASE ~(d = loc /\ unsized)
    <3>1. mid[d] = old[d]
      BY <2>2
    <3> QED
      BY <1>14, <3>1
  <2> QED
    BY <2>1, <2>2
<1>18. \A d \in Item : ~(d = loc /\ unsized) => mid[d] = old[d]
  OBVIOUS
<1>19. mid \in [Item -> ItemRecord]
  BY <1>17
<1>20. /\ item'[c] = r /\ \A d \in Item : d # c => item'[d] = mid[d]
       /\ item' \in [Item -> ItemRecord]
  <2>1. item'[c] = r
    <3>1. c \notin gone /\ c # loc
      BY <1>2, <1>6, <1>8, <1>16
    <3> QED
      BY <1>1, <1>2, <3>1
  <2>2. ASSUME NEW d \in Item, d # c
        PROVE  item'[d] = mid[d]
    <3>1. CASE d \in gone
      <4>2. d # loc
        BY <1>15, <1>16, <3>1 DEF V
      <4>1. item'[d] = Blank
        BY <1>1, <2>2, <3>1, <4>2
      <4> QED
        BY <1>14, <3>1, <4>1, <4>2
    <3>2. CASE d \notin gone /\ d = loc /\ unsized
      <4>1. item'[d] = [item[d] EXCEPT !.Ident = LocalId]
        BY <1>1, <2>2, <3>2
      <4> QED
        BY <3>2, <4>1
    <3>3. CASE d \notin gone /\ ~(d = loc /\ unsized)
      <4>1. item'[d] = item[d]
        BY <1>1, <2>2, <3>3
      <4> QED
        BY <1>14, <3>3, <4>1
    <3> QED
      BY <3>1, <3>2, <3>3
  <2> HIDE DEF mid
  <2>3. \A d \in Item : item'[d] \in ItemRecord
    BY <1>7, <1>19, <2>1, <2>2
  <2>4. item' = [d \in Item |-> item'[d]]
    BY <1>1
  <2> QED
    BY <2>1, <2>2, <2>3, <2>4
<1> HIDE DEF mid, ch2, V
<1>21. Sound(V, ch2, mid, files, fid,
             mem_use - Bytes(gone), mem_num - Cardinality(gone), dsk_use, dsk_num)
  <2>1. \A d \in Item \ V : mid[d] = old[d]
    BY <1>15, <1>16, <1>18
  <2>2. V \in SUBSET Item
    BY <1>3 DEF V
  <2>3. \A d \in V : /\ mid[d].Location = old[d].Location
                     /\ mid[d].mem = old[d].mem
                     /\ mid[d].Cached = old[d].Cached
                     /\ mid[d].Size = old[d].Size
                     /\ OnDisk(old, d) /\ old[d].Cached = 0 =>
                          ~mid[d].Object /\ mid[d].Reffs = 1
    BY <1>13, <1>17, <2>2 DEF Sound, ItemsRight
  <2> QED
    BY ONLY <1>13, <1>19, <2>1, <2>3, Touched
<1>22. c \notin V /\ V \in SUBSET Item /\ c \notin gone
  BY <1>2, <1>3, <1>8 DEF V
<1>23. lru' \in Seq(Item) /\ IsInjective(lru') /\ Items' = V \cup {c}
  <2>1. lru \in Seq(Item) /\ IsInjective(lru)
    BY DEF IInv
  <2>2. /\ MoveOut(lru, gone) \in Seq(Item) /\ IsInjective(MoveOut(lru, gone))
        /\ ToSet(MoveOut(lru, gone)) = V
    BY <2>1, MoveOutElements, MoveOutKeeps DEF V, Items
  <2>3. /\ <<c>> \o MoveOut(lru, gone) \in Seq(Item)
        /\ IsInjective(<<c>> \o MoveOut(lru, gone))
        /\ ToSet(<<c>> \o MoveOut(lru, gone)) = {c} \cup V
    BY <1>2, <1>22, <2>2, Prepended
  <2> QED
    BY <1>1, <2>3 DEF Items
<1>24. chain' = [m \in Loc |-> IF m = l THEN <<c>> \o ch2[m] ELSE ch2[m]]
  <2>1. \A m \in Loc : ch2[m] = MoveOut(chain[m], gone) /\ ch2[m] \in Seq(Item)
    BY <1>3, MoveOutElements DEF ch2
  <2>2. \A m \in Loc : <<>> \o ch2[m] = ch2[m]
    BY <2>1, ConcatEmptySeq
  <2>3. \A m \in Loc : (IF m = l THEN <<c>> ELSE <<>>) \o MoveOut(chain[m], gone)
                       = IF m = l THEN <<c>> \o ch2[m] ELSE ch2[m]
    BY <2>1, <2>2
  <2> QED
    BY <1>1, <2>3
<1>25. /\ Sound(V \cup {c}, chain', item', files, fid,
                mem_use', mem_num', dsk_use, dsk_num)
       /\ LinesOf(V \cup {c}, item') = LinesOf(V, mid)
  <2>1. /\ item'[c].mem /\ item'[c].Location = l /\ item'[c].Cached = 0
        /\ mem_use' = (mem_use - Bytes(gone)) + item'[c].Size
        /\ mem_num' = (mem_num - Cardinality(gone)) + 1
    BY <1>1, <1>7, <1>20
  <2>2. chain' = Ahead(ch2, c, item'[c].Location)
    BY <1>24, <2>1 DEF Ahead
  <2>3. Sound(V \cup {c}, chain', item', files, fid,
              mem_use', mem_num', dsk_use, dsk_num)
    BY ONLY <1>2, <1>20, <1>21, <1>22, <2>1, <2>2, l \in Loc, Added
  <2>4. ~HasFile(item', c) /\ \A d \in V : item'[d] = mid[d]
    BY <1>20, <1>22, <2>1 DEF HasFile
  <2> QED
    BY <2>3, <2>4, LinesAdded
<1>26. Sound(Items', chain', item', files', fid, mem_use', mem_num', dsk_use', dsk_num')
  BY <1>1, <1>23, <1>25
<1>27. \A d \in V : d # c /\ item'[d] = mid[d] /\ d \in Item /\ d \in Items
                    /\ old[d] = item[d]
  BY <1>3, <1>14, <1>20, <1>22 DEF V
<1>28. \A d \in V : /\ item'[d].mem = item[d].mem
                    /\ item'[d].Cached = item[d].Cached
                    /\ item'[d].Reffs = item[d].Reffs
  BY <1>17, <1>27
<1>29. Pointed(Items', item', held', loaded')
  <2>1. Pointed(Items, item, held, loaded)
    BY DEF IInv
  <2>2. /\ held' \in [Item -> 0 .. MaxHeld] /\ held'[c] = 1
        /\ \A d \in Item : d # c => held'[d] = held[d]
    BY <1>1, <1>2, <1>4, <2>1 DEF Pointed
  <2>3. \A d \in V : /\ item'[d].mem => held'[d] <= item'[d].Reffs
                     /\ OnDisk(item', d) /\ item'[d].Cached = 0 => held'[d] = 0
                     /\ d \in loaded' => HasFile(item', d)
    BY <1>1, <1>27, <1>28, <2>1, <2>2 DEF Pointed, OnDisk, HasFile
  <2>4. /\ item'[c].mem => held'[c] <= item'[c].Reffs
        /\ OnDisk(item', c) /\ item'[c].Cached = 0 => held'[c] = 0
        /\ c \in loaded' => HasFile(item', c)
    <3>1. ~OnDisk(item', c) /\ c \notin loaded' /\ held'[c] = item'[c].Reffs
      BY <1>1, <1>2, <1>7, <1>20, <2>2 DEF OnDisk
    <3> QED
      BY <1>4, <2>2, <3>1
  <2> QED
    BY <1>1, <1>23, <2>1, <2>2, <2>3, <2>4 DEF Pointed
<1>30. Bounded(Items', item', mem_use')
  <2> SUFFICES ASSUME mem_use' > MemMax,
                      NEW d \in InMem(Items', item'), item'[d].Reffs = 0
               PROVE  FALSE
    BY DEF Bounded
  <2>1. d # c /\ d \in V
    BY <1>7, <1>20, <1>23 DEF InMem
  <2>2. d \in InMem(Items, item) /\ item[d].Reffs = 0 /\ d \notin gone
    BY <1>27, <1>28, <2>1 DEF InMem, V
  <2>3. mem_use - Bytes(gone) + size <= MemMax
    BY <1>5, <2>2
  <2>4. mem_use \in Nat /\ MemMax \in Nat
    BY <1>3, CacheAssumption
  <2> QED
    BY <1>1, <1>4, <1>10, <2>3, <2>4
<1>31. ~(unsized /\ InsertChanges(l)) => LinesOf(Items', item') = LinesOf(Items, item)
  <2> SUFFICES ASSUME ~(unsized /\ InsertChanges(l))
               PROVE  LinesOf(Items', item') = LinesOf(Items, item)
    OBVIOUS
  <2>1. \A d \in V : mid[d] = old[d]
    BY <1>16, <1>18, <1>22 DEF InsertChanges, loc
  <2>2. {d \in V : HasFile(mid, d)} = {d \in Items : HasFile(item, d)}
    BY <1>5, <1>27, <2>1 DEF HasFile, InMem, V
  <2>3. \A d \in V : mid[d] = item[d]
    BY <1>27, <2>1
  <2>4. LinesOf(V, mid) = LinesOf(Items, item)
    BY <2>2, <2>3 DEF LinesOf
  <2> QED
    BY <1>23, <1>25, <2>4
<1>32. /\ {changed', wrote'} \in SUBSET BOOLEAN
       /\ fid' = fid /\ index' = index
       /\ ~changed' => ToSet(index'.lines) = LinesOf(Items', item')
  <2>1. (unsized /\ InsertChanges(l)) \in BOOLEAN
    BY DEF InsertChanges
  <2> QED
    BY <1>1, <1>31, <2>1, NotFlushed
<1>33. /\ IndexRight(index', files') /\ {changed', at_exit', wrote'} \in SUBSET BOOLEAN
       /\ Sound(Items', chain', item', files', fid',
                mem_use', mem_num', dsk_use', dsk_num')
  BY <1>1, <1>26, <1>32 DEF IInv
<1> QED
  BY <1>1, <1>23, <1>29, <1>30, <1>32, <1>33, Kept

LEMMA AssignKeeps ==
  ASSUME IInv, NEW l \in Loc, NEW size \in Sizes, NEW expires \in Dates,
         CacheAssign(l, size, expires)
  PROVE  IInv'
<1> DEFINE c    == DiskItem(l)
           gone == RoomFor(size)
           r    == [item[c] EXCEPT !.Object = TRUE, !.Size = size,
                                   !.Expires = expires, !.Cached = fid,
                                   !.Reffs = item[c].Reffs - 1]
           old  == Cleared(item, gone)
           V    == Items \ gone
           ch2  == [m \in Loc |-> MoveOut(chain[m], gone)]
           fl1  == UnlinkedBy(item, gone, files)
<1>1. /\ phase = "up" /\ fid <= MaxFid
      /\ lru' = MoveOut(lru, gone)
      /\ chain' = ch2
      /\ item' = [d \in Item |->
              CASE d = c -> r
                [] d \in gone -> Blank
                [] OTHER -> item[d]]
      /\ dsk_use' = dsk_use - Bytes(gone) + size
      /\ dsk_num' = dsk_num - Cardinality(gone)
      /\ files' = [Unlinked(NamesOf(gone)) EXCEPT ![fid] = l]
      /\ loaded' = loaded \cup {c}
      /\ IF changed \/ gone # {} THEN FlushAll(fid + 1) ELSE FlushItem(c, fid + 1)
      /\ UNCHANGED <<phase, mem_use, mem_num, at_exit, held>>
  BY DEF CacheAssign, Assigned
<1>2. /\ c \in Items /\ c \in Item /\ item[c].Location = l
      /\ OnDisk(item, c) /\ item[c].Cached = 0 /\ item[c].Reffs = 1
      /\ ~HasFile(item, c)
  BY ReservedItem DEF CacheAssign
<1>3. /\ Sound(Items, chain, item, files, fid, mem_use, mem_num, dsk_use, dsk_num)
      /\ Items \in SUBSET Item /\ item \in [Item -> ItemRecord]
      /\ chain \in [Loc -> Seq(Item)] /\ files \in [Name -> Loc \cup {Nil}]
      /\ fid \in 1 .. MaxFid + 1
      /\ {mem_use, mem_num, dsk_use, dsk_num} \in SUBSET Nat
  BY Facts
<1>4. /\ size \in Nat /\ expires \in {NEVER, AT_EXIT, LATER}
      /\ fid \in Name /\ MaxFid \in Nat
  BY <1>1, <1>3, CacheAssumption DEF Name
<1>5. gone \in SUBSET Items /\ gone \in SUBSET Item /\ \A d \in gone : HasFile(item, d)
  BY <1>3, RoomForIs
<1> HIDE DEF c, gone
<1>6. c \notin gone
  BY <1>2, <1>5
<1>7. /\ r \in ItemRecord /\ r.Location = l /\ r.mem = FALSE /\ r.Cached = fid
      /\ r.Size = size
  <2>1. item[c] \in ItemRecord
    BY <1>2, <1>3
  <2>2. item[c].mem = FALSE /\ item[c].Reffs - 1 \in Nat
    BY <1>2, <2>1 DEF OnDisk, ItemRecord
  <2> QED
    BY <1>2, <1>4, <2>1, <2>2 DEF ItemRecord
<1> HIDE DEF r
<1>8. /\ old \in [Item -> ItemRecord]
      /\ \A d \in Item \ gone : old[d] = item[d]
      /\ \A d \in Item : d \in gone => old[d] = Blank
  BY <1>3, ClearedItems
<1>9. InMem(gone, item) = {} /\ gone \ InMem(gone, item) = gone
  BY <1>5 DEF InMem, HasFile
<1>10. /\ Bytes(gone) = Total(SizesOf(item), gone) /\ Bytes(gone) \in Nat
       /\ Unlinked(NamesOf(gone)) = fl1
       /\ Total(SizesOf(item), {}) = 0 /\ Cardinality({}) = 0
  <2>1. IsFiniteSet({}) /\ Cardinality({}) = 0
    BY FS_EmptySet
  <2>2. \A x \in {} : SizesOf(item)[x] \in Nat
    OBVIOUS
  <2>3. Total(SizesOf(item), {}) = 0
    BY ONLY <2>1, <2>2, TotalStep
  <2> QED
    BY <1>5, <2>1, <2>3, SumsOf
<1> HIDE DEF old, V, ch2, fl1
<1>11. Sound(V, ch2, old, fl1, fid, mem_use, mem_num,
             dsk_use - Bytes(gone), dsk_num - Cardinality(gone))
  <2>1. Sound(V, ch2, old, fl1, fid,
              mem_use - Total(SizesOf(item), InMem(gone, item)),
              mem_num - Cardinality(InMem(gone, item)),
              dsk_use - Total(SizesOf(item), gone \ InMem(gone, item)),
              dsk_num - Cardinality(gone \ InMem(gone, item)))
    BY <1>3, <1>5, Destroyed DEF V, ch2, old, fl1
  <2>2. mem_use - 0 = mem_use /\ mem_num - 0 = mem_num
    BY <1>3
  <2> QED
    BY <1>9, <1>10, <2>1, <2>2
<1>12. c \in V /\ V \in SUBSET Item /\ old[c] = item[c]
  BY <1>2, <1>3, <1>6, <1>8 DEF V
<1>13. /\ item'[c] = r /\ \A d \in Item : d # c => item'[d] = old[d]
       /\ item' \in [Item -> ItemRecord]
  <2>1. item'[c] = r
    BY <1>1, <1>2, <1>6
  <2>2. ASSUME NEW d \in Item, d # c
        PROVE  item'[d] = old[d]
    <3>1. CASE d \in gone
      BY <1>1, <1>8, <2>2, <3>1
    <3>2. CASE d \notin gone
      BY <1>1, <1>8, <2>2, <3>2
    <3> QED
      BY <3>1, <3>2
  <2>3. \A d \in Item : item'[d] \in ItemRecord
    BY <1>7, <1>8, <2>1, <2>2
  <2>4. item' = [d \in Item |-> item'[d]]
    BY <1>1
  <2> QED
    BY <2>1, <2>2, <2>3, <2>4
<1>14. lru' \in Seq(Item) /\ IsInjective(lru') /\ Items' = V
  <2>1. lru \in Seq(Item) /\ IsInjective(lru)
    BY DEF IInv
  <2>2. /\ MoveOut(lru, gone) \in Seq(Item) /\ IsInjective(MoveOut(lru, gone))
        /\ ToSet(MoveOut(lru, gone)) = V
    BY <2>1, MoveOutElements, MoveOutKeeps DEF V, Items
  <2> QED
    BY <1>1, <2>2 DEF Items
<1>15. Sound(V, chain', item', files', fid + 1, mem_use', mem_num', dsk_use', dsk_num')
  <2>1. /\ OnDisk(old, c) /\ old[c].Cached = 0
        /\ item'[c].Location = old[c].Location /\ ~item'[c].mem
        /\ item'[c].Cached = fid /\ item'[c].Size = size
    BY <1>2, <1>7, <1>12, <1>13 DEF OnDisk
  <2>2. files' = [fl1 EXCEPT ![fid] = old[c].Location]
    BY <1>1, <1>2, <1>10, <1>12
  <2>3. Sound(V, ch2, item', files', fid + 1, mem_use, mem_num,
              (dsk_use - Bytes(gone)) + item'[c].Size, dsk_num - Cardinality(gone))
    BY ONLY <1>4, <1>11, <1>12, <1>13, <2>1, <2>2, Filed
  <2> QED
    BY <1>1, <2>1, <2>3
<1>16. HasFile(item', c)
  BY <1>4, <1>7, <1>13 DEF HasFile, Name
<1>17. \A d \in V : d # c => item'[d] = item[d] /\ d \in Items /\ d \in Item
  BY <1>3, <1>8, <1>12, <1>13 DEF V
<1>18. Pointed(Items', item', held', loaded')
  <2>1. Pointed(Items, item, held, loaded)
    BY DEF IInv
  <2>2. \A d \in V : d # c =>
          /\ item'[d].mem => held'[d] <= item'[d].Reffs
          /\ OnDisk(item', d) /\ item'[d].Cached = 0 => held'[d] = 0
          /\ d \in loaded' => HasFile(item', d)
    BY <1>1, <1>17, <2>1 DEF Pointed, OnDisk, HasFile
  <2>3. ~item'[c].mem /\ ~(OnDisk(item', c) /\ item'[c].Cached = 0)
    BY <1>16 DEF HasFile
  <2>4. held' = held /\ loaded' \in SUBSET Item
    BY <1>1, <1>2, <2>1 DEF Pointed
  <2> QED
    BY <1>14, <1>16, <2>1, <2>2, <2>3, <2>4 DEF Pointed
<1>19. Bounded(Items', item', mem_use')
  <2>1. \A d \in InMem(V, item') : d \in InMem(Items, item) /\ item'[d] = item[d]
    BY <1>7, <1>13, <1>17 DEF InMem
  <2> QED
    BY <1>1, <1>14, <2>1 DEF Bounded, IInv
<1>20. CASE changed \/ gone # {}
  <2>1. FlushAll(fid + 1)
    BY <1>1, <1>20
  <2>2. /\ ItemsRight(Items', item') /\ Distinct(Items', item')
        /\ CountsRight(Items', item', mem_use', mem_num', dsk_use', dsk_num')
        /\ FilesRight(Items', item', files', fid + 1)
        /\ Chained(Items', chain', item')
    BY <1>14, <1>15 DEF Sound
  <2>3. /\ FilesRight(Items', item', files', fid')
        /\ IndexRight(index', files')
        /\ ToSet(index'.lines) = LinesOf(Items', item')
        /\ {changed', wrote'} \in SUBSET BOOLEAN
    BY <1>14, <2>1, <2>2, Flushed
  <2>4. /\ {changed', at_exit', wrote'} \in SUBSET BOOLEAN
        /\ Sound(Items', chain', item', files', fid',
                 mem_use', mem_num', dsk_use', dsk_num')
    BY <1>1, <2>2, <2>3 DEF IInv, Sound
  <2> QED
    BY <1>1, <1>14, <1>18, <1>19, <2>3, <2>4, Kept
<1>21. CASE ~(changed \/ gone # {})
  <2> DEFINE x == Append(index.lines, LineOf(item'[c]))
  <2>1. /\ fid' = fid + 1 /\ index' = [fid |-> fid + 1, lines |-> x]
        /\ changed' = FALSE /\ wrote' = FALSE
    BY <1>1, <1>21 DEF FlushItem
  <2>2. V = Items
    BY <1>21 DEF V
  <2>3. /\ index.lines \in Seq(Line)
        /\ ToSet(index.lines) = LinesOf(Items, item)
        /\ \A i, k \in DOMAIN index.lines :
             i # k => index.lines[i].Location # index.lines[k].Location
    BY <1>1, <1>21 DEF IInv, IndexRight
  <2>4. LinesOf(Items \ {c}, item') = LinesOf(Items, item)
    BY <1>2, <1>17, <2>2, LinesOfOthers
  <2>5. /\ ItemsRight(Items, item') /\ Distinct(Items, item')
        /\ FilesRight(Items, item', files', fid + 1)
    BY <1>15, <2>2 DEF Sound
  <2>6. /\ IndexRight([fid |-> fid + 1, lines |-> x], files')
        /\ ToSet(x) = LinesOf(Items, item')
    BY <1>2, <1>16, <2>3, <2>4, <2>5, LineAppended
  <2> HIDE DEF x
  <2>7. index'.lines = x
    BY <2>1
  <2>8. /\ IndexRight(index', files')
        /\ ToSet(index'.lines) = LinesOf(Items', item')
        /\ {changed', at_exit', wrote'} \in SUBSET BOOLEAN
        /\ Sound(Items', chain', item', files', fid',
                 mem_use', mem_num', dsk_use', dsk_num')
    BY <1>1, <1>14, <1>15, <2>1, <2>2, <2>6, <2>7 DEF IInv
  <2> QED
    BY <1>1, <1>14, <1>18, <1>19, <2>8, Kept
<1> QED
  BY <1>20, <1>21

\* Before and after a session the cache is empty.
LEMMA EmptySound ==
  ASSUME NEW fl \in [Name -> Loc \cup {Nil}]
  PROVE  /\ Sound({}, [l \in Loc |-> <<>>], [c \in Item |-> Blank], fl, 1, 0, 0, 0, 0)
         /\ Pointed({}, [c \in Item |-> Blank], [c \in Item |-> 0], {})
         /\ Bounded({}, [c \in Item |-> Blank], 0)
         /\ <<>> \in Seq(Item) /\ IsInjective(<<>>) /\ ToSet(<<>>) = {}
<1> DEFINE it == [c \in Item |-> Blank]
           ch == [l \in Loc |-> <<>>]
<1>1. it \in [Item -> ItemRecord] /\ \A c \in Item : it[c] = Blank
  BY DEF Blank, ItemRecord, NEVER
<1> HIDE DEF it
<1>2. <<>> \in Seq(Item) /\ IsInjective(<<>>) /\ ToSet(<<>>) = {}
  BY DEF IsInjective, ToSet
<1>3. Chained({}, ch, it)
  BY <1>2 DEF Chained
<1>4. IsFiniteSet({}) /\ Cardinality({}) = 0
  BY FS_EmptySet
<1>5. InMem({}, it) = {} /\ {} \ {} = {}
  BY DEF InMem
<1>6. Total(SizesOf(it), {}) = 0
  <2>1. \A x \in {} : SizesOf(it)[x] \in Nat
    OBVIOUS
  <2> QED
    BY ONLY <1>4, <2>1, TotalStep
<1>7. CountsRight({}, it, 0, 0, 0, 0)
  BY <1>4, <1>5, <1>6 DEF CountsRight
<1>8. ItemsRight({}, it) /\ Distinct({}, it)
  BY <1>1 DEF ItemsRight, Distinct
<1>9. FilesRight({}, it, fl, 1)
  BY CacheAssumption DEF FilesRight
<1>10. Pointed({}, it, [c \in Item |-> 0], {})
  BY CacheAssumption DEF Pointed
<1>11. Bounded({}, it, 0)
  BY <1>5 DEF Bounded
<1> QED
  BY <1>2, <1>3, <1>7, <1>8, <1>9, <1>10, <1>11 DEF Sound, it

LEMMA InitEstablishes == Init => IInv
<1> SUFFICES ASSUME Init
             PROVE  IInv
  OBVIOUS
<1>1. files \in [Name -> Loc \cup {Nil}]
  BY DEF Init
<1>2. /\ Sound({}, [l \in Loc |-> <<>>], [c \in Item |-> Blank], files, 1, 0, 0, 0, 0)
      /\ Pointed({}, [c \in Item |-> Blank], [c \in Item |-> 0], {})
      /\ Bounded({}, [c \in Item |-> Blank], 0)
      /\ <<>> \in Seq(Item) /\ IsInjective(<<>>) /\ ToSet(<<>>) = {}
  BY <1>1, EmptySound
<1>3. /\ phase = "down" /\ lru = <<>> /\ chain = [l \in Loc |-> <<>>]
      /\ item = [c \in Item |-> Blank]
      /\ mem_use = 0 /\ mem_num = 0 /\ dsk_use = 0 /\ dsk_num = 0
      /\ changed = FALSE /\ fid = 1 /\ at_exit = FALSE /\ wrote = FALSE
      /\ index = NoIndex /\ held = [c \in Item |-> 0] /\ loaded = {}
  BY DEF Init, Empty
<1>4. Items = {}
  BY <1>2, <1>3 DEF Items
<1>5. IndexRight(index, files)
  <2>1. /\ index.fid = 0 /\ index.lines = <<>> /\ Len(<<>>) = 0 /\ DOMAIN <<>> = {}
        /\ index \in [fid : 0 .. MaxFid + 1, lines : Seq(Line)]
    BY <1>3, CacheAssumption DEF NoIndex
  <2> QED
    BY <2>1, CacheAssumption DEF IndexRight
<1>6. Sound(Items, chain, item, files, fid, mem_use, mem_num, dsk_use, dsk_num)
  BY <1>2, <1>3, <1>4
<1> QED
  BY <1>2, <1>3, <1>4, <1>5, <1>6 DEF IInv, Sound

LEMMA ForgetKeeps ==
  ASSUME Forget, files' \in [Name -> Loc \cup {Nil}], IndexRight(index', files')
  PROVE  IInv'
<1>1. /\ Sound({}, [l \in Loc |-> <<>>], [c \in Item |-> Blank], files', 1, 0, 0, 0, 0)
      /\ Pointed({}, [c \in Item |-> Blank], [c \in Item |-> 0], {})
      /\ Bounded({}, [c \in Item |-> Blank], 0)
      /\ <<>> \in Seq(Item) /\ IsInjective(<<>>) /\ ToSet(<<>>) = {}
  BY EmptySound
<1>2. /\ phase' = "down" /\ lru' = <<>> /\ chain' = [l \in Loc |-> <<>>]
      /\ item' = [c \in Item |-> Blank]
      /\ mem_use' = 0 /\ mem_num' = 0 /\ dsk_use' = 0 /\ dsk_num' = 0
      /\ changed' = FALSE /\ fid' = 1 /\ at_exit' = FALSE /\ wrote' = FALSE
      /\ held' = [c \in Item |-> 0] /\ loaded' = {}
  BY DEF Forget
<1>3. Items' = {}
  BY <1>1, <1>2 DEF Items
<1>4. Sound(Items', chain', item', files', fid', mem_use', mem_num', dsk_use', dsk_num')
  BY <1>1, <1>2, <1>3
<1> QED
  BY <1>1, <1>2, <1>3, <1>4 DEF IInv, Sound

\* The lines of a list depend on its items alone.
LEMMA LinesDepend ==
  ASSUME NEW q \in Seq(Item), NEW it, NEW new, \A c \in ToSet(q) : it[c] = new[c]
  PROVE  Lines(q, it) = Lines(q, new)
<1> DEFINE u(f) == {c \in ToSet(q) : f[c].mem \/ f[c].Cached = 0}
           r == MoveOut(Reverse(q), u(it))
<1>1. u(it) = u(new)
  OBVIOUS
<1>2. Reverse(q) \in Seq(Item) /\ ToSet(Reverse(q)) = ToSet(q)
  BY Reversed
<1> HIDE DEF u
<1>3. ToSet(r) \in SUBSET ToSet(q)
  BY <1>2, MoveOutElements
<1> HIDE DEF r
<1>4. \A k \in DOMAIN r : r[k] \in ToSet(q)
  BY <1>3 DEF ToSet
<1>5. [k \in DOMAIN r |-> LineOf(it[r[k]])] = [k \in DOMAIN r |-> LineOf(new[r[k]])]
  BY <1>4
<1>6. Lines(q, it) = [k \in DOMAIN r |-> LineOf(it[r[k]])]
  BY DEF Lines, u, r
<1>7. Lines(q, new) = [k \in DOMAIN r |-> LineOf(new[r[k]])]
  <2>1. r = MoveOut(Reverse(q), u(new))
    BY <1>1 DEF r
  <2> QED
    BY <2>1 DEF Lines, u
<1> QED
  BY <1>5, <1>6, <1>7

LEMMA ExitKeeps ==
  ASSUME IInv, NEW late \in SUBSET Dated(LATER), Exit(late)
  PROVE  IInv'
<1> DEFINE gone == IF at_exit THEN ExpiredAtExit(late) ELSE {}
           left == MoveOut(lru, gone)
           old  == Cleared(item, gone)
           V    == Items \ gone
           ch2  == [m \in Loc |-> MoveOut(chain[m], gone)]
           n    == IF dsk_num = Cardinality(gone) THEN 1 ELSE fid
           q    == Lines(left, item)
<1>1. /\ files' = Unlinked(NamesOf(gone))
      /\ index' = IF at_exit /\ (changed \/ NamesOf(gone) # {})
                  THEN [fid |-> n, lines |-> q] ELSE index
      /\ Forget
  BY DEF Exit
<1>2. gone \in SUBSET Items /\ \A c \in gone : ~item[c].mem
  <2>1. \A c \in ExpiredAtExit(late) : ~item[c].mem /\ c \in Dated(AT_EXIT) \cup late
    BY DEF ExpiredAtExit
  <2> QED
    BY <2>1 DEF Dated
<1> HIDE DEF gone
<1>3. /\ Sound(Items, chain, item, files, fid, mem_use, mem_num, dsk_use, dsk_num)
      /\ Items \in SUBSET Item /\ item \in [Item -> ItemRecord]
      /\ files \in [Name -> Loc \cup {Nil}] /\ dsk_num \in Nat
      /\ lru \in Seq(Item) /\ IsInjective(lru)
  BY Facts DEF IInv
<1>4. files' = UnlinkedBy(item, gone, files)
  BY <1>1, <1>2, SumsOf
<1>5. files' \in [Name -> Loc \cup {Nil}] /\ IndexRight(index, files')
  BY <1>3, <1>4, UnlinkedFiles, IndexUnlinked DEF IInv
<1>6. IndexRight([fid |-> n, lines |-> q], files')
  <2>1. gone \ InMem(gone, item) = gone
    BY <1>2 DEF InMem
  <2>2. Sound(V, ch2, old, files', fid,
              mem_use - Total(SizesOf(item), InMem(gone, item)),
              mem_num - Cardinality(InMem(gone, item)),
              dsk_use - Total(SizesOf(item), gone \ InMem(gone, item)),
              dsk_num - Cardinality(gone \ InMem(gone, item)))
    BY <1>2, <1>3, <1>4, Destroyed
  <2>3. /\ left \in Seq(Item) /\ IsInjective(left) /\ ToSet(left) = V
    BY <1>3, MoveOutElements, MoveOutKeeps DEF Items
  <2>4. \A c \in V : item[c] = old[c]
    BY <1>3, ClearedItems
  <2> HIDE DEF left, old, n, ch2, V
  <2>5. q = Lines(left, old)
    BY <2>3, <2>4, LinesDepend
  <2>6. ItemsRight(V, old) /\ Distinct(V, old) /\ FilesRight(V, old, files', fid)
    BY <2>2 DEF Sound
  <2>7. dsk_num - Cardinality(gone) = Cardinality(V \ InMem(V, old))
    BY <2>1, <2>2 DEF Sound, CountsRight
  <2>8. FilesRight(V, old, files', n)
    <3>1. CASE dsk_num = Cardinality(gone)
      <4>1. V \ InMem(V, old) \in SUBSET Item
        BY <2>6 DEF ItemsRight
      <4>2. IsFiniteSet(V \ InMem(V, old)) /\ Cardinality(V \ InMem(V, old)) = 0
        BY <1>3, <2>7, <3>1, <4>1, ItemsFinite
      <4>3. V \ InMem(V, old) = {}
        BY <4>2, FS_EmptySet
      <4>4. \A c \in V : ~HasFile(old, c)
        BY <4>3 DEF InMem, HasFile
      <4>5. n \in 1 .. MaxFid + 1
        BY <3>1, CacheAssumption DEF n
      <4> QED
        BY <1>5, <4>4, <4>5 DEF FilesRight
    <3>2. CASE dsk_num # Cardinality(gone)
      BY <2>6, <3>2 DEF n
    <3> QED
      BY <3>1, <3>2
  <2>9. /\ Lines(left, old) \in Seq(Line)
        /\ ToSet(Lines(left, old)) = LinesOf(V, old)
        /\ \A i, k \in DOMAIN Lines(left, old) :
             i # k => Lines(left, old)[i].Location # Lines(left, old)[k].Location
    BY <2>3, <2>6, LinesListed
  <2>10. IndexRight([fid |-> n, lines |-> Lines(left, old)], files')
    BY ONLY <2>6, <2>8, <2>9, IndexOfItems
  <2> QED
    BY <2>5, <2>10
<1>7. IndexRight(index', files')
  <2>1. index' = [fid |-> n, lines |-> q] \/ index' = index
    BY <1>1
  <2> QED
    BY <1>5, <1>6, <2>1
<1> QED
  BY <1>1, <1>5, <1>7, ForgetKeeps

\* What a crash leaves of cache.idx can be read.
LEMMA CrashKeeps ==
  ASSUME IInv, NEW n \in -1 .. Len(index.lines), Crash(n)
  PROVE  IInv'
<1> DEFINE q == index.lines
           s == SubSeq(q, 1, n)
<1>1. /\ index' = IF n = -1 THEN NoIndex ELSE [index EXCEPT !.lines = s]
      /\ files' = files /\ Forget
  BY DEF Crash
<1>2. files \in [Name -> Loc \cup {Nil}]
  BY Facts
<1>3. /\ index \in [fid : 0 .. MaxFid + 1, lines : Seq(Line)]
      /\ q \in Seq(Line) /\ Len(q) <= MaxItems
      /\ index.fid = 0 => q = <<>>
      /\ \A k \in DOMAIN q : /\ q[k].Cached < index.fid
                             /\ files[q[k].Cached] \in {q[k].Location, Nil}
      /\ \A i, k \in DOMAIN q : i # k => /\ q[i].Location # q[k].Location
                                         /\ q[i].Cached # q[k].Cached
  BY DEF IInv, IndexRight
<1>4. Len(q) \in Nat /\ DOMAIN q = 1 .. Len(q) /\ MaxItems \in Nat
  BY <1>3, LenProperties, CacheAssumption
<1> HIDE DEF q
<1>5. CASE n = -1
  <2>1. /\ index' = NoIndex /\ index'.fid = 0 /\ index'.lines = <<>>
        /\ Len(<<>>) = 0 /\ DOMAIN <<>> = {}
        /\ index' \in [fid : 0 .. MaxFid + 1, lines : Seq(Line)]
    BY <1>1, <1>5, CacheAssumption DEF NoIndex
  <2>2. IndexRight(index', files')
    BY <1>4, <2>1 DEF IndexRight
  <2> QED
    BY <1>1, <1>2, <2>2, ForgetKeeps
<1>6. CASE n # -1
  <2>1. n \in 0 .. Len(q)
    BY <1>4, <1>6 DEF q
  <2>2. /\ s \in Seq(Line) /\ Len(s) = n
        /\ \A k \in 1 .. n : s[k] = q[k]
    BY <1>3, <1>4, <2>1, SubSeqProperties
  <2>3. DOMAIN s = 1 .. n /\ 1 .. n \in SUBSET DOMAIN q
    BY <1>4, <2>1, <2>2, LenProperties
  <2> HIDE DEF s
  <2>4. /\ index'.fid = index.fid /\ index'.lines = s
        /\ index' \in [fid : 0 .. MaxFid + 1, lines : Seq(Line)]
    BY <1>1, <1>3, <1>6, <2>2
  <2>5. index.fid = 0 => s = <<>>
    <3> SUFFICES ASSUME index.fid = 0
                 PROVE  s = <<>>
      OBVIOUS
    <3>1. q = <<>> /\ Len(<<>>) = 0
      BY <1>3
    <3>2. Len(s) = 0
      BY <2>1, <2>2, <3>1
    <3> QED
      BY <2>2, <3>2, EmptySeq
  <2>6. IndexRight(index', files')
    <3>1. Len(s) <= MaxItems
      BY <1>3, <1>4, <2>1, <2>2
    <3>2. \A k \in DOMAIN s : s[k].Cached < index.fid /\ files[s[k].Cached] \in {s[k].Location, Nil}
      BY <1>3, <2>2, <2>3
    <3>3. \A i, k \in DOMAIN s : i # k => /\ s[i].Location # s[k].Location
                                          /\ s[i].Cached # s[k].Cached
      BY <1>3, <2>2, <2>3
    <3> QED
      BY <1>1, <2>4, <2>5, <3>1, <3>2, <3>3 DEF IndexRight
  <2> QED
    BY <1>1, <1>2, <2>6, ForgetKeeps
<1> QED
  BY <1>5, <1>6

LEMMA BuildKeeps ==
  ASSUME IInv, NEW late \in SUBSET DOMAIN index.lines, CacheBuild(late)
  PROVE  IInv'
<1> DEFINE lines == index.lines
           gone  == {k \in DOMAIN lines : lines[k].Expires = AT_EXIT} \cup late
           stay  == DOMAIN lines \ gone
           base  == [k \in DOMAIN lines |-> k]
           first == MoveOut(Reverse(base), gone)
           r(k)  == [Location |-> lines[k].Location, mem |-> FALSE,
                     Ident |-> lines[k].Ident, Object |-> FALSE,
                     Size |-> lines[k].Size, Reffs |-> 0,
                     Cached |-> lines[k].Cached, Expires |-> lines[k].Expires]
<1>1. /\ phase = "down" /\ phase' = "built"
      /\ lru' = first
      /\ chain' = [l \in Loc |-> MoveOut(first, {k \in stay : lines[k].Location # l})]
      /\ item' = [c \in Item |-> IF c \notin stay THEN Blank ELSE r(c)]
      /\ dsk_use' = MapThenSumSet(LAMBDA k : lines[k].Size, stay)
      /\ dsk_num' = Cardinality(stay)
      /\ files' = [n \in Name |->
           IF index.fid = 0 \/ n \in {lines[k].Cached : k \in gone}
           THEN Nil ELSE files[n]]
      /\ at_exit' = (index.fid = 0 \/ gone # {})
      /\ IF at_exit'
         THEN FlushAll(index.fid)
         ELSE fid' = index.fid /\ changed' = FALSE /\ wrote' = FALSE /\ UNCHANGED index
      /\ UNCHANGED <<mem_use, mem_num, held, loaded>>
  BY DEF CacheBuild
<1>2. /\ index \in [fid : 0 .. MaxFid + 1, lines : Seq(Line)]
      /\ lines \in Seq(Line) /\ Len(lines) <= MaxItems
      /\ index.fid = 0 => lines = <<>>
      /\ \A k \in DOMAIN lines : /\ lines[k].Cached < index.fid
                                 /\ files[lines[k].Cached] \in {lines[k].Location, Nil}
      /\ \A i, k \in DOMAIN lines : i # k => /\ lines[i].Location # lines[k].Location
                                             /\ lines[i].Cached # lines[k].Cached
      /\ files \in [Name -> Loc \cup {Nil}]
  BY Facts DEF IInv, IndexRight
<1> HIDE DEF lines
<1>3. /\ Len(lines) \in Nat /\ DOMAIN lines = 1 .. Len(lines)
      /\ \A k \in DOMAIN lines : lines[k] \in Line
      /\ DOMAIN lines \in SUBSET Item /\ MaxFid \in Nat \ {0}
  <2>1. Len(lines) \in Nat /\ DOMAIN lines = 1 .. Len(lines)
    BY <1>2, LenProperties
  <2>2. \A k \in DOMAIN lines : lines[k] \in Line
    BY <1>2, <2>1, ElementOfSeq
  <2> QED
    BY <1>2, <2>1, <2>2, CacheAssumption DEF Item
<1>4. first \in Seq(Item) /\ IsInjective(first) /\ ToSet(first) = stay
  <2>1. base \in Seq(Item) /\ IsInjective(base) /\ ToSet(base) = DOMAIN lines
    <3>1. base \in [1 .. Len(lines) -> Item]
      BY <1>3
    <3>2. base \in Seq(Item)
      BY <1>3, <3>1
    <3> QED
      BY <3>2 DEF IsInjective, ToSet
  <2> HIDE DEF base, gone
  <2>2. /\ Reverse(base) \in Seq(Item) /\ IsInjective(Reverse(base))
        /\ ToSet(Reverse(base)) = DOMAIN lines
    BY <2>1, Reversed
  <2> QED
    BY <2>2, MoveOutElements, MoveOutKeeps
<1>5. stay \in SUBSET DOMAIN lines /\ stay \in SUBSET Item /\ gone \in SUBSET DOMAIN lines
  BY <1>3 DEF lines
<1>6. \A k \in DOMAIN lines :
        /\ r(k) \in ItemRecord /\ r(k).Location = lines[k].Location
        /\ r(k).Location \in Loc /\ r(k).mem = FALSE
        /\ r(k).Cached = lines[k].Cached /\ r(k).Cached \in Name /\ r(k).Cached # 0
        /\ r(k).Size = lines[k].Size /\ r(k).Size \in Nat
        /\ LineOf(r(k)) = lines[k]
  <2> SUFFICES ASSUME NEW k \in DOMAIN lines
               PROVE  /\ r(k) \in ItemRecord /\ r(k).Location = lines[k].Location
                      /\ r(k).Location \in Loc /\ r(k).mem = FALSE
                      /\ r(k).Cached = lines[k].Cached /\ r(k).Cached \in Name
                      /\ r(k).Cached # 0
                      /\ r(k).Size = lines[k].Size /\ r(k).Size \in Nat
                      /\ LineOf(r(k)) = lines[k]
    OBVIOUS
  <2>1. lines[k] \in Line
    BY <1>3
  <2>2. LineOf(r(k)) = lines[k]
    BY <2>1 DEF LineOf, Line
  <2> QED
    BY <2>1, <2>2 DEF Line, ItemRecord, Name
<1> HIDE DEF first, base, stay, gone, r
<1>7. /\ item' \in [Item -> ItemRecord] /\ \A c \in stay : item'[c] = r(c)
      /\ \A c \in Item \ stay : item'[c] = Blank
  <2>1. Blank \in ItemRecord
    BY DEF Blank, ItemRecord, NEVER
  <2>2. /\ \A c \in stay : item'[c] = r(c)
        /\ \A c \in Item \ stay : item'[c] = Blank
    BY <1>1, <1>5
  <2>3. \A c \in Item : item'[c] \in ItemRecord
    BY <1>5, <1>6, <2>1, <2>2
  <2>4. item' = [c \in Item |-> item'[c]]
    BY <1>1
  <2> QED
    BY <2>2, <2>3, <2>4
<1>8. Items' = stay /\ lru' \in Seq(Item) /\ IsInjective(lru')
  BY <1>1, <1>4 DEF Items
<1>9. \A c \in stay :
        /\ c \in DOMAIN lines /\ c \in Item
        /\ item'[c].Location = lines[c].Location /\ item'[c].Location \in Loc
        /\ ~item'[c].mem /\ item'[c].Cached = lines[c].Cached
        /\ item'[c].Cached \in Name /\ item'[c].Cached # 0
        /\ item'[c].Size = lines[c].Size /\ item'[c].Size \in Nat
        /\ LineOf(item'[c]) = lines[c]
        /\ HasFile(item', c)
  BY <1>5, <1>6, <1>7 DEF HasFile
<1>10. ItemsRight(stay, item')
  BY <1>5, <1>7, <1>9 DEF ItemsRight, OnDisk
<1>11. Distinct(stay, item')
  BY <1>2, <1>9 DEF Distinct
<1>12. Chained(stay, chain', item')
  <2>1. ASSUME NEW l \in Loc
        PROVE  /\ chain'[l] \in Seq(Item)
               /\ ToSet(chain'[l]) = {c \in stay : item'[c].Location = l}
    <3> DEFINE others == {k \in stay : lines[k].Location # l}
    <3>1. chain'[l] = MoveOut(first, others)
      BY <1>1
    <3>2. stay \ others = {c \in stay : item'[c].Location = l}
      BY <1>9
    <3> HIDE DEF others
    <3>3. MoveOut(first, others) \in Seq(Item) /\ ToSet(MoveOut(first, others)) = stay \ others
      BY <1>4, MoveOutElements
    <3> QED
      BY <3>1, <3>2, <3>3
  <2>2. chain' = [l \in Loc |-> chain'[l]]
    BY <1>1
  <2>3. chain' \in [Loc -> Seq(Item)]
    BY <2>1, <2>2
  <2> QED
    BY <2>1, <2>3 DEF Chained
<1>13. InMem(stay, item') = {} /\ stay \ {} = stay
  BY <1>9 DEF InMem
<1>14. mem_use' = 0 /\ mem_num' = 0
  <2>1. lru = <<>> /\ ToSet(<<>>) = {}
    BY <1>1 DEF IInv, ToSet
  <2>2. InMem(Items, item) = {}
    BY <2>1 DEF InMem, Items
  <2>3. mem_use = Total(SizesOf(item), {}) /\ mem_num = Cardinality({})
    BY <2>2 DEF IInv, CountsRight
  <2>4. IsFiniteSet({}) /\ Cardinality({}) = 0
    BY FS_EmptySet
  <2>5. \A x \in {} : SizesOf(item)[x] \in Nat
    OBVIOUS
  <2>6. Total(SizesOf(item), {}) = 0
    BY ONLY <2>4, <2>5, TotalStep
  <2> QED
    BY <1>1, <2>3, <2>4, <2>6
<1>15. dsk_use' = Total(SizesOf(item'), stay)
  <2> DEFINE g == SizesOf(item')
             E(F) == F = [s \in SUBSET stay |->
                            IF s = {} THEN 0
                            ELSE lines[AnyOf(s)].Size + F[s \ {AnyOf(s)}]]
             G == CHOOSE F : E(F)
  <2>1. dsk_use' = G[stay]
    BY <1>1 DEF MapThenSumSet, MapThenFoldSet, AnyOf
  <2>2. \A x \in stay : g[x] = lines[x].Size /\ g[x] \in Nat
    BY <1>9 DEF SizesOf
  <2>3. IsFiniteSet(stay)
    BY <1>5, ItemsFinite
  <2> HIDE DEF g
  <2>4. ASSUME NEW F
        PROVE  E(F) <=> Sums(F, g, stay)
    <3>1. \A s \in SUBSET stay : s # {} => AnyOf(s) \in stay
      BY AnyOfIn
    <3>2. \A s \in SUBSET stay : s # {} => lines[AnyOf(s)].Size = g[AnyOf(s)]
      BY <2>2, <3>1
    <3>3. [s \in SUBSET stay |-> IF s = {} THEN 0
                                 ELSE lines[AnyOf(s)].Size + F[s \ {AnyOf(s)}]]
        = [s \in SUBSET stay |-> IF s = {} THEN 0
                                 ELSE g[AnyOf(s)] + F[s \ {AnyOf(s)}]]
      BY <3>2
    <3> QED
      BY <3>3 DEF Sums
  <2>5. \E F : E(F)
    BY <2>2, <2>3, <2>4, SumsExist
  <2>6. Sums(G, g, stay)
    BY <2>4, <2>5
  <2> HIDE DEF G
  <2>7. G[stay] = Total(g, stay)
    BY <2>2, <2>3, <2>6, TotalIs
  <2> QED
    BY <2>1, <2>7 DEF g
<1>16. CountsRight(stay, item', mem_use', mem_num', dsk_use', dsk_num')
  <2>1. IsFiniteSet({}) /\ Cardinality({}) = 0
    BY FS_EmptySet
  <2>2. \A x \in {} : SizesOf(item')[x] \in Nat
    OBVIOUS
  <2>3. Total(SizesOf(item'), {}) = 0
    BY ONLY <2>1, <2>2, TotalStep
  <2> QED
    BY <1>1, <1>13, <1>14, <1>15, <2>1, <2>3 DEF CountsRight
<1>17. /\ files' \in [Name -> Loc \cup {Nil}]
       /\ \A n \in Name : files'[n] \in {files[n], Nil}
  BY <1>1, <1>2
<1>18. \/ FilesRight(stay, item', files', index.fid)
       \/ dsk_num' = 0 /\ files' \in [Name -> Loc \cup {Nil}]
  <2>1. CASE index.fid = 0
    <3>1. DOMAIN lines = {}
      BY <1>2, <2>1
    <3>2. stay = {}
      BY <1>5, <3>1
    <3> QED
      BY <1>1, <1>17, <3>2, FS_EmptySet
  <2>2. CASE index.fid # 0
    <3>1. index.fid \in 1 .. MaxFid + 1
      BY <1>2, <1>3, <2>2
    <3>2. \A c \in stay : /\ item'[c].Cached < index.fid
                          /\ files'[item'[c].Cached] \in {item'[c].Location, Nil}
      BY <1>2, <1>9, <1>17
    <3> QED
      BY <1>17, <3>1, <3>2 DEF FilesRight
  <2> QED
    BY <2>1, <2>2
<1>19. Pointed(stay, item', held', loaded') /\ Bounded(stay, item', mem_use')
  <2>1. held \in [Item -> 0 .. MaxHeld] /\ loaded \in SUBSET Item
    BY DEF IInv, Pointed
  <2>2. Pointed(stay, item', held', loaded')
    BY <1>1, <1>9, <2>1 DEF Pointed
  <2> QED
    BY <1>13, <2>2 DEF Bounded
<1>20. CASE at_exit'
  <2>1. FlushAll(index.fid)
    BY <1>1, <1>20
  <2>2. /\ FilesRight(Items', item', files', fid')
        /\ IndexRight(index', files')
        /\ ToSet(index'.lines) = LinesOf(Items', item')
        /\ {changed', wrote'} \in SUBSET BOOLEAN
    BY <1>8, <1>10, <1>11, <1>16, <1>18, <2>1, Flushed
  <2>3. /\ {changed', at_exit', wrote'} \in SUBSET BOOLEAN
        /\ Sound(Items', chain', item', files', fid',
                 mem_use', mem_num', dsk_use', dsk_num')
    BY <1>1, <1>8, <1>10, <1>11, <1>12, <1>16, <2>2 DEF Sound
  <2> QED
    BY <1>1, <1>8, <1>19, <2>2, <2>3, Kept
<1>21. CASE ~at_exit'
  <2>1. /\ fid' = index.fid /\ changed' = FALSE /\ wrote' = FALSE /\ index' = index
        /\ index.fid # 0 /\ gone = {}
    BY <1>1, <1>21
  <2>2. stay = DOMAIN lines
    BY <2>1 DEF stay
  <2>3. FilesRight(stay, item', files', fid')
    <3>1. index.fid \in 1 .. MaxFid + 1
      BY <1>2, <1>3, <2>1
    <3>2. \A c \in stay : /\ item'[c].Cached < index.fid
                          /\ files'[item'[c].Cached] \in {item'[c].Location, Nil}
      BY <1>2, <1>9, <1>17
    <3> QED
      BY <1>17, <2>1, <3>1, <3>2 DEF FilesRight
  <2>4. IndexRight(index', files')
    <3>1. \A k \in DOMAIN lines : lines[k].Cached \in Name
      BY <1>3 DEF Line
    <3>2. \A k \in DOMAIN lines : files'[lines[k].Cached] \in {lines[k].Location, Nil}
      BY <1>2, <1>17, <3>1
    <3> QED
      BY <1>2, <2>1, <3>2 DEF IndexRight, lines
  <2>5. ToSet(index'.lines) = LinesOf(Items', item')
    <3>1. {d \in stay : HasFile(item', d)} = DOMAIN lines
      BY <1>9, <2>2
    <3>2. LinesOf(stay, item') = {lines[d] : d \in DOMAIN lines}
      BY <1>9, <2>2, <3>1 DEF LinesOf
    <3> QED
      BY <1>8, <2>1, <3>2 DEF ToSet, lines
  <2>6. /\ {changed', at_exit', wrote'} \in SUBSET BOOLEAN
        /\ Sound(Items', chain', item', files', fid',
                 mem_use', mem_num', dsk_use', dsk_num')
    <3>1. at_exit' \in BOOLEAN
      BY <1>1
    <3> QED
      BY <1>8, <1>10, <1>11, <1>12, <1>16, <2>1, <2>3, <3>1 DEF Sound
  <2> QED
    BY <1>1, <1>8, <1>19, <2>4, <2>5, <2>6, Kept
<1> QED
  BY <1>20, <1>21

-----------------------------------------------------------------------------
(***************************************************************************)
(* The theorems.                                                           *)
(***************************************************************************)
LEMMA NextKeeps ==
  ASSUME IInv, Next
  PROVE  IInv'
<1>1. ASSUME NEW l \in Loc, NEW ident \in Idents, NEW size \in Sizes,
             NEW unsized \in BOOLEAN, CacheInsert(l, ident, size, unsized)
      PROVE  IInv'
  BY <1>1, InsertKeeps
<1>2. ASSUME NEW l \in Loc, NEW ident \in Idents \cup {0}, NEW any \in BOOLEAN,
             CacheLookup(l, ident, any)
      PROVE  IInv'
  BY <1>2, LookupKeeps
<1>3. ASSUME NEW l \in Loc, CacheQuery(l)
      PROVE  IInv'
  BY <1>3, QueryKeeps
<1>4. ASSUME NEW c \in Item, CacheBound(c)
      PROVE  IInv'
  BY <1>4, BoundKeeps
<1>5. ASSUME NEW c \in Item, NEW erase \in BOOLEAN, CacheRelease(c, erase)
      PROVE  IInv'
  BY <1>5, CacheReleaseKeeps
<1>6. ASSUME NEW c \in Item, LoaderRelease(c)
      PROVE  IInv'
  BY <1>6, LoaderReleaseKeeps
<1>7. ASSUME NEW S, CacheClear(S)
      PROVE  IInv'
  BY <1>7, ClearKeeps
<1>8. ASSUME NEW l \in Loc, CacheExclusive(l) \/ CacheAbort(l)
      PROVE  IInv'
  BY <1>8, ExclusiveKeeps, AbortKeeps
<1>9. ASSUME NEW l \in Loc, NEW size \in Sizes, CacheAssignFails(l, size)
      PROVE  IInv'
  BY <1>9, AssignFailsKeeps
<1>10. ASSUME NEW l \in Loc, NEW size \in Sizes, NEW date \in Dates,
              CacheAssign(l, size, date)
       PROVE  IInv'
  BY <1>10, AssignKeeps
<1>11. ASSUME NEW l \in Loc, NEW date \in Dates \ {NEVER}, CacheExpires(l, date)
       PROVE  IInv'
  BY <1>11, ExpiresKeeps
<1>12. ASSUME NEW late \in SUBSET Dated(LATER), Exit(late)
       PROVE  IInv'
  BY <1>12, ExitKeeps
<1>13. ASSUME NEW n \in -1 .. Len(index.lines), Crash(n)
       PROVE  IInv'
  BY <1>13, CrashKeeps
<1>14. ASSUME NEW late \in SUBSET DOMAIN index.lines, CacheBuild(late)
       PROVE  IInv'
  BY <1>14, BuildKeeps
<1>15. CASE CacheSetup
  BY <1>15, SetupKeeps
<1> QED
  BY <1>1, <1>2, <1>3, <1>4, <1>5, <1>6, <1>7, <1>8, <1>9, <1>10, <1>11, <1>12,
     <1>13, <1>14, <1>15 DEF Next

LEMMA StutterKeeps ==
  ASSUME IInv, UNCHANGED vars
  PROVE  IInv'
<1>1. UNCHANGED <<phase, lru, chain, item, mem_use, mem_num, dsk_use, dsk_num,
                  changed, fid, index, wrote, files, at_exit, held, loaded>>
  BY DEF vars, memory, disk
<1>2. Items' = Items
  BY <1>1 DEF Items
<1> QED
  BY <1>1, <1>2 DEF IInv

\* The invariant holds in every state of every behaviour.
THEOREM Invariant == Spec => []IInv
<1>1. Init => IInv
  BY InitEstablishes
<1>2. IInv /\ [Next]_vars => IInv'
  BY NextKeeps, StutterKeeps
<1> QED
  BY <1>1, <1>2, PTL DEF Spec

\* The four counters are what the items add up to, whatever is created,
\* destroyed, read from the index or cleared, and above the limit every object
\* in memory is in use.
THEOREM CountersRight == Spec => []Counters
<1>1. ASSUME IInv
      PROVE  Counters
  <2> USE <1>1
  <2>1. /\ Items \in SUBSET Item /\ item \in [Item -> ItemRecord]
        /\ chain \in [Loc -> Seq(Item)] /\ files \in [Name -> Loc \cup {Nil}]
        /\ {mem_use, mem_num, dsk_use, dsk_num} \in SUBSET Nat
        /\ fid \in 1 .. MaxFid + 1 /\ MaxFid \in Nat
    BY Facts, CacheAssumption
  <2>2. TypeOK
    <3>1. /\ phase \in {"down", "built", "up"} /\ lru \in Seq(Item)
          /\ changed \in BOOLEAN /\ at_exit \in BOOLEAN /\ wrote \in BOOLEAN
          /\ held \in [Item -> 0 .. MaxHeld] /\ loaded \subseteq Item
          /\ index.fid \in 0 .. MaxFid + 1 /\ index.lines \in Seq(Line)
      BY DEF IInv, Pointed, IndexRight
    <3>2. fid \in 0 .. MaxFid + 1
      BY <2>1
    <3> QED
      BY <2>1, <3>1, <3>2 DEF TypeOK
  <2>3. Accounting
    <3>1. /\ MemOf(Items) = InMem(Items, item)
          /\ DskOf(Items) = Items \ InMem(Items, item)
          /\ Bytes(MemOf(Items)) = Total(SizesOf(item), InMem(Items, item))
          /\ Bytes(DskOf(Items)) = Total(SizesOf(item), Items \ InMem(Items, item))
      BY SumsOf
    <3> QED
      BY <3>1 DEF Accounting, IInv, CountsRight
  <2>4. MemBounded
    BY DEF MemBounded, Unused, MemOf, IInv, Bounded, InMem
  <2> QED
    BY <2>2, <2>3, <2>4 DEF Counters
<1> QED
  BY <1>1, Invariant, PTL

\* A location has one file at most and a file one item, no file holds what was
\* fetched from elsewhere, and cache.idx lists the files there are, over any
\* number of sessions, exits and crashes.
THEOREM FilesAgree == Spec => []Files
<1>1. ASSUME IInv
      PROVE  Files
  <2> USE <1>1
  <2>1. \A c \in Items : Named(c) <=> HasFile(item, c)
    BY DEF Named, HasFile
  <2>2. OneFile
    <3>1. \A c \in DskOf(Items) : c \in Items /\ OnDisk(item, c)
      BY DEF DskOf, MemOf, OnDisk
    <3>2. ASSUME NEW c \in DskOf(Items), NEW d \in DskOf(Items), c # d
          PROVE  /\ item[c].Location # item[d].Location
                 /\ Named(c) => item[c].Cached # item[d].Cached
      BY <3>1, <3>2 DEF IInv, Distinct, Named
    <3>3. \A i, k \in DOMAIN index.lines :
            i # k => /\ index.lines[i].Location # index.lines[k].Location
                     /\ index.lines[i].Cached # index.lines[k].Cached
      BY DEF IInv, IndexRight
    <3> QED
      BY <3>2, <3>3 DEF OneFile
  <2>3. ContentOwned
    BY <2>1 DEF ContentOwned, IInv, FilesRight
  <2>4. IndexCurrent
    BY DEF IndexCurrent, IInv, LinesOf, Named, HasFile
  <2> QED
    BY <2>2, <2>3, <2>4 DEF Files
<1> QED
  BY <1>1, Invariant, PTL

-----------------------------------------------------------------------------
(***************************************************************************)
(* What a step may do.  What a client points to stays, objects go in the   *)
(* order of their last use, and every step is one that Reservation allows. *)
(* All three ask of a handler only which items go and which come, so that  *)
(* is what is proved of each of them first (Changes).                      *)
(***************************************************************************)

-----------------------------------------------------------------------------
(***************************************************************************)
(* Who has a location, read from the set U of the items in the list.       *)
(***************************************************************************)
HolderIn(U, it, l) ==
  IF DiskOf(U, it, l) = {} THEN "nobody"
  ELSE IF \E c \in DiskOf(U, it, l) : HasFile(it, c) THEN "file" ELSE "loader"

\* HeldBy asks the first item on disk in the chain: there is no other.
LEMMA HeldByIs == IInv => HeldBy = [l \in Loc |-> HolderIn(Items, item, l)]
<1> SUFFICES ASSUME IInv, NEW l \in Loc
             PROVE  HeldBy[l] = HolderIn(Items, item, l)
  BY DEF HeldBy
<1>1. HeldBy[l] = CASE DiskItem(l) = Nil -> "nobody"
                    [] DiskItem(l) # Nil /\ Named(DiskItem(l)) -> "file"
                    [] OTHER -> "loader"
  BY DEF HeldBy
<1>2. CASE DiskOf(Items, item, l) = {}
  <2>1. DiskItem(l) = Nil
    BY <1>2, DiskItemIs
  <2> QED
    BY <1>1, <1>2, <2>1 DEF HolderIn
<1>3. CASE DiskOf(Items, item, l) # {}
  <2>1. DiskItem(l) \in DiskOf(Items, item, l) /\ DiskItem(l) # Nil
    BY <1>3, DiskItemIs
  <2>2. \A c \in DiskOf(Items, item, l) : c = DiskItem(l)
    BY <2>1 DEF IInv, Distinct, DiskOf
  <2>3. Named(DiskItem(l)) <=> HasFile(item, DiskItem(l))
    BY DEF Named, HasFile
  <2>4. CASE Named(DiskItem(l))
    BY <1>1, <1>3, <2>1, <2>3, <2>4 DEF HolderIn
  <2>5. CASE ~Named(DiskItem(l))
    <3>1. HeldBy[l] = "loader"
      BY <1>1, <2>1, <2>5
    <3>2. ~(\E c \in DiskOf(Items, item, l) : HasFile(item, c))
      BY <2>2, <2>3, <2>5
    <3> QED
      BY <1>3, <3>1, <3>2 DEF HolderIn
  <2> QED
    BY <2>4, <2>5
<1> QED
  BY <1>2, <1>3

LEMMA HeldByNext == IInv' => HeldBy' = [l \in Loc |-> HolderIn(Items', item', l)]
<1>1. (HeldBy = [l \in Loc |-> HolderIn(Items, item, l)])'
        <=> HeldBy' = [l \in Loc |-> HolderIn(Items', item', l)]
  BY DEF HolderIn, DiskOf, OnDisk, HasFile
<1>2. IInv' => (HeldBy = [l \in Loc |-> HolderIn(Items, item, l)])'
  BY HeldByIs, PTL
<1> QED
  BY <1>1, <1>2

LEMMA HolderTyped ==
  ASSUME NEW U, NEW it, NEW l
  PROVE  HolderIn(U, it, l) \in {"nobody", "file", "loader"}
BY DEF HolderIn

-----------------------------------------------------------------------------
(***************************************************************************)
(* What a handler does: the items of S go, those of N come, and nothing    *)
(* moves among the others.  An item whose file is assigned goes and comes. *)
(***************************************************************************)
Same(it, new, d) == /\ new[d].Location = it[d].Location
                    /\ new[d].mem = it[d].mem
                    /\ new[d].Cached = it[d].Cached

Changes(S, N) ==
  /\ S \in SUBSET Items /\ N \in SUBSET Item
  /\ Items' = (Items \ S) \cup N
  /\ \A d \in Items \ S : Same(item, item', d)
  /\ \A d \in S : item[d].mem => held'[d] = 0

\* What InUseStays and LeastRecentlyUsed say of a step
InUse == \A c \in Items : item[c].mem /\ held'[c] > 0 => c \in ToSet(lru')

InOrder ==
  (\E c \in ToSet(lru') \ Items : item'[c].mem) =>
    \A i, k \in DOMAIN lru :
      i < k /\ {lru[i], lru[k]} \subseteq Unused /\ lru[k] \in ToSet(lru')
        => lru[i] \in ToSet(lru')

Orderly == InUse /\ InOrder

LEMMA ChangesInUse ==
  ASSUME IInv, NEW S, NEW N, Changes(S, N)
  PROVE  InUse
<1>1. \A c \in S : ~(item[c].mem /\ held'[c] > 0)
  BY DEF Changes
<1> QED
  BY <1>1 DEF InUse, Changes, Items

\* Where no object comes, none has to go.
LEMMA NoObject ==
  ASSUME NEW S, NEW N, Changes(S, N), \A n \in N \ Items : ~item'[n].mem
  PROVE  InOrder
<1>1. \A c \in Items' \ Items : ~item'[c].mem
  BY DEF Changes
<1> QED
  BY <1>1 DEF InOrder, Items

\* A location of which no reservation goes, and no item on disk comes, stays
\* what it is or loses its file.
LEMMA HolderStays ==
  ASSUME IInv, NEW S, NEW N, Changes(S, N), N \cap (Items \ S) = {},
         NEW l \in Loc,
         \A c \in S : item[c].Location = l /\ ~item[c].mem => HasFile(item, c),
         \A n \in N : item'[n].Location = l => item'[n].mem
  PROVE  \/ HolderIn(Items', item', l) = HolderIn(Items, item, l)
         \/ /\ HolderIn(Items, item, l) = "file"
            /\ HolderIn(Items', item', l) = "nobody"
<1> DEFINE D == DiskOf(Items, item, l)
           E == DiskOf(Items', item', l)
<1>1. \A c, d \in D : c = d
  BY DEF IInv, Distinct, DiskOf
<1>2. E = D \ S
  BY DEF Changes, DiskOf, OnDisk, Same
<1>3. \A c \in E : HasFile(item', c) <=> HasFile(item, c)
  BY <1>2 DEF Changes, HasFile, Same, DiskOf
<1>4. \A c \in D \cap S : HasFile(item, c)
  BY DEF DiskOf, OnDisk
<1> HIDE DEF D, E
<1>5. CASE D \cap S = {}
  <2>1. E = D
    BY <1>2, <1>5
  <2> QED
    BY <1>3, <2>1 DEF HolderIn, D, E
<1>6. CASE D \cap S # {}
  <2>1. E = {} /\ D # {} /\ \E c \in D : HasFile(item, c)
    BY <1>1, <1>2, <1>4, <1>6
  <2> QED
    BY <2>1 DEF HolderIn, D, E
<1> QED
  BY <1>5, <1>6

\* No reservation goes and nothing on disk comes: every location stays what
\* it is or loses its file.
LEMMA NoneChanges ==
  ASSUME IInv, IInv', phase # "down", phase' # "down",
         NEW S, NEW N, Changes(S, N), N \cap (Items \ S) = {},
         \A c \in S : ~item[c].mem => HasFile(item, c),
         \A n \in N : item'[n].mem,
         InOrder
  PROVE  Orderly /\ R!Session
<1>1. InUse
  BY ChangesInUse
<1>2. HeldBy = [l \in Loc |-> HolderIn(Items, item, l)]
  BY HeldByIs
<1>3. HeldBy' = [l \in Loc |-> HolderIn(Items', item', l)]
  BY HeldByNext
<1>4. ASSUME NEW l \in Loc
      PROVE  R!Kept(l)
  <2>1. \/ HolderIn(Items', item', l) = HolderIn(Items, item, l)
        \/ /\ HolderIn(Items, item, l) = "file"
           /\ HolderIn(Items', item', l) = "nobody"
    BY HolderStays
  <2>2. HeldBy[l] = HolderIn(Items, item, l) /\ HeldBy'[l] = HolderIn(Items', item', l)
    BY <1>2, <1>3
  <2> QED
    BY <2>1, <2>2 DEF R!Kept
<1>5. HeldBy' \in [Loc -> R!States]
  BY <1>3, HolderTyped DEF R!States
<1> QED
  BY <1>1, <1>4, <1>5 DEF Orderly, R!Session

\* One location is reserved, or its reservation ends.
LEMMA OneChanges ==
  ASSUME IInv, IInv', phase # "down", phase' # "down",
         NEW S, NEW N, Changes(S, N), N \cap (Items \ S) = {},
         NEW l \in Loc,
         \A c \in S : ~item[c].mem /\ item[c].Location # l => HasFile(item, c),
         \A n \in N : item'[n].Location = l /\ ~item'[n].mem,
         \/ /\ HolderIn(Items, item, l) = "nobody"
            /\ HolderIn(Items', item', l) = "loader"
         \/ /\ HolderIn(Items, item, l) = "loader"
            /\ HolderIn(Items', item', l) \in {"file", "nobody"}
  PROVE  Orderly /\ R!Session
<1>1. InUse
  BY ChangesInUse
<1>2. HeldBy = [m \in Loc |-> HolderIn(Items, item, m)]
  BY HeldByIs
<1>3. HeldBy' = [m \in Loc |-> HolderIn(Items', item', m)]
  BY HeldByNext
<1>4. ASSUME NEW m \in Loc \ {l}
      PROVE  R!Kept(m)
  <2>1. /\ \A c \in S : item[c].Location = m /\ ~item[c].mem => HasFile(item, c)
        /\ \A n \in N : item'[n].Location = m => item'[n].mem
    OBVIOUS
  <2>2. \/ HolderIn(Items', item', m) = HolderIn(Items, item, m)
        \/ /\ HolderIn(Items, item, m) = "file"
           /\ HolderIn(Items', item', m) = "nobody"
    BY <2>1, HolderStays
  <2>3. HeldBy[m] = HolderIn(Items, item, m) /\ HeldBy'[m] = HolderIn(Items', item', m)
    BY <1>2, <1>3
  <2> QED
    BY <2>2, <2>3 DEF R!Kept
<1>5. HeldBy' \in [Loc -> R!States]
  BY <1>3, HolderTyped DEF R!States
<1>6. R!Reserve(l) \/ R!Finish(l)
  BY <1>2, <1>3 DEF R!Reserve, R!Finish
<1>7. InOrder
  BY NoObject
<1> QED
  BY <1>1, <1>4, <1>5, <1>6, <1>7 DEF Orderly, R!Session

-----------------------------------------------------------------------------
(***************************************************************************)
(* The handlers that leave every item where it is.                         *)
(***************************************************************************)
LEMMA NothingMoves ==
  ASSUME IInv, IInv', phase # "down", phase' # "down", Items' = Items,
         \A d \in Items : Same(item, item', d)
  PROVE  Orderly /\ R!Session
<1>1. Changes({}, {})
  BY DEF Changes
<1>2. InOrder
  BY <1>1, NoObject
<1> QED
  BY <1>1, <1>2, NoneChanges


LEMMA LookupStep ==
  ASSUME IInv, IInv', NEW l \in Loc, NEW ident, NEW any, CacheLookup(l, ident, any)
  PROVE  Orderly /\ R!Session
<1> DEFINE c == chain[l][Found(l, ident, any)]
           b == item[c].Object \/ (ident = 0 /\ Named(c))
<1>1. c \in Items
  BY FoundIs DEF CacheLookup
<1>2. /\ phase = "up" /\ phase' = phase
      /\ lru' = MoveToFront(lru, c)
      /\ item' = [item EXCEPT ![c].Object = b]
  BY DEF CacheLookup
<1>3. Items \in SUBSET Item /\ item \in [Item -> ItemRecord] /\ lru \in Seq(Item)
  BY Facts DEF IInv
<1> HIDE DEF c, b
<1>4. Items' = Items
  BY <1>1, <1>2, <1>3, MovedToFront DEF Items
<1>5. \A d \in Items : Same(item, item', d)
  BY <1>1, <1>2, <1>3 DEF Same, ItemRecord
<1> QED
  BY <1>2, <1>4, <1>5, NothingMoves

LEMMA QueryStep ==
  ASSUME IInv, IInv', NEW l \in Loc, CacheQuery(l)
  PROVE  Orderly /\ R!Session
<1> DEFINE c == DiskItem(l)
<1>1. c \in Items
  BY DiskItemIs DEF CacheQuery
<1>2. /\ phase = "up" /\ phase' = phase
      /\ lru' = MoveToFront(lru, c)
      /\ item' = [item EXCEPT ![c].Object = TRUE]
  BY DEF CacheQuery
<1>3. Items \in SUBSET Item /\ item \in [Item -> ItemRecord] /\ lru \in Seq(Item)
  BY Facts DEF IInv
<1> HIDE DEF c
<1>4. Items' = Items
  BY <1>1, <1>2, <1>3, MovedToFront DEF Items
<1>5. \A d \in Items : Same(item, item', d)
  BY <1>1, <1>2, <1>3 DEF Same, ItemRecord
<1> QED
  BY <1>2, <1>4, <1>5, NothingMoves

LEMMA BoundStep ==
  ASSUME IInv, IInv', NEW c \in Item, CacheBound(c)
  PROVE  Orderly /\ R!Session
<1>1. Items \in SUBSET Item /\ item \in [Item -> ItemRecord]
  BY Facts
<1>2. /\ phase = "up" /\ phase' = phase /\ lru' = lru
      /\ item' = [item EXCEPT ![c].Reffs = item[c].Reffs + 1]
  BY DEF CacheBound
<1>3. \A d \in Items : Same(item, item', d)
  BY <1>1, <1>2 DEF Same, ItemRecord
<1> QED
  BY <1>2, <1>3, NothingMoves DEF Items

LEMMA ExpiresStep ==
  ASSUME IInv, IInv', NEW l \in Loc, NEW date, CacheExpires(l, date)
  PROVE  Orderly /\ R!Session
<1> DEFINE c == DiskItem(l)
<1>1. c \in Items
  BY DiskItemIs DEF CacheExpires
<1>2. Items \in SUBSET Item /\ item \in [Item -> ItemRecord]
  BY Facts
<1>3. /\ phase = "up" /\ phase' = phase /\ lru' = lru
      /\ item' = [item EXCEPT ![c].Expires = date]
  BY DEF CacheExpires
<1> HIDE DEF c
<1>4. \A d \in Items : Same(item, item', d)
  BY <1>1, <1>2, <1>3 DEF Same, ItemRecord
<1> QED
  BY <1>3, <1>4, NothingMoves DEF Items

-----------------------------------------------------------------------------
(***************************************************************************)
(* The handlers that destroy items.                                        *)
(***************************************************************************)
LEMMA ItemsGone ==
  ASSUME IInv, NEW S \in SUBSET Items, Destroy(S),
         \A d \in Items \ S : Same(item, item', d),
         \A d \in S : item[d].mem => held'[d] = 0
  PROVE  Changes(S, {}) /\ Items' = Items \ S
<1>1. Items' = Items \ S
  BY DestroySound
<1> QED
  BY <1>1 DEF Changes

\* An object in memory that the cache counts no client for has none.
LEMMA NotHeld ==
  ASSUME IInv, NEW d \in Items, item[d].mem, item[d].Reffs = 0
  PROVE  held[d] = 0
<1>1. held[d] <= item[d].Reffs /\ held[d] \in 0 .. MaxHeld /\ MaxHeld \in Nat
  BY Facts, CacheAssumption DEF IInv, Pointed
<1> QED
  BY <1>1

LEMMA ReleaseStep ==
  ASSUME IInv, IInv', NEW c \in Item, NEW erase \in BOOLEAN, Release(c, erase),
         phase = "up", phase' = phase,
         \A d \in Item : d # c => held'[d] = held[d],
         c \in Items /\ item[c].mem =>
           held'[c] \in Nat /\ held'[c] <= OneLess(item[c].Reffs)
  PROVE  Orderly /\ R!Session
<1> DEFINE reffs == OneLess(item[c].Reffs)
           gone  == IF /\ c \in Items /\ erase /\ reffs = 0
                       /\ item[c].mem \/ Named(c)
                    THEN {c} ELSE {}
           may   == ({d \in MemOf(Items) : d # c /\ item[d].Reffs = 0}
                      \cup {d \in MemOf({c} \cap Items) : reffs = 0}) \ gone
           all   == gone \cup Throw(may, mem_use - Bytes(MemOf(gone)) - MemMax)
<1>1. /\ Destroy(all)
      /\ item' = [d \in Item |->
           IF d \in all THEN Blank
           ELSE IF d = c /\ c \in Items THEN [item[c] EXCEPT !.Reffs = reffs]
           ELSE item[d]]
  BY DEF Release, RoomAfterRelease
<1>2. Items \in SUBSET Item /\ item \in [Item -> ItemRecord]
  BY Facts
<1>3. Throw(may, mem_use - Bytes(MemOf(gone)) - MemMax) \in SUBSET may
  BY ThrowIs
<1>4. /\ all \in SUBSET Items
      /\ \A d \in all : ~item[d].mem => HasFile(item, d)
      /\ \A d \in all : item[d].mem =>
           IF d = c THEN reffs = 0 ELSE item[d].Reffs = 0
  <2>1. \A d \in may : d \in Items /\ item[d].mem /\
                       (IF d = c THEN reffs = 0 ELSE item[d].Reffs = 0)
    BY DEF MemOf
  <2>2. \A d \in gone : /\ d = c /\ c \in Items /\ reffs = 0
                        /\ ~item[d].mem => HasFile(item, d)
    BY DEF Named, HasFile
  <2> HIDE DEF may, gone, reffs
  <2> QED
    BY <1>3, <2>1, <2>2
<1> HIDE DEF all, gone, may
<1>5. \A d \in Items \ all : Same(item, item', d)
  BY <1>1, <1>2 DEF Same, ItemRecord
<1>6. ASSUME NEW d \in all, item[d].mem
      PROVE  held'[d] = 0
  <2>1. d \in Items /\ d \in Item
    BY <1>2, <1>4
  <2>2. CASE d = c
    BY <1>4, <1>6, <2>1, <2>2
  <2>3. CASE d # c
    BY <1>4, <1>6, <2>1, <2>3, NotHeld
  <2> QED
    BY <2>2, <2>3
<1>7. Changes(all, {})
  BY <1>1, <1>4, <1>5, <1>6, ItemsGone
<1>8. InOrder
  BY <1>7, NoObject
<1> QED
  BY <1>4, <1>7, <1>8, NoneChanges

LEMMA CacheReleaseStep ==
  ASSUME IInv, IInv', NEW c \in Item, NEW erase \in BOOLEAN, CacheRelease(c, erase)
  PROVE  Orderly /\ R!Session
<1>1. /\ phase = "up" /\ phase' = phase /\ held[c] > 0 /\ Release(c, erase)
      /\ held' = [held EXCEPT ![c] = held[c] - 1]
  BY DEF CacheRelease
<1>2. held \in [Item -> 0 .. MaxHeld] /\ MaxHeld \in Nat
  BY CacheAssumption DEF IInv, Pointed
<1>3. held'[c] = held[c] - 1 /\ \A d \in Item : d # c => held'[d] = held[d]
  BY <1>1, <1>2
<1>4. c \in Items /\ item[c].mem =>
        held'[c] \in Nat /\ held'[c] <= OneLess(item[c].Reffs)
  <2> SUFFICES ASSUME c \in Items, item[c].mem
               PROVE  held'[c] \in Nat /\ held'[c] <= OneLess(item[c].Reffs)
    OBVIOUS
  <2>1. held[c] <= item[c].Reffs /\ item[c].Reffs \in Nat
    BY Facts DEF IInv, Pointed, ItemRecord
  <2> QED
    BY <1>1, <1>2, <1>3, <2>1 DEF OneLess
<1> QED
  BY <1>1, <1>3, <1>4, ReleaseStep

LEMMA LoaderReleaseStep ==
  ASSUME IInv, IInv', NEW c \in Item, LoaderRelease(c)
  PROVE  Orderly /\ R!Session
<1>1. /\ phase = "up" /\ phase' = phase /\ c \in loaded /\ Release(c, FALSE)
      /\ held' = held
  BY DEF LoaderRelease
<1>2. ~(c \in Items /\ item[c].mem)
  BY <1>1 DEF IInv, Pointed, HasFile
<1> QED
  BY <1>1, <1>2, ReleaseStep


LEMMA ClearStep ==
  ASSUME IInv, IInv', NEW S, CacheClear(S)
  PROVE  Orderly /\ R!Session
<1> DEFINE gone == {c \in S \cap Items : item[c].Reffs = 0 /\ (item[c].mem \/ Named(c))}
<1>1. /\ phase = "up" /\ phase' = phase /\ held' = held /\ Destroy(gone)
      /\ item' = [c \in Item |-> IF c \in gone THEN Blank ELSE item[c]]
  BY DEF CacheClear
<1>2. /\ gone \in SUBSET Items
      /\ \A d \in gone : item[d].Reffs = 0 /\ (~item[d].mem => HasFile(item, d))
  BY DEF Named, HasFile
<1> HIDE DEF gone
<1>3. \A d \in Items \ gone : Same(item, item', d)
  BY <1>1, Facts DEF Same
<1>4. \A d \in gone : item[d].mem => held'[d] = 0
  BY <1>1, <1>2, NotHeld
<1>5. Changes(gone, {})
  BY <1>1, <1>2, <1>3, <1>4, ItemsGone
<1>6. InOrder
  BY <1>5, NoObject
<1> QED
  BY <1>1, <1>2, <1>5, <1>6, NoneChanges

LEMMA SetupStep ==
  ASSUME IInv, IInv', CacheSetup
  PROVE  Orderly /\ R!Session
<1> DEFINE gone == IF dsk_num > DskLim \/ dsk_use > DskMax
                   THEN FilesToRemove(dsk_num - DskLim, dsk_use - DskMax)
                   ELSE {}
<1>1. /\ phase = "built" /\ phase' = "up" /\ Destroy(gone)
      /\ item' = [c \in Item |-> IF c \in gone THEN Blank ELSE item[c]]
  BY DEF CacheSetup
<1>2. gone \in SUBSET Items /\ \A d \in gone : HasFile(item, d)
  BY FilesToRemoveIs
<1> HIDE DEF gone
<1>3. \A d \in Items \ gone : Same(item, item', d)
  BY <1>1, Facts DEF Same
<1>4. \A d \in gone : item[d].mem => held'[d] = 0
  BY <1>2 DEF HasFile
<1>5. Changes(gone, {})
  BY <1>1, <1>2, <1>3, <1>4, ItemsGone
<1>6. InOrder
  BY <1>5, NoObject
<1> QED
  BY <1>1, <1>2, <1>5, <1>6, NoneChanges

-----------------------------------------------------------------------------
(***************************************************************************)
(* A decoded copy comes: the handler that makes room in memory.            *)
(***************************************************************************)
LEMMA InsertChangesItems ==
  ASSUME IInv, NEW l \in Loc, NEW ident, NEW size, NEW unsized,
         CacheInsert(l, ident, size, unsized)
  PROVE  LET c    == Min(Free)
             gone == Throw(Unused, mem_use + size - MemMax)
         IN  /\ Changes(gone, {c}) /\ c \notin Items
             /\ \A d \in gone : item[d].mem
             /\ item'[c].mem
             /\ Items' = (Items \ gone) \cup {c}
<1> DEFINE c    == Min(Free)
           gone == Throw(Unused, mem_use + size - MemMax)
           loc  == LocalOf(l)
           r    == [Blank EXCEPT !.Location = l, !.mem = TRUE, !.Ident = ident,
                                 !.Object = TRUE, !.Size = size, !.Reffs = 1]
<1>1. /\ lru' = <<c>> \o MoveOut(lru, gone)
      /\ item' = [d \in Item |->
              CASE d = c -> r
                [] d \in gone -> Blank
                [] d = loc /\ unsized -> [item[d] EXCEPT !.Ident = LocalId]
                [] OTHER -> item[d]]
      /\ held' = [held EXCEPT ![c] = 1]
  BY DEF CacheInsert
<1>2. c \in Item /\ c \notin Items
  BY NewItem DEF CacheInsert
<1>3. Items \in SUBSET Item /\ item \in [Item -> ItemRecord] /\ lru \in Seq(Item)
  BY Facts DEF IInv
<1>4. gone \in SUBSET (Unused \cap Items)
  BY ThrowIs
<1>5. \A d \in gone : d \in Items /\ item[d].mem /\ item[d].Reffs = 0
  BY <1>4 DEF Unused, MemOf
<1>6. held \in [Item -> 0 .. MaxHeld]
  BY DEF IInv, Pointed
<1>0. r.mem
  BY DEF Blank
<1> HIDE DEF c, gone, loc, r
<1>7. Items' = (Items \ gone) \cup {c}
  <2>1. /\ MoveOut(lru, gone) \in Seq(Item)
        /\ ToSet(MoveOut(lru, gone)) = Items \ gone
    BY <1>3, MoveOutElements DEF Items
  <2> QED
    BY <1>1, <1>2, <2>1, Prepended DEF Items
<1>8. ASSUME NEW d \in Items \ gone
      PROVE  Same(item, item', d)
  <2>1. d \in Item /\ d # c
    BY <1>2, <1>3
  <2>2. CASE d = loc /\ unsized
    <3>1. item'[d] = [item[d] EXCEPT !.Ident = LocalId]
      BY <1>1, <2>1, <2>2
    <3> QED
      BY <1>3, <2>1, <3>1 DEF Same, ItemRecord
  <2>3. CASE ~(d = loc /\ unsized)
    <3>1. item'[d] = item[d]
      BY <1>1, <2>1, <2>3
    <3> QED
      BY <3>1 DEF Same
  <2> QED
    BY <2>2, <2>3
<1>9. item'[c].mem
  <2>0. c \notin gone /\ ~(c = loc /\ unsized)
    BY <1>2, <1>5, LocalIs, CacheAssumption DEF loc
  <2>1. item'[c] = r
    BY <1>1, <1>2, <2>0
  <2> QED
    BY <1>0, <2>1
<1>10. \A d \in gone : item[d].mem => held'[d] = 0
  <2>1. \A d \in gone : d \in Item /\ d # c /\ held[d] = 0
    BY <1>2, <1>3, <1>5, NotHeld
  <2> QED
    BY <1>1, <1>6, <2>1
<1>11. Changes(gone, {c})
  BY <1>2, <1>5, <1>7, <1>8, <1>10 DEF Changes
<1> QED
  BY <1>2, <1>5, <1>7, <1>9, <1>11 DEF c, gone

\* cache_throw() takes no object while it leaves one behind it that may go.
LEMMA ThrowInOrder ==
  ASSUME IInv, NEW may \in SUBSET Items, NEW need \in Int,
         NEW i \in DOMAIN lru, NEW k \in DOMAIN lru, i < k,
         lru[k] \in may, lru[i] \in Throw(may, need)
  PROVE  lru[k] \in Throw(may, need)
<1> DEFINE at == {j \in DOMAIN lru : lru[j] \in may}
           behind(j) == {lru[m] : m \in {n \in at : n > j}}
           g == SizesOf(item)
<1>1. /\ lru \in Seq(Item) /\ IsInjective(lru) /\ Items \in SUBSET Item
      /\ item \in [Item -> ItemRecord]
  BY Facts DEF IInv
<1>2. Len(lru) \in Nat /\ DOMAIN lru = 1 .. Len(lru)
  BY <1>1, LenProperties
<1>3. ~(need <= 0)
  BY DEF Throw
<1>4. Throw(may, need) = {lru[j] : j \in {m \in at : Bytes(behind(m)) < need}}
  BY <1>3 DEF Throw
<1>5. Bytes(behind(i)) < need
  <2>1. PICK j \in {m \in at : Bytes(behind(m)) < need} : lru[i] = lru[j]
    BY <1>4
  <2>2. i = j
    BY <1>1, <2>1 DEF IsInjective
  <2> QED
    BY <2>1, <2>2
<1>6. behind(k) \in SUBSET behind(i) /\ behind(i) \in SUBSET may
  BY <1>2
<1>7. /\ behind(k) \in SUBSET Item /\ behind(i) \in SUBSET Item
  BY <1>1, <1>6
<1>8. k \in at
  OBVIOUS
<1> HIDE DEF behind, at, g
<1>9. /\ Bytes(behind(k)) = Total(g, behind(k))
      /\ Bytes(behind(i)) = Total(g, behind(i))
  BY <1>1, <1>7, BytesTotal DEF g
<1>10. /\ IsFiniteSet(behind(i)) /\ IsFiniteSet(behind(k))
       /\ \A x \in behind(i) : g[x] \in Nat
       /\ \A x \in behind(k) : g[x] \in Nat
  BY <1>1, <1>7, ItemsFinite, SizesNat DEF g
<1>11. /\ Total(g, behind(k)) <= Total(g, behind(i))
       /\ Total(g, behind(k)) \in Nat /\ Total(g, behind(i)) \in Nat
  BY <1>6, <1>10, TotalOfMore, TotalStep
<1>12. Bytes(behind(k)) < need
  BY <1>5, <1>9, <1>11
<1> QED
  BY <1>4, <1>8, <1>12

LEMMA InsertInOrder ==
  ASSUME IInv, NEW l \in Loc, NEW ident, NEW size \in Sizes, NEW unsized,
         CacheInsert(l, ident, size, unsized)
  PROVE  InOrder
<1> DEFINE c    == Min(Free)
           need == mem_use + size - MemMax
           gone == Throw(Unused, need)
<1>1. Items' = (Items \ gone) \cup {c} /\ c \notin Items
  BY InsertChangesItems
<1>2. need \in Int
  BY Facts, CacheAssumption
<1>3. Unused \in SUBSET Items
  BY DEF Unused, MemOf
<1> HIDE DEF c, need
<1> SUFFICES ASSUME NEW i \in DOMAIN lru, NEW k \in DOMAIN lru, i < k,
                    lru[i] \in Unused, lru[k] \in Unused, lru[k] \in Items'
             PROVE  lru[i] \in Items'
  BY DEF InOrder, Items
<1>4. lru[k] \notin gone
  BY <1>1, <1>3
<1>5. lru[i] \notin gone
  BY <1>2, <1>3, <1>4, ThrowInOrder
<1> QED
  BY <1>1, <1>3, <1>5

LEMMA InsertStep ==
  ASSUME IInv, IInv', NEW l \in Loc, NEW ident, NEW size \in Sizes, NEW unsized,
         CacheInsert(l, ident, size, unsized)
  PROVE  Orderly /\ R!Session
<1> DEFINE c    == Min(Free)
           gone == Throw(Unused, mem_use + size - MemMax)
<1>1. phase = "up" /\ phase' = phase
  BY DEF CacheInsert
<1>2. /\ Changes(gone, {c}) /\ c \notin Items
      /\ \A d \in gone : item[d].mem
      /\ item'[c].mem
  BY InsertChangesItems
<1> HIDE DEF c, gone
<1>3. /\ {c} \cap (Items \ gone) = {}
      /\ \A d \in gone : ~item[d].mem => HasFile(item, d)
      /\ \A n \in {c} : item'[n].mem
  BY <1>2
<1>4. InOrder
  BY InsertInOrder
<1> QED
  BY <1>1, <1>2, <1>3, <1>4, NoneChanges

-----------------------------------------------------------------------------
(***************************************************************************)
(* Reservations begin and end.                                             *)
(***************************************************************************)
LEMMA ReservedHolder ==
  ASSUME IInv, NEW l \in Loc, Reserved(l)
  PROVE  /\ HolderIn(Items, item, l) = "loader"
         /\ \A c \in Items : item[c].Location = l /\ ~item[c].mem => c = DiskItem(l)
<1>1. /\ DiskItem(l) \in Items /\ item[DiskItem(l)].Location = l
      /\ OnDisk(item, DiskItem(l)) /\ ~HasFile(item, DiskItem(l))
  BY ReservedItem
<1>2. \A c \in Items : item[c].Location = l /\ ~item[c].mem => c = DiskItem(l)
  BY <1>1 DEF IInv, Distinct, OnDisk
<1>3. DiskOf(Items, item, l) = {DiskItem(l)}
  BY <1>1, <1>2 DEF DiskOf, OnDisk
<1> QED
  BY <1>1, <1>2, <1>3 DEF HolderIn

LEMMA GivenUp ==
  ASSUME IInv, IInv', NEW l \in Loc, Reserved(l), phase = "up", phase' = phase,
         NEW S \in SUBSET Items, DiskItem(l) \in S, Destroy(S),
         \A d \in S : d # DiskItem(l) => HasFile(item, d),
         \A d \in Items \ S : Same(item, item', d)
  PROVE  Orderly /\ R!Session
<1>1. /\ HolderIn(Items, item, l) = "loader"
      /\ \A c \in Items : item[c].Location = l /\ ~item[c].mem => c = DiskItem(l)
  BY ReservedHolder
<1>2. OnDisk(item, DiskItem(l)) /\ item[DiskItem(l)].Location = l
  BY ReservedItem
<1>3. \A d \in S : item[d].mem => held'[d] = 0
  BY <1>2 DEF HasFile, OnDisk
<1>4. Changes(S, {}) /\ Items' = Items \ S
  BY <1>3, ItemsGone
<1>5. HolderIn(Items', item', l) = "nobody"
  <2>1. DiskOf(Items', item', l) = {}
    BY <1>1, <1>4 DEF DiskOf, OnDisk, Same
  <2> QED
    BY <2>1 DEF HolderIn
<1>6. \A c \in S : ~item[c].mem /\ item[c].Location # l => HasFile(item, c)
  BY <1>2
<1>7. phase # "down" /\ phase' # "down" /\ {} \cap (Items \ S) = {}
  OBVIOUS
<1> QED
  BY ONLY IInv, IInv', <1>1, <1>4, <1>5, <1>6, <1>7, OneChanges

LEMMA AbortStep ==
  ASSUME IInv, IInv', NEW l \in Loc, CacheAbort(l)
  PROVE  Orderly /\ R!Session
<1> DEFINE c == DiskItem(l)
<1>1. /\ phase = "up" /\ phase' = phase /\ Reserved(l) /\ Destroy({c})
      /\ item' = [item EXCEPT ![c] = Blank]
  BY DEF CacheAbort
<1>2. c \in Items /\ item \in [Item -> ItemRecord] /\ Items \in SUBSET Item
  BY <1>1, ReservedItem, Facts
<1>3. \A d \in Items \ {c} : Same(item, item', d)
  BY <1>1, <1>2 DEF Same
<1>4. {c} \in SUBSET Items /\ c \in {c} /\ \A d \in {c} : d # c => HasFile(item, d)
  BY <1>2
<1> QED
  BY <1>1, <1>3, <1>4, GivenUp

LEMMA AssignFailsStep ==
  ASSUME IInv, IInv', NEW l \in Loc, NEW size, CacheAssignFails(l, size)
  PROVE  Orderly /\ R!Session
<1> DEFINE c == DiskItem(l)
           S == RoomFor(size) \cup {c}
<1>1. /\ phase = "up" /\ phase' = phase /\ Reserved(l) /\ Destroy(S)
      /\ item' = [d \in Item |-> IF d \in S THEN Blank ELSE item[d]]
  BY DEF CacheAssignFails
<1>2. c \in Items /\ Items \in SUBSET Item
  BY <1>1, ReservedItem, Facts
<1>3. S \in SUBSET Items /\ c \in S /\ \A d \in S : d # c => HasFile(item, d)
  BY <1>2, RoomForIs
<1> HIDE DEF S
<1>4. \A d \in Items \ S : Same(item, item', d)
  BY <1>1, <1>2 DEF Same
<1> QED
  BY <1>1, <1>3, <1>4, GivenUp

LEMMA AssignStep ==
  ASSUME IInv, IInv', NEW l \in Loc, NEW size, NEW date, CacheAssign(l, size, date)
  PROVE  Orderly /\ R!Session
<1> DEFINE c    == DiskItem(l)
           gone == RoomFor(size)
           r    == [item[c] EXCEPT !.Object = TRUE, !.Size = size,
                      !.Expires = date, !.Cached = fid,
                      !.Reffs = item[c].Reffs - 1]
<1>1. /\ phase = "up" /\ phase' = phase /\ Reserved(l) /\ held' = held
      /\ lru' = MoveOut(lru, gone)
      /\ item' = [d \in Item |->
           CASE d = c -> r
             [] d \in gone -> Blank
             [] OTHER -> item[d]]
  BY DEF CacheAssign
<1>2. /\ c \in Items /\ c \in Item /\ item[c].Location = l
      /\ OnDisk(item, c) /\ ~HasFile(item, c)
  BY <1>1, ReservedItem
<1>3. /\ Items \in SUBSET Item /\ item \in [Item -> ItemRecord] /\ lru \in Seq(Item)
      /\ fid \in 1 .. MaxFid + 1 /\ MaxFid \in Nat
  BY Facts, CacheAssumption DEF IInv
<1>4. gone \in SUBSET Items /\ \A d \in gone : HasFile(item, d)
  BY RoomForIs
<1>5. /\ HolderIn(Items, item, l) = "loader"
      /\ \A d \in Items : item[d].Location = l /\ ~item[d].mem => d = c
  BY <1>1, ReservedHolder
<1> HIDE DEF c, gone
<1>6. /\ r.Location = l /\ ~r.mem /\ r.Cached = fid
  BY <1>2, <1>3 DEF ItemRecord, OnDisk
<1> HIDE DEF r
<1>7. Items' = Items \ gone
  BY <1>1, <1>3, MoveOutElements DEF Items
<1>8. c \notin gone /\ item'[c] = r
  BY <1>1, <1>2, <1>4
<1>9. ASSUME NEW d \in Items \ (gone \cup {c})
      PROVE  Same(item, item', d)
  <2>1. item'[d] = item[d]
    BY <1>1, <1>3
  <2> QED
    BY <2>1 DEF Same
<1>10. Changes(gone \cup {c}, {c})
  <2>1. \A d \in gone \cup {c} : item[d].mem => held'[d] = 0
    BY <1>2, <1>4 DEF HasFile, OnDisk
  <2>2. Items' = (Items \ (gone \cup {c})) \cup {c}
    BY <1>2, <1>7, <1>8
  <2> QED
    BY <1>2, <1>4, <1>9, <2>1, <2>2 DEF Changes
<1>11. HolderIn(Items', item', l) = "file"
  <2>1. c \in DiskOf(Items', item', l) /\ HasFile(item', c)
    BY <1>2, <1>3, <1>6, <1>7, <1>8 DEF DiskOf, OnDisk, HasFile
  <2> QED
    BY <2>1 DEF HolderIn
<1>12. /\ {c} \cap (Items \ (gone \cup {c})) = {}
       /\ \A d \in gone \cup {c} : ~item[d].mem /\ item[d].Location # l => HasFile(item, d)
       /\ \A n \in {c} : item'[n].Location = l /\ ~item'[n].mem
  BY <1>2, <1>4, <1>6, <1>8
<1> QED
  BY <1>1, <1>5, <1>10, <1>11, <1>12, OneChanges

LEMMA ExclusiveStep ==
  ASSUME IInv, IInv', NEW l \in Loc, CacheExclusive(l)
  PROVE  Orderly /\ R!Session
<1> DEFINE c == Min(Free)
           r == [Blank EXCEPT !.Location = l, !.Reffs = 1]
<1>1. /\ phase = "up" /\ phase' = phase /\ DiskItem(l) = Nil
      /\ lru' = <<c>> \o lru /\ item' = [item EXCEPT ![c] = r]
  BY DEF CacheExclusive
<1>2. c \in Item /\ c \notin Items
  BY NewItem DEF CacheExclusive
<1>3. Items \in SUBSET Item /\ item \in [Item -> ItemRecord] /\ lru \in Seq(Item)
  BY Facts DEF IInv
<1> HIDE DEF c
<1>4. r.Location = l /\ ~r.mem /\ r.Cached = 0
  BY DEF Blank
<1> HIDE DEF r
<1>5. Items' = Items \cup {c}
  BY <1>1, <1>2, <1>3, Prepended DEF Items
<1>6. item'[c] = r /\ \A d \in Items : item'[d] = item[d]
  BY <1>1, <1>2, <1>3
<1>7. Changes({}, {c})
  BY <1>2, <1>5, <1>6 DEF Changes, Same
<1>8. DiskOf(Items, item, l) = {}
  BY <1>1, DiskItemIs
<1>9. HolderIn(Items, item, l) = "nobody"
  BY <1>8 DEF HolderIn
<1>10. HolderIn(Items', item', l) = "loader"
  <2>1. DiskOf(Items', item', l) = {c}
    BY <1>4, <1>5, <1>6, <1>8 DEF DiskOf, OnDisk
  <2>2. ~HasFile(item', c)
    BY <1>4, <1>6 DEF HasFile
  <2> QED
    BY <2>1, <2>2 DEF HolderIn
<1>11. {c} \cap (Items \ {}) = {} /\ \A n \in {c} : item'[n].Location = l /\ ~item'[n].mem
  BY <1>2, <1>4, <1>6
<1>12. phase # "down" /\ phase' # "down"
  BY <1>1
<1>13. \A d \in {} : ~item[d].mem /\ item[d].Location # l => HasFile(item, d)
  OBVIOUS
<1> QED
  BY ONLY IInv, IInv', <1>7, <1>9, <1>10, <1>11, <1>12, <1>13, OneChanges

-----------------------------------------------------------------------------
(***************************************************************************)
(* Sessions begin and end.                                                 *)
(***************************************************************************)
LEMMA ForgetStep ==
  ASSUME IInv, IInv', phase # "down", Forget
  PROVE  Orderly /\ R!Stop
<1>1. /\ phase' = "down" /\ lru' = <<>> /\ held' = [c \in Item |-> 0]
  BY DEF Forget
<1>2. Items \in SUBSET Item
  BY Facts
<1>3. InUse
  BY <1>1, <1>2 DEF InUse
<1>4. HeldBy' = [l \in Loc |-> HolderIn(Items', item', l)]
  BY HeldByNext
<1>5. Items' = {}
  BY <1>1 DEF Items, ToSet
<1>6. \A l \in Loc : HolderIn(Items', item', l) = "nobody"
  BY <1>5 DEF HolderIn, DiskOf
<1>7. HeldBy' = R!Nothing
  BY <1>4, <1>6 DEF R!Nothing
<1> QED
  BY <1>1, <1>3, <1>5, <1>7 DEF Orderly, InOrder, Items, R!Stop

\* What cache_build() reads are files.
LEMMA BuildStep ==
  ASSUME IInv, IInv', NEW late \in SUBSET DOMAIN index.lines, CacheBuild(late)
  PROVE  Orderly /\ R!Start
<1> DEFINE lines == index.lines
           gone  == {k \in DOMAIN lines : lines[k].Expires = AT_EXIT} \cup late
           stay  == DOMAIN lines \ gone
           first == MoveOut(Reverse([k \in DOMAIN lines |-> k]), gone)
<1>1. /\ phase = "down" /\ phase' = "built" /\ lru' = first
      /\ item' = [c \in Item |->
           IF c \notin stay THEN Blank
           ELSE [Location |-> lines[c].Location, mem |-> FALSE,
                 Ident |-> lines[c].Ident, Object |-> FALSE,
                 Size |-> lines[c].Size, Reffs |-> 0,
                 Cached |-> lines[c].Cached, Expires |-> lines[c].Expires]]
  BY DEF CacheBuild
<1>2. Items = {}
  <2>1. lru = <<>>
    BY <1>1 DEF IInv
  <2> QED
    BY <2>1 DEF Items, ToSet
<1>3. InUse
  BY <1>2 DEF InUse
<1>4. lines \in Seq(Line)
  BY DEF IInv, IndexRight
<1>5. Items' \in SUBSET stay
  <2> DEFINE n == Len(lines)
             q == [k \in DOMAIN lines |-> k]
  <2>1. n \in Nat /\ DOMAIN lines = 1 .. n
    BY <1>4, LenProperties
  <2>2. q \in Seq(1 .. n) /\ ToSet(q) = 1 .. n
    <3>1. q \in [1 .. n -> 1 .. n]
      BY <2>1
    <3>2. q \in Seq(1 .. n)
      BY <2>1, <3>1
    <3> QED
      BY <2>1, <3>2 DEF ToSet
  <2> HIDE DEF q
  <2>3. Reverse(q) \in Seq(1 .. n) /\ ToSet(Reverse(q)) = 1 .. n
    BY <2>2, Reversed
  <2>4. ToSet(first) = (1 .. n) \ gone
    BY <2>3, MoveOutElements DEF q
  <2> HIDE DEF first, gone
  <2> QED
    BY <1>1, <2>1, <2>4 DEF Items
<1> HIDE DEF first, gone, stay, lines
<1>6. Items' \in SUBSET Item
  BY DEF IInv, ItemsRight
<1>7. ASSUME NEW c \in Items'
      PROVE  HasFile(item', c)
  <2>1. c \in Item /\ c \in stay
    BY <1>5, <1>6
  <2>2. c \in DOMAIN lines
    BY <2>1 DEF stay
  <2>3. lines[c].Cached \in Name
    <3>1. DOMAIN lines = 1 .. Len(lines)
      BY <1>4, LenProperties
    <3>2. lines[c] \in Line
      BY <1>4, <2>2, <3>1, ElementOfSeq
    <3> QED
      BY <3>2 DEF Line
  <2>4. /\ ~item'[c].mem /\ item'[c].Cached = lines[c].Cached
    BY <1>1, <2>1
  <2> QED
    BY <2>3, <2>4, CacheAssumption DEF HasFile, Name
<1>8. \A l \in Loc : HolderIn(Items', item', l) \in {"nobody", "file"}
  BY <1>7 DEF HolderIn, DiskOf
<1>9. HeldBy' = [l \in Loc |-> HolderIn(Items', item', l)]
  BY HeldByNext
<1>10. InOrder
  BY <1>7 DEF InOrder, Items, HasFile
<1> QED
  BY <1>1, <1>3, <1>8, <1>9, <1>10 DEF Orderly, R!Start

-----------------------------------------------------------------------------
LEMMA NextStep ==
  ASSUME IInv, IInv', Next
  PROVE  Orderly /\ R!Next
<1>1. ASSUME NEW l \in Loc, NEW ident \in Idents, NEW size \in Sizes,
             NEW unsized \in BOOLEAN, CacheInsert(l, ident, size, unsized)
      PROVE  Orderly /\ R!Session
  BY <1>1, InsertStep
<1>2. ASSUME NEW l \in Loc, NEW ident \in Idents \cup {0}, NEW any \in BOOLEAN,
             CacheLookup(l, ident, any)
      PROVE  Orderly /\ R!Session
  BY <1>2, LookupStep
<1>3. ASSUME NEW l \in Loc, CacheQuery(l)
      PROVE  Orderly /\ R!Session
  BY <1>3, QueryStep
<1>4. ASSUME NEW c \in Item, CacheBound(c)
      PROVE  Orderly /\ R!Session
  BY <1>4, BoundStep
<1>5. ASSUME NEW c \in Item, NEW erase \in BOOLEAN, CacheRelease(c, erase)
      PROVE  Orderly /\ R!Session
  BY <1>5, CacheReleaseStep
<1>6. ASSUME NEW c \in Item, LoaderRelease(c)
      PROVE  Orderly /\ R!Session
  BY <1>6, LoaderReleaseStep
<1>7. ASSUME NEW S, CacheClear(S)
      PROVE  Orderly /\ R!Session
  BY <1>7, ClearStep
<1>8. ASSUME NEW l \in Loc, CacheExclusive(l) \/ CacheAbort(l)
      PROVE  Orderly /\ R!Session
  BY <1>8, ExclusiveStep, AbortStep
<1>9. ASSUME NEW l \in Loc, NEW size \in Sizes, CacheAssignFails(l, size)
      PROVE  Orderly /\ R!Session
  BY <1>9, AssignFailsStep
<1>10. ASSUME NEW l \in Loc, NEW size \in Sizes, NEW date \in Dates,
              CacheAssign(l, size, date)
       PROVE  Orderly /\ R!Session
  BY <1>10, AssignStep
<1>11. ASSUME NEW l \in Loc, NEW date \in Dates \ {NEVER}, CacheExpires(l, date)
       PROVE  Orderly /\ R!Session
  BY <1>11, ExpiresStep
<1>12. ASSUME NEW late \in SUBSET Dated(LATER), Exit(late)
       PROVE  Orderly /\ R!Stop
  <2>1. phase # "down" /\ Forget
    BY <1>12 DEF Exit
  <2> QED
    BY <2>1, ForgetStep
<1>13. ASSUME NEW n \in -1 .. Len(index.lines), Crash(n)
       PROVE  Orderly /\ R!Stop
  <2>1. phase # "down" /\ Forget
    BY <1>13 DEF Crash
  <2> QED
    BY <2>1, ForgetStep
<1>14. ASSUME NEW late \in SUBSET DOMAIN index.lines, CacheBuild(late)
       PROVE  Orderly /\ R!Start
  BY <1>14, BuildStep
<1>15. CASE CacheSetup
  BY <1>15, SetupStep DEF R!Next
<1> QED
  BY <1>1, <1>2, <1>3, <1>4, <1>5, <1>6, <1>7, <1>8, <1>9, <1>10, <1>11, <1>12,
     <1>13, <1>14, <1>15 DEF Next, R!Next

LEMMA VarsSame ==
  ASSUME IInv, UNCHANGED vars
  PROVE  /\ Items' = Items /\ lru' = lru /\ item' = item /\ held' = held
         /\ phase' = phase /\ HeldBy' = HeldBy
<1>1. /\ lru' = lru /\ item' = item /\ held' = held /\ phase' = phase
      /\ chain' = chain
  BY DEF vars, memory, disk
<1>2. HeldBy' = HeldBy
  BY <1>1 DEF HeldBy, DiskItem, Named
<1> QED
  BY <1>1, <1>2 DEF Items

\* No object in memory goes that a client still points to, whatever the order
\* of lookups, insertions, releases and clears.
THEOREM InUseHolds == Spec => InUseStays
<1>1. ASSUME IInv, IInv', [Next]_vars
      PROVE  [InUse]_vars
  BY <1>1, NextStep DEF Orderly
<1>2. InUseStays <=> [][InUse]_vars
  BY DEF InUseStays, InUse
<1> QED
  BY <1>1, <1>2, Invariant, PTL DEF Spec

\* Objects are thrown out of memory in the order of their last use: to make
\* room for one that comes, none that was used later goes while one that
\* nobody uses stays.
THEOREM ThrownInOrder == Spec => LeastRecentlyUsed
<1>1. ASSUME IInv, IInv', [Next]_vars
      PROVE  [InOrder]_vars
  BY <1>1, NextStep DEF Orderly
<1>2. LeastRecentlyUsed <=> [][InOrder]_vars
  BY DEF LeastRecentlyUsed, InOrder
<1> QED
  BY <1>1, <1>2, Invariant, PTL DEF Spec

\* The cache does for each location what Reservation says: one loader at a
\* time fetches it, and in a session a file comes only from its loader.
THEOREM ReservationsHold == Spec => Reservations
<1>1. Init => R!Init
  <2> SUFFICES ASSUME Init
               PROVE  R!Init
    OBVIOUS
  <2>1. IInv
    BY InitEstablishes
  <2>2. phase = "down" /\ Items = {}
    BY DEF Init, Empty, Items, ToSet
  <2>3. \A l \in Loc : HolderIn(Items, item, l) = "nobody"
    BY <2>2 DEF HolderIn, DiskOf
  <2>4. HeldBy = R!Nothing
    BY <2>1, <2>3, HeldByIs DEF R!Nothing
  <2> QED
    BY <2>2, <2>4 DEF R!Init
<1>2. ASSUME IInv, IInv', [Next]_vars
      PROVE  [R!Next]_(R!vars)
  <2>1. CASE Next
    BY <1>2, <2>1, NextStep
  <2>2. CASE UNCHANGED vars
    <3>1. (phase # "down")' = (phase # "down") /\ HeldBy' = HeldBy
      BY <1>2, <2>2, VarsSame
    <3> QED
      BY <3>1 DEF R!vars
  <2> QED
    BY <1>2, <2>1, <2>2
<1> QED
  BY <1>1, <1>2, Invariant, PTL DEF Spec, Reservations, R!Spec

=============================================================================
