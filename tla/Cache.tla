------------------------------- MODULE Cache -------------------------------
(***************************************************************************)
(* The cache of the browser (src/src/cache.c): decoded images in memory    *)
(* and downloaded files on disk, in one list that is ordered by last use,  *)
(* and the index file that carries the files to the next session.          *)
(*                                                                         *)
(* Clients keep pointers to what they use.  The cache counts them (Reffs), *)
(* and they are counted here a second time, on the clients' side (held).   *)
(* The search tree that finds the items of a location is left out: here    *)
(* it is a chain of items for each location.                               *)
(***************************************************************************)
EXTENDS JobList

CONSTANTS
  Loc,       \* the remote locations
  MaxItems,  \* bound: the items that exist or are pointed to at a time
  MaxFid,    \* bound: the file names of one session
  MaxHeld,   \* bound: the pointers clients have to one item
  Idents,    \* what decoded copies of a location are told apart by
  LocalId,   \* the ident cache_insert() gives the file of a decoded copy
  Sizes,     \* the sizes of objects and files
  Dates,     \* of expiry: NEVER, AT_EXIT, LATER
  MemMax, DskMax, DskLim,   \* the limits that are configured
  Nil

NEVER   ==  0
AT_EXIT == -1     \* "mark to get deleted at program end"
LATER   ==  1

Item == 1 .. MaxItems
Name == 1 .. MaxFid

ASSUME CacheAssumption ==
  /\ MaxItems \in Nat
  /\ MaxFid \in Nat \ {0}
  /\ MaxHeld \in Nat \ {0}
  /\ Idents \subseteq Nat \ {0}
  /\ LocalId \in Nat \ {0}
  /\ Sizes \subseteq Nat \ {0}
  /\ Dates \subseteq {NEVER, AT_EXIT, LATER}
  /\ {MemMax, DskMax, DskLim} \subseteq Nat
  /\ Nil \notin Loc \cup Item

VARIABLES
  phase,     \* "down", "built" by cache_build(), or "up"
  lru,       \* the list from __cache_beg to __cache_end
  chain,     \* the items of a location in the order of NodeNext
  item,      \* the fields of the items
  mem_use, mem_num, dsk_use, dsk_num,
  changed,   \* the index is not what cache.idx says
  fid,       \* the number of the next file
  at_exit,   \* _exit_flush() is registered
  index,     \* cache.idx: its header and lines; fid 0 for no valid header
  files,     \* the other files of the directory: whose content they hold
  wrote,     \* the last step wrote cache.idx from its first line to its last
  held,      \* the pointers clients got from cache_bound(), cache_insert()
  loaded     \* the items whose pointer a loader got from cache_assign()

memory == <<lru, chain, item, mem_use, mem_num, dsk_use, dsk_num>>
disk   == <<changed, fid, index, wrote>>
vars   == <<phase, memory, disk, files, at_exit, held, loaded>>

Blank == [Location |-> Nil, mem |-> FALSE, Ident |-> 0, Object |-> FALSE,
          Size |-> 0, Reffs |-> 0, Cached |-> 0, Expires |-> NEVER]

ItemRecord == [Location : Loc \cup {Nil}, mem : BOOLEAN, Ident : Nat,
               Object : BOOLEAN, Size : Nat, Reffs : Nat,
               Cached : Name \cup {0}, Expires : {NEVER, AT_EXIT, LATER}]

Line == [Location : Loc, Cached : Name, Ident : Nat, Size : Nat,
         Expires : {NEVER, AT_EXIT, LATER}]

TypeOK ==
  /\ phase \in {"down", "built", "up"}
  /\ lru \in Seq(Item)
  /\ chain \in [Loc -> Seq(Item)]
  /\ item \in [Item -> ItemRecord]
  /\ {mem_use, mem_num, dsk_use, dsk_num} \subseteq Nat
  /\ changed \in BOOLEAN
  /\ fid \in 0 .. MaxFid + 1
  /\ at_exit \in BOOLEAN
  /\ index.fid \in 0 .. MaxFid + 1
  /\ index.lines \in Seq(Line)
  /\ files \in [Name -> Loc \cup {Nil}]
  /\ wrote \in BOOLEAN
  /\ held \in [Item -> 0 .. MaxHeld]
  /\ loaded \subseteq Item

NoIndex == [fid |-> 0, lines |-> <<>>]

Empty ==
  /\ lru = <<>>
  /\ chain = [l \in Loc |-> <<>>]
  /\ item = [c \in Item |-> Blank]
  /\ mem_use = 0 /\ mem_num = 0 /\ dsk_use = 0 /\ dsk_num = 0

Init ==
  /\ phase = "down"
  /\ Empty
  /\ changed = FALSE /\ fid = 1 /\ at_exit = FALSE /\ wrote = FALSE
  /\ index = NoIndex
  /\ files = [n \in Name |-> Nil]
  /\ held = [c \in Item |-> 0]
  /\ loaded = {}

-----------------------------------------------------------------------------
(***************************************************************************)
(* Items.                                                                  *)
(***************************************************************************)
Items == ToSet(lru)

\* What malloc() can return: not what a client still points to.
Free == {c \in Item \ (Items \cup loaded) : held[c] = 0}

\* Mutant: the first item of the chain, in memory or on disk.
DiskItemFirst(l) == IF chain[l] = <<>> THEN Nil ELSE Head(chain[l])

\* tree_item(): the item of a location that is on disk, or shall be
DiskItem(l) ==
  LET onDisk == {i \in DOMAIN chain[l] : ~item[chain[l][i]].mem}
  IN  IF onDisk = {} THEN Nil ELSE chain[l][Min(onDisk)]

Named(c) == ~item[c].mem /\ item[c].Cached # 0

Bytes(S) == MapThenSumSet(LAMBDA c : item[c].Size, S)
MemOf(S) == {c \in S : item[c].mem}
DskOf(S) == S \ MemOf(S)
NamesOf(S) == {item[c].Cached : c \in {d \in S : Named(d)}}

MoveToFront(q, c) == <<c>> \o MoveOut(q, {c})

Unlinked(names) == [n \in Name |-> IF n \in names THEN Nil ELSE files[n]]

\* Mutant: the most recently used ones go first.
ThrowNewest(may, need) ==
  IF need <= 0 THEN {}
  ELSE LET at == {i \in DOMAIN lru : lru[i] \in may}
           behind(i) == {lru[k] : k \in {m \in at : m < i}}
       IN  {lru[i] : i \in {m \in at : Bytes(behind(m)) < need}}

(***************************************************************************)
(* cache_throw(): the items in memory that go to free need bytes, among    *)
(* those that may go, from the end of the list.                            *)
(***************************************************************************)
Throw(may, need) ==
  IF need <= 0 THEN {}
  ELSE LET at == {i \in DOMAIN lru : lru[i] \in may}
           behind(i) == {lru[k] : k \in {m \in at : m > i}}
       IN  {lru[i] : i \in {m \in at : Bytes(behind(m)) < need}}

\* Mutant: items in use are thrown as well.
UnusedOrNot == MemOf(Items)

Unused == {c \in MemOf(Items) : item[c].Reffs = 0}

(***************************************************************************)
(* cache_remove(): the files that go, at least one if there is any, until  *)
(* num files and use bytes are gone.                                       *)
(***************************************************************************)
FilesToRemove(num, use) ==
  LET at == {i \in DOMAIN lru : Named(lru[i]) /\ item[lru[i]].Reffs = 0}
      behind(i) == {lru[k] : k \in {m \in at : m > i}}
  IN  {lru[i] : i \in {m \in at : \/ behind(m) = {}
                                  \/ Cardinality(behind(m)) < num
                                  \/ Bytes(behind(m)) < use}}

\* destroy_item() for each item of S, except for the field changed
Destroy(S) ==
  /\ lru' = MoveOut(lru, S)
  /\ chain' = [l \in Loc |-> MoveOut(chain[l], S)]
  /\ mem_use' = mem_use - Bytes(MemOf(S))
  /\ mem_num' = mem_num - Cardinality(MemOf(S))
  /\ dsk_use' = dsk_use - Bytes(DskOf(S))
  /\ dsk_num' = dsk_num - Cardinality(DskOf(S))
  /\ files' = Unlinked(NamesOf(S))

-----------------------------------------------------------------------------
(***************************************************************************)
(* The index.                                                              *)
(***************************************************************************)
LineOf(r) == [Location |-> r.Location, Cached |-> r.Cached,
              Ident |-> r.Ident, Size |-> r.Size, Expires |-> r.Expires]

\* Every file on disk, the least recently used one first
Lines(q, it) ==
  LET unnamed == {c \in ToSet(q) : it[c].mem \/ it[c].Cached = 0}
      named   == MoveOut(Reverse(q), unnamed)
  IN  [k \in DOMAIN named |-> LineOf(it[named[k]])]

\* cache_flush (NULL), once the list and the items have their new values;
\* next is the number of the next file
FlushAll(next) ==
  /\ fid' = IF dsk_num' = 0 THEN 1 ELSE next
  /\ index' = [fid |-> fid', lines |-> Lines(lru', item')]
  /\ changed' = FALSE
  /\ wrote' = TRUE

\* Mutant: a line is appended, the header stays as it is.
FlushItemOnly(c, next) ==
  /\ fid' = next
  /\ index' = [fid |-> index.fid, lines |-> Append(index.lines, LineOf(item'[c]))]
  /\ changed' = FALSE
  /\ wrote' = FALSE

\* cache_flush (citem), while nothing else has changed: a line is appended
FlushItem(c, next) ==
  /\ fid' = next
  /\ index' = [fid |-> next, lines |-> Append(index.lines, LineOf(item'[c]))]
  /\ changed' = FALSE
  /\ wrote' = FALSE

\* The index is not written.
NoFlush(ch) ==
  /\ changed' = (changed \/ ch)
  /\ wrote' = FALSE
  /\ UNCHANGED <<fid, index>>

\* item_reorder(): the item was used
ReorderChanges(c) == Head(lru) # c

-----------------------------------------------------------------------------
(***************************************************************************)
(* Objects in memory.                                                      *)
(***************************************************************************)

\* The item of the file of l that cache_insert() gives an ident to
LocalOf(l) ==
  LET named == {i \in DOMAIN chain[l] : item[chain[l][i]].Cached # 0}
  IN  IF named = {} THEN Nil ELSE chain[l][Min(named)]

InsertChanges(l) == LocalOf(l) # Nil

\* cache_insert(): the decoded copy of an image; unsized says that the file
\* has no ident yet (lc_ident)
CacheInsert(l, ident, size, unsized) ==
  /\ phase = "up"
  /\ Free # {}
  /\ LET c    == Min(Free)
         gone == Throw(Unused, mem_use + size - MemMax)
         loc  == LocalOf(l)
     IN  /\ lru' = <<c>> \o MoveOut(lru, gone)
         /\ chain' = [m \in Loc |-> (IF m = l THEN <<c>> ELSE <<>>)
                                      \o MoveOut(chain[m], gone)]
         /\ item' = [d \in Item |->
              CASE d = c -> [Blank EXCEPT !.Location = l, !.mem = TRUE,
                               !.Ident = ident, !.Object = TRUE,
                               !.Size = size, !.Reffs = 1]
                [] d \in gone -> Blank
                [] d = loc /\ unsized -> [item[d] EXCEPT !.Ident = LocalId]
                [] OTHER -> item[d]]
         /\ mem_use' = mem_use - Bytes(gone) + size
         /\ mem_num' = mem_num - Cardinality(gone) + 1
         /\ held' = [held EXCEPT ![c] = 1]
         /\ NoFlush(unsized /\ InsertChanges(l))
  /\ UNCHANGED <<phase, dsk_use, dsk_num, files, at_exit, loaded>>

(***************************************************************************)
(* The place in the chain of l that cache_lookup() finds: the first item   *)
(* with the ident, or the file where the ident is 0; if any item will do   *)
(* (opt_found) else the last one without a file.                           *)
(***************************************************************************)
Found(l, ident, any) ==
  LET fits == {i \in DOMAIN chain[l] :
                 IF ident = 0 THEN item[chain[l][i]].Cached # 0
                              ELSE item[chain[l][i]].Ident = ident}
      rest == {i \in DOMAIN chain[l] : any /\ item[chain[l][i]].Cached = 0}
  IN  CASE fits # {} -> Min(fits)
        [] fits = {} /\ rest # {} -> Max(rest)
        [] OTHER -> 0

\* cache_lookup() that finds something: it is used now, and with ident 0 the
\* location of its file is known from now on
CacheLookup(l, ident, any) ==
  /\ phase = "up"
  /\ Found(l, ident, any) # 0
  /\ LET c == chain[l][Found(l, ident, any)]
     IN  /\ lru' = MoveToFront(lru, c)
         /\ chain' = [chain EXCEPT ![l] = MoveToFront(@, c)]
         /\ item' = [item EXCEPT ![c].Object = @ \/ (ident = 0 /\ Named(c))]
         /\ NoFlush(ReorderChanges(c))
  /\ UNCHANGED <<phase, mem_use, mem_num, dsk_use, dsk_num, files, at_exit,
                 held, loaded>>

\* cache_query() that finds the file of l: as above, but the chain keeps its
\* order
CacheQuery(l) ==
  /\ phase = "up"
  /\ DiskItem(l) # Nil
  /\ Named(DiskItem(l))
  /\ lru' = MoveToFront(lru, DiskItem(l))
  /\ item' = [item EXCEPT ![DiskItem(l)].Object = TRUE]
  /\ NoFlush(ReorderChanges(DiskItem(l)))
  /\ UNCHANGED <<phase, chain, mem_use, mem_num, dsk_use, dsk_num, files,
                 at_exit, held, loaded>>

\* cache_bound(): a client keeps a pointer to what it found
CacheBound(c) ==
  /\ phase = "up"
  /\ item[c].Object
  /\ held[c] < MaxHeld
  /\ item' = [item EXCEPT ![c].Reffs = @ + 1]
  /\ held' = [held EXCEPT ![c] = @ + 1]
  /\ NoFlush(FALSE)
  /\ UNCHANGED <<phase, lru, chain, mem_use, mem_num, dsk_use, dsk_num,
                 files, at_exit, loaded>>

\* Mutant: room is only made when something is inserted.
RoomAfterReleaseNone(may, use) == {}

\* cache_release() ends with a cache_throw() if it is needed
RoomAfterRelease(may, use) == Throw(may, use - MemMax)

\* Mutant: the count wraps below 0.
OneLessUnchecked(reffs) == reffs - 1

OneLess(reffs) == IF reffs = 0 THEN 0 ELSE reffs - 1

(***************************************************************************)
(* cache_release(): the count goes down, and at 0 the item goes if the     *)
(* client wants it to (erase), unless its file is being fetched.           *)
(***************************************************************************)
Release(c, erase) ==
  LET reffs == OneLess(item[c].Reffs)
      gone  == IF /\ c \in Items /\ erase /\ reffs = 0
                  /\ item[c].mem \/ Named(c)
               THEN {c} ELSE {}
      may   == ({d \in MemOf(Items) : d # c /\ item[d].Reffs = 0}
                 \cup {d \in MemOf({c} \cap Items) : reffs = 0}) \ gone
      all   == gone \cup RoomAfterRelease(may, mem_use - Bytes(MemOf(gone)))
  IN  /\ Destroy(all)
      /\ item' = [d \in Item |->
           IF d \in all THEN Blank
           ELSE IF d = c /\ c \in Items THEN [item[c] EXCEPT !.Reffs = reffs]
           ELSE item[d]]
      /\ IF \E d \in gone : Named(d) THEN FlushAll(fid) ELSE NoFlush(FALSE)

\* ... of a pointer that was counted
CacheRelease(c, erase) ==
  /\ phase = "up"
  /\ held[c] > 0
  /\ held' = [held EXCEPT ![c] = @ - 1]
  /\ Release(c, erase)
  /\ UNCHANGED <<phase, at_exit, loaded>>

\* ... of one that was not: delete_loader() after cache_assign(), which
\* counts nothing, nor does the cache_bound (loader->Location, NULL) that
\* follows it in receive_job(), for no item has that Object
LoaderRelease(c) ==
  /\ phase = "up"
  /\ c \in loaded
  /\ loaded' = loaded \ {c}
  /\ Release(c, FALSE)
  /\ UNCHANGED <<phase, at_exit, held>>

\* cache_clear() of the items of S that are not in use and not being fetched
CacheClear(S) ==
  LET gone == {c \in S \cap Items : item[c].Reffs = 0 /\ (item[c].mem \/ Named(c))}
  IN  /\ phase = "up"
      /\ gone # {}
      /\ Destroy(gone)
      /\ item' = [c \in Item |-> IF c \in gone THEN Blank ELSE item[c]]
      /\ IF \E c \in gone : Named(c) THEN FlushAll(fid) ELSE NoFlush(FALSE)
      /\ UNCHANGED <<phase, at_exit, held, loaded>>

-----------------------------------------------------------------------------
(***************************************************************************)
(* Files: a loader reserves the location, fetches the file, and assigns it *)
(* or aborts.                                                              *)
(***************************************************************************)

\* cache_exclusive() that returns CR_NONE
CacheExclusive(l) ==
  /\ phase = "up"
  /\ DiskItem(l) = Nil
  /\ Free # {}
  /\ LET c == Min(Free)
     IN  /\ lru' = <<c>> \o lru
         /\ chain' = [chain EXCEPT ![l] = <<c>> \o @]
         /\ item' = [item EXCEPT ![c] = [Blank EXCEPT !.Location = l, !.Reffs = 1]]
  /\ dsk_num' = dsk_num + 1
  /\ NoFlush(FALSE)
  /\ UNCHANGED <<phase, mem_use, mem_num, dsk_use, files, at_exit, held, loaded>>

\* Reserved: both functions look only for an item without an Object, whoever
\* reserved it, and do nothing if the location has no item or a located one.
\* Left out: an item of the index that no lookup has located yet passes the test
\* of cache_assign() too.  A GET looks before it reserves (new_loader()); the
\* answer to a POST, which reserves nothing, would take the item over.
Reserved(l) == DiskItem(l) # Nil /\ ~Named(DiskItem(l))

\* cache_abort()
CacheAbort(l) ==
  /\ phase = "up"
  /\ Reserved(l)
  /\ Destroy({DiskItem(l)})
  /\ item' = [item EXCEPT ![DiskItem(l)] = Blank]
  /\ NoFlush(FALSE)
  /\ UNCHANGED <<phase, at_exit, held, loaded>>

\* The files that make room for one more of the size
RoomFor(size) ==
  IF dsk_num >= DskLim \/ dsk_use + size > DskMax
  THEN FilesToRemove(dsk_num + 1 - DskLim, dsk_use + size - DskMax)
  ELSE {}

Assigned(size, gone) == dsk_use - Bytes(gone) + size

\* cache_assign(): the file is written and has its line in the index
CacheAssign(l, size, expires) ==
  /\ phase = "up"
  /\ Reserved(l)
  /\ fid <= MaxFid
  /\ LET c    == DiskItem(l)
         gone == RoomFor(size)
     IN  /\ lru' = MoveOut(lru, gone)
         /\ chain' = [m \in Loc |-> MoveOut(chain[m], gone)]
         /\ item' = [d \in Item |->
              CASE d = c -> [item[c] EXCEPT !.Object = TRUE, !.Size = size,
                               !.Expires = expires, !.Cached = fid,
                               !.Reffs = @ - 1]
                [] d \in gone -> Blank
                [] OTHER -> item[d]]
         /\ dsk_use' = Assigned(size, gone)
         /\ dsk_num' = dsk_num - Cardinality(gone)
         /\ files' = [Unlinked(NamesOf(gone)) EXCEPT ![fid] = l]
         /\ loaded' = loaded \cup {c}
         /\ IF changed \/ gone # {} THEN FlushAll(fid + 1) ELSE FlushItem(c, fid + 1)
  /\ UNCHANGED <<phase, mem_use, mem_num, at_exit, held>>

\* ... and cannot be created: the reservation ends, and the room is made all
\* the same, without a flush
CacheAssignFails(l, size) ==
  /\ phase = "up"
  /\ Reserved(l)
  /\ LET gone == RoomFor(size)
     IN  /\ Destroy(gone \cup {DiskItem(l)})
         /\ item' = [d \in Item |->
              IF d \in gone \cup {DiskItem(l)} THEN Blank ELSE item[d]]
         /\ NoFlush(gone # {})
  /\ UNCHANGED <<phase, at_exit, held, loaded>>

\* cache_expires(), which the HTML parser calls for its own document
CacheExpires(l, date) ==
  /\ phase = "up"
  /\ DiskItem(l) # Nil
  /\ date = LATER \/ item[DiskItem(l)].Expires = NEVER
  /\ item' = [item EXCEPT ![DiskItem(l)].Expires = date]
  /\ changed' = TRUE
  /\ wrote' = FALSE
  /\ UNCHANGED <<phase, lru, chain, mem_use, mem_num, dsk_use, dsk_num, fid,
                 index, files, at_exit, held, loaded>>

-----------------------------------------------------------------------------
(***************************************************************************)
(* Sessions.                                                               *)
(***************************************************************************)
Forget ==
  /\ phase' = "down"
  /\ lru' = <<>>
  /\ chain' = [l \in Loc |-> <<>>]
  /\ item' = [c \in Item |-> Blank]
  /\ mem_use' = 0 /\ mem_num' = 0 /\ dsk_use' = 0 /\ dsk_num' = 0
  /\ changed' = FALSE /\ fid' = 1 /\ wrote' = FALSE /\ at_exit' = FALSE
  /\ held' = [c \in Item |-> 0]
  /\ loaded' = {}

Dated(date) == {c \in Items : item[c].Expires = date}

\* The expired files that _exit_flush() meets before it stops at the first
\* item without an Object; late: the items whose date has come
ExpiredAtExit(late) ==
  LET none == {i \in DOMAIN lru : ~item[lru[i]].Object}
      stop == IF none = {} THEN Len(lru) ELSE Min(none) - 1
  IN  {c \in {lru[i] : i \in 1 .. stop} :
         ~item[c].mem /\ c \in Dated(AT_EXIT) \cup late}

\* The program ends.  The index is brought up to date if _exit_flush() was
\* registered, and cache_build() did so only if it had to write the index.
Exit(late) ==
  /\ phase = "up"
  /\ LET gone == IF at_exit THEN ExpiredAtExit(late) ELSE {}
         left == MoveOut(lru, gone)
     IN  /\ files' = Unlinked(NamesOf(gone))
         /\ index' = IF at_exit /\ (changed \/ NamesOf(gone) # {})
                     THEN [fid   |-> IF dsk_num = Cardinality(gone) THEN 1 ELSE fid,
                           lines |-> Lines(left, item)]
                     ELSE index
  /\ Forget

\* The machine is switched off.  If it happens while the whole index is
\* written, only its first n lines are there, or not even the header.
Crash(n) ==
  /\ phase # "down"
  /\ n \in -1 .. Len(index.lines)
  /\ n < Len(index.lines) => wrote
  /\ index' = IF n = -1 THEN NoIndex ELSE [index EXCEPT !.lines = SubSeq(@, 1, n)]
  /\ UNCHANGED files
  /\ Forget

(***************************************************************************)
(* cache_build(): an item for each line that has not expired, the last one *)
(* at the begin of the list.  late: the lines whose date has come.         *)
(***************************************************************************)
CacheBuild(late) ==
  /\ phase = "down"
  /\ phase' = "built"
  /\ LET lines == index.lines
         gone  == {k \in DOMAIN lines : lines[k].Expires = AT_EXIT} \cup late
         stay  == DOMAIN lines \ gone
         first == MoveOut(Reverse([k \in DOMAIN lines |-> k]), gone)
     IN  /\ late \subseteq {k \in DOMAIN lines : lines[k].Expires = LATER}
         /\ lru' = first
         /\ chain' = [l \in Loc |-> MoveOut(first, {k \in stay : lines[k].Location # l})]
         /\ item' = [c \in Item |->
              IF c \notin stay THEN Blank
              ELSE [Location |-> lines[c].Location, mem |-> FALSE,
                    Ident |-> lines[c].Ident, Object |-> FALSE,
                    Size |-> lines[c].Size, Reffs |-> 0,
                    Cached |-> lines[c].Cached, Expires |-> lines[c].Expires]]
         /\ dsk_use' = MapThenSumSet(LAMBDA k : lines[k].Size, stay)
         /\ dsk_num' = Cardinality(stay)
         /\ files' = [n \in Name |->
              IF index.fid = 0 \/ n \in {lines[k].Cached : k \in gone}
              THEN Nil ELSE files[n]]
         /\ at_exit' = (index.fid = 0 \/ gone # {})
         /\ IF at_exit'
            THEN FlushAll(index.fid)
            ELSE /\ fid' = index.fid /\ changed' = FALSE /\ wrote' = FALSE
                 /\ UNCHANGED index
  /\ UNCHANGED <<mem_use, mem_num, held, loaded>>

\* cache_setup() with the limits of the configuration, which may have less
\* room than the last session had
CacheSetup ==
  /\ phase = "built"
  /\ phase' = "up"
  /\ LET gone == IF dsk_num > DskLim \/ dsk_use > DskMax
                 THEN FilesToRemove(dsk_num - DskLim, dsk_use - DskMax)
                 ELSE {}
     IN  /\ Destroy(gone)
         /\ item' = [c \in Item |-> IF c \in gone THEN Blank ELSE item[c]]
         /\ IF gone # {} THEN FlushAll(fid) ELSE NoFlush(FALSE)
  /\ UNCHANGED <<at_exit, held, loaded>>

-----------------------------------------------------------------------------
Next ==
  \/ \E l \in Loc, ident \in Idents, size \in Sizes, unsized \in BOOLEAN :
       CacheInsert(l, ident, size, unsized)
  \/ \E l \in Loc, ident \in Idents \cup {0}, any \in BOOLEAN :
       CacheLookup(l, ident, any)
  \/ \E l \in Loc : CacheQuery(l)
  \/ \E c \in Item : CacheBound(c)
  \/ \E c \in Item, erase \in BOOLEAN : CacheRelease(c, erase)
  \/ \E c \in Item : LoaderRelease(c)
  \/ CacheClear(Item) \/ \E c \in Item : CacheClear({c})
  \/ \E l \in Loc : CacheExclusive(l) \/ CacheAbort(l)
  \/ \E l \in Loc, size \in Sizes :
       CacheAssignFails(l, size) \/ \E date \in Dates : CacheAssign(l, size, date)
  \/ \E l \in Loc, date \in Dates \ {NEVER} : CacheExpires(l, date)
  \/ \E late \in SUBSET Dated(LATER) : Exit(late)
  \/ \E n \in -1 .. Len(index.lines) : Crash(n)
  \/ \E late \in SUBSET DOMAIN index.lines : CacheBuild(late)
  \/ CacheSetup

Spec == Init /\ [][Next]_vars

-----------------------------------------------------------------------------
(***************************************************************************)
(* Properties.                                                             *)
(***************************************************************************)

\* The four counters, which every limit is checked against, are what the
\* items add up to: each handler keeps them up to date for all it creates
\* and destroys.
Accounting ==
  /\ mem_use = Bytes(MemOf(Items)) /\ mem_num = Cardinality(MemOf(Items))
  /\ dsk_use = Bytes(DskOf(Items)) /\ dsk_num = Cardinality(DskOf(Items))

\* cache.h:12-18: the limit for objects in memory "affects only objects not
\* in use".  Above the limit there are no others: whoever releases the last
\* pointer makes the room that an earlier insertion could not make.
MemBounded == mem_use > MemMax => Unused = {}

\* At most one item of a location is on disk or about to be, in the list and
\* in the index, and no two items have the same file: cache_exclusive() lets
\* one loader at a time fetch a location, also over crashes.
OneFile ==
  /\ \A c, d \in DskOf(Items) :
       c # d => /\ item[c].Location # item[d].Location
                /\ Named(c) => item[c].Cached # item[d].Cached
  /\ \A i, k \in DOMAIN index.lines :
       i # k => /\ index.lines[i].Location # index.lines[k].Location
                /\ index.lines[i].Cached # index.lines[k].Cached

\* An object in memory goes only when no client points to it any more: the
\* counts are right through every order of lookups, insertions and releases.
InUseStays ==
  [][\A c \in Items : item[c].mem /\ held'[c] > 0 => c \in ToSet(lru')]_vars

\* Files of a session are told apart by a number that the index carries over:
\* a file that an item names holds that item's location, or is missing, but
\* never holds what was fetched from elsewhere.
ContentOwned ==
  \A c \in Items : Named(c) => files[item[c].Cached] \in {item[c].Location, Nil}

\* While nothing has changed, cache.idx lists the files as they are, so that
\* it is right to append a line to it, and to lose nothing without a flush.
IndexCurrent ==
  phase # "down" /\ ~changed =>
    ToSet(index.lines) = {LineOf(item[c]) : c \in {d \in Items : Named(d)}}

\* The limits are kept, by counters that can be relied on: no handler forgets
\* one of the four, and what an insertion exceeds a release makes up for.
Counters == TypeOK /\ Accounting /\ MemBounded

\* Files, items and cache.idx agree over sessions and crashes: a location has
\* one file, a file what its item says, and the index the items there are.
Files == OneFile /\ ContentOwned /\ IndexCurrent

\* Objects are thrown out of memory in the order of their last use: none that
\* was used later goes while an unused one stays.
LeastRecentlyUsed ==
  [][(\E c \in ToSet(lru') \ Items : item'[c].mem) =>
       \A i, k \in DOMAIN lru :
         i < k /\ {lru[i], lru[k]} \subseteq Unused /\ lru[k] \in ToSet(lru')
           => lru[i] \in ToSet(lru')]_vars

\* The reservations of locations: see module Reservation.  cache_exclusive()
\* takes an item of the index that was not located yet for a reserved one, but
\* header_job() only asks for locations that cache_lookup() was called for
\* (Loader.c:377, 965), which locates their files.
HeldBy ==
  [l \in Loc |-> LET c == DiskItem(l)
                 IN  CASE c = Nil  -> "nobody"
                       [] c # Nil /\ Named(c) -> "file"
                       [] OTHER -> "loader"]

R == INSTANCE Reservation WITH up <- phase # "down", held_by <- HeldBy

Reservations == R!Spec

=============================================================================
