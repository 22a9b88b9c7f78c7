---------------------------- MODULE CacheIndex ----------------------------
(***************************************************************************)
(* How cache.idx names the hosts of its lines (location_wrIdx() and        *)
(* location_rdIdx() in src/src/Location.c, as cache_flush() and            *)
(* cache_build() call them; the directories of a location are written and  *)
(* read in the same way).                                                  *)
(*                                                                         *)
(* A location refers to an entry of the database of hosts, which lives at  *)
(* an address that differs from session to session.  The first line of a   *)
(* host defines a tag for it, the address of its entry, and every line     *)
(* refers to its host by an address.                                       *)
(***************************************************************************)
EXTENDS Integers, SequencesExt

CONSTANTS
  Hosts,      \* bound: the number of hosts
  Addr,       \* the addresses malloc() returns
  MaxLines,   \* bound: the lines of the index
  Nil         \* the NULL pointer and the tag 0

\* The hosts in the order of the list that host_search() walks
Host == 1 .. Hosts

VARIABLES
  entry,    \* the address of each host's entry, Nil without one
  tag,      \* the field IdxTag of the entry
  changed,  \* __cache_changed
  lines,    \* the lines of cache.idx
  files     \* the hosts of the cached files, in the order of the lines

vars == <<entry, tag, changed, lines, files>>

\* A line L:, with the line H: before it if it has one: the host that is
\* defined (by its name) and the address that is referred to
Line == [def : Host \cup {Nil}, ref : Addr]

TypeOK ==
  /\ entry \in [Host -> Addr \cup {Nil}]
  /\ tag \in [Host -> Addr \cup {Nil}]
  /\ changed \in BOOLEAN
  /\ lines \in Seq(Line)
  /\ files \in Seq(Host)

Init ==
  /\ entry = [h \in Host |-> Nil]
  /\ tag = [h \in Host |-> Nil]
  /\ changed = FALSE
  /\ lines = <<>>
  /\ files = <<>>

-----------------------------------------------------------------------------
\* host_store(): a location of a host that has no entry yet is used
HostStore(h, addr) ==
  /\ entry[h] = Nil
  /\ addr \notin Range(entry)
  /\ entry' = [entry EXCEPT ![h] = addr]
  /\ UNCHANGED <<tag, changed, lines, files>>

\* Something that is not written at once: a file was used, or is to expire
Change ==
  /\ files # <<>>
  /\ changed' = TRUE
  /\ UNCHANGED <<entry, tag, lines, files>>

\* location_wrIdx(): the host is defined if it has no tag, and referred to
\* by the address of its entry, whatever its tag is
Written(h) == [def |-> IF tag[h] = Nil THEN h ELSE Nil, ref |-> entry[h]]

\* cache_flush (citem) after a file of host h has been stored
AppendLine(h) ==
  /\ ~changed
  /\ entry[h] # Nil
  /\ Len(lines) < MaxLines
  /\ lines' = Append(lines, Written(h))
  /\ tag' = [tag EXCEPT ![h] = IF @ = Nil THEN entry[h] ELSE @]
  /\ files' = Append(files, h)
  /\ UNCHANGED <<entry, changed>>

\* cache_flush (NULL), and cache_flush (citem) where something has changed:
\* the tags are cleared and every file of the list hs is written again
WriteAll(hs, at) ==
  /\ lines' = [k \in DOMAIN hs |->
                 [def |-> IF hs[k] \in {hs[i] : i \in 1 .. k - 1}
                          THEN Nil ELSE hs[k],
                  ref |-> at[hs[k]]]]
  /\ tag' = [h \in Host |-> IF h \in Range(hs) THEN at[h] ELSE Nil]
  /\ files' = hs
  /\ changed' = FALSE

Rewrite(h) ==
  /\ changed
  /\ entry[h] # Nil
  /\ Len(files) < MaxLines
  /\ WriteAll(Append(files, h), entry)
  /\ UNCHANGED entry

-----------------------------------------------------------------------------
(***************************************************************************)
(* location_rdIdx() line by line: the tag a host has before line k, and    *)
(* the host that line k is taken for, Nil if there is none with the tag.   *)
(***************************************************************************)
TagBefore(k, h) ==
  LET defs == {i \in 1 .. k - 1 : lines[i].def = h}
  IN  IF defs = {} THEN Nil ELSE lines[Max(defs)].ref

HostSearch(k) ==
  LET fits == {h \in Host : TagBefore(k, h) = lines[k].ref}
  IN  IF fits = {} THEN Nil ELSE Min(fits)

Read(k) == IF lines[k].def # Nil THEN lines[k].def ELSE HostSearch(k)

Found == SelectSeq([k \in DOMAIN lines |-> Read(k)], LAMBDA h : h # Nil)

\* The next session, cache_build(): the hosts that are read get an entry at
\* some address and keep the tag they were read with.  The file of a line
\* that names no host is deleted, and the index is written again.  (What was
\* to be written at exit is not: the program has ended in another way.)
Restart(at) ==
  /\ entry' = [h \in Host |-> IF h \in {lines[k].def : k \in DOMAIN lines}
                              THEN at[h] ELSE Nil]
  /\ IF Len(Found) = Len(lines)
     THEN /\ tag' = [h \in Host |-> TagBefore(Len(lines) + 1, h)]
          /\ files' = Found
          /\ changed' = FALSE
          /\ UNCHANGED lines
     ELSE WriteAll(Found, at)

Layouts == {at \in [Host -> Addr] : IsInjective(at)}

Next ==
  \/ \E h \in Host, addr \in Addr : HostStore(h, addr)
  \/ Change
  \/ \E h \in Host : AppendLine(h)
  \/ \E h \in Host : Rewrite(h)
  \/ \E at \in Layouts : Restart(at)

Spec == Init /\ [][Next]_vars

-----------------------------------------------------------------------------
\* cache.idx says what is in the cache (history.txt:1690-1691, 1700-1701:
\* location_wrIdx() and location_rdIdx() "store and read location entries in
\* a cache index file", which initializes the database): cache_build() takes
\* every line for a file of the host it was written for.
RoundTrip ==
  /\ Len(lines) = Len(files)
  /\ \A k \in DOMAIN lines : Read(k) = files[k]

=============================================================================
