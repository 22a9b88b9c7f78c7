---------------------------- MODULE Reservation ----------------------------
(***************************************************************************)
(* What the cache promises to its loaders about a remote location          *)
(* (cache_exclusive(), cache_assign(), cache_abort() in src/src/cache.c):  *)
(* nobody has it, one loader is fetching it, or a file holds it.           *)
(***************************************************************************)
CONSTANTS Loc

VARIABLES up, held_by

vars == <<up, held_by>>

States == {"nobody", "loader", "file"}

Nothing == [l \in Loc |-> "nobody"]

Init == ~up /\ held_by = Nothing

\* Files can go at any time: they are removed to make room for others.
Kept(l) ==
  \/ held_by'[l] = held_by[l]
  \/ held_by[l] = "file" /\ held_by'[l] = "nobody"

\* cache_exclusive() returns CR_NONE
Reserve(l) == held_by[l] = "nobody" /\ held_by'[l] = "loader"

\* cache_assign(): within a session the only way a location gets its file;
\* or cache_abort(), or a cache_assign() that could not write
Finish(l) == held_by[l] = "loader" /\ held_by'[l] \in {"file", "nobody"}

\* One location at a time changes hands.
Session ==
  /\ up /\ up'
  /\ held_by' \in [Loc -> States]
  /\ \/ \A l \in Loc : Kept(l)
     \/ \E l \in Loc : /\ Reserve(l) \/ Finish(l)
                       /\ \A m \in Loc \ {l} : Kept(m)

\* No loader survives the end of the program.  What the index of the last
\* session lists is there again.
Stop  == up /\ ~up' /\ held_by' = Nothing
Start == ~up /\ up' /\ held_by' \in [Loc -> {"nobody", "file"}]

Next == Session \/ Stop \/ Start

Spec == Init /\ [][Next]_vars

=============================================================================
