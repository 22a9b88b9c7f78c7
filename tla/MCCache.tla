------------------------------ MODULE MCCache ------------------------------
(***************************************************************************)
(* An instance of Cache for TLC: two locations, room for one object in     *)
(* memory and one or two files, so that every limit is met at once.        *)
(***************************************************************************)
EXTENDS Cache

CONSTANTS a, b

Symmetry == Permutations({a, b})

\* Bound: what is in memory and in the index together
Small == Len(lru) + Len(index.lines) <= 3

MCDates == {NEVER, AT_EXIT}

=============================================================================
