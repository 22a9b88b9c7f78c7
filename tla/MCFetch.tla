------------------------------ MODULE MCFetch ------------------------------
(***************************************************************************)
(* Instances of Fetch for TLC: a page and an image, of the same location   *)
(* or of one the page's redirects to, for the same container or another.   *)
(* The priorities keep the order of those in Loader.c, but are small, so   *)
(* that aging takes few steps.                                             *)
(***************************************************************************)
EXTENDS Fetch

CONSTANTS page, image, A, B, t, w

PRIO_TRIVIAL == 1
PRIO_USERACT == 6

MCUrlsOf    == [l \in Loader |-> IF l = page THEN {A} ELSE {A, B}]
MCTargetsOf == [l \in Loader |-> IF l = page THEN {t} ELSE {t, w}]
MCPrioOf   == [l \in Loader |->
                 IF l \in Pages THEN PRIO_USERACT ELSE PRIO_TRIVIAL]
MCRedirects == {<<A, B>>}

=============================================================================
