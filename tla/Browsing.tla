------------------------------ MODULE Browsing ------------------------------
(***************************************************************************)
(* What a list of visited pages promises: a new page comes behind the one  *)
(* that is shown and takes the place of those that followed it; the oldest *)
(* page goes when there are too many; going back or forward changes which  *)
(* page is shown and none of the pages.                                    *)
(***************************************************************************)
EXTENDS Naturals, Sequences, SequencesExt

CONSTANT Limit          \* how many pages are remembered

VARIABLES pages,        \* the pages, the oldest first
          at            \* which of them is shown, 0 before the first

vars == <<pages, at>>

Init == pages = <<>> /\ at = 0

Behind == SubSeq(pages, 1, at)

Added ==
  /\ pages' # <<>>
  /\ Front(pages') = IF Len(Behind) = Limit THEN Tail(Behind) ELSE Behind

Visit == Added /\ at' = Len(pages')

\* a page that is left for one before it as soon as it comes
Pass == Added /\ at' \in 1..at

Go == at' \in DOMAIN pages /\ pages' = pages

\* there is no memory to remember the new page
Forget == pages' = Behind /\ at' = at

Close == pages' = <<>> /\ at' = 0

Next == Visit \/ Pass \/ Go \/ Forget \/ Close

Spec == Init /\ [][Next]_vars
=============================================================================
