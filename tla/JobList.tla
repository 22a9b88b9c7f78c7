------------------------------ MODULE JobList ------------------------------
(***************************************************************************)
(* The doubly linked list of jobs schedule.c keeps between __beg and       *)
(* __end, as a sequence of jobs.  The priorities are passed as a function: *)
(* sort_in() compares the field Priority of the nodes.                     *)
(***************************************************************************)
EXTENDS Integers, SequencesExt

\* Mutant: appends, as if no list were sorted.
SortInLast(q, prio, j, order) == Append(q, j)

\* Mutant: a job goes before the jobs of its own priority.
SortInBefore(q, prio, j, order) ==
  InsertAt(q, 1 + Max({0} \cup {i \in DOMAIN q : prio[q[i]] > prio[j]}), j)

(***************************************************************************)
(* sort_in(): where a job goes.  Behind the last job of the same or a      *)
(* higher priority, but in front of all if the first one has a lower       *)
(* priority; and if order is FALSE (JOB_NOOP), just behind the first job   *)
(* of a lower priority, which leaves a list that is not sorted.            *)
(***************************************************************************)
SortIn(q, prio, j, order) ==
  LET lower == {i \in DOMAIN q : prio[q[i]] < prio[j]}
      place == IF q = <<>> \/ prio[Last(q)] >= prio[j] THEN Len(q)
               ELSE IF ~order THEN Min(lower)
               ELSE IF prio[Head(q)] < prio[j] THEN 0
               ELSE Max(DOMAIN q \ lower)
  IN  InsertAt(q, place + 1, j)

(***************************************************************************)
(* Several move_out() in a row: the list without the jobs of the set gone, *)
(* the others in their order.  The k-th job that stays is the one with k   *)
(* survivors up to and including its place.                                *)
(***************************************************************************)
Stay(q, gone) == {i \in DOMAIN q : q[i] \notin gone}

StayUpTo(q, gone, n) == {i \in Stay(q, gone) : i <= n}

PlaceOf(q, gone, k) ==
  CHOOSE i \in Stay(q, gone) : Cardinality(StayUpTo(q, gone, i)) = k

MoveOut(q, gone) ==
  [k \in 1 .. Cardinality(Stay(q, gone)) |-> q[PlaceOf(q, gone, k)]]

=============================================================================
