---------------------------- MODULE MCJobQueue ----------------------------
(***************************************************************************)
(* Instances of JobQueue for TLC: four jobs, with two functions, arguments *)
(* and hashes such that sched_remove() and sched_clear() match one job or  *)
(* several, neighbours in the list or not.                                 *)
(***************************************************************************)
EXTENDS JobQueue

CONSTANTS j1, j2, j3, j4

MCFuncOf  == [j \in Job |-> IF j \in {j1, j2} THEN "f" ELSE "g"]
MCValueOf == [j \in Job |-> IF j = j2 THEN "b" ELSE "a"]
MCHashOf  == [j \in Job |-> IF j = j3 THEN "y" ELSE "x"]

\* schedule() as the main loop calls it, and the other limits of schedule.h
OneJob  == {1}
AnyNumber == {-1, 0, 1, 2}

MCResults == {JOB_DONE, JOB_KEEP, JOB_AGED, JOB_NOOP}
InOrder   == {JOB_DONE, JOB_KEEP, JOB_AGED}

=============================================================================
