------------------------------ MODULE JobQueue ------------------------------
(***************************************************************************)
(* The job scheduler of the browser (src/src/schedule.c) together with the *)
(* part of the main loop that drives it (HighWire.c: set_timer(), the call *)
(* of schedule() in main()).                                               *)
(*                                                                         *)
(* One thread runs everything, so the interleavings are those of calls     *)
(* that nest: while schedule() runs a job the job may register, unregister *)
(* and clear jobs, and while sched_clear() tells a job that its object is  *)
(* going away, the callback may do the same to the list that sched_clear() *)
(* is walking.                                                             *)
(***************************************************************************)
EXTENDS JobList

CONSTANTS
  Job,            \* the jobs ever registered, one per s_SCHED allocated
  Func, Value, Hash,            \* what a job is registered with
  FuncOf, ValueOf, HashOf,      \* ... and each job's choice of it
  AnyFunc,        \* the NULL function argument of sched_remove()
  Nil,            \* the NULL pointer, where a job is expected
  PrioArg,        \* the priorities callers pass to sched_insert()
  MaxDo,          \* the limits callers pass to schedule()
  Results,        \* the values the jobs return
  JobCalls,       \* what a job may call while schedule() runs it
  CallbackCalls,  \* what a job may call while sched_clear() runs it
  MaxNest,        \* bound: how deep sched_clear() may nest
  Obliging        \* whether a job that unregistered another one returns
                  \* JOB_DONE (see ScheduleReturn)

JOB_DONE ==  0
JOB_KEEP ==  1
JOB_AGED == -1
JOB_NOOP == -2

Calls == {"insert", "remove", "clear"}

ASSUME JobAssumption ==
  /\ Nil \notin Job
  /\ AnyFunc \notin Func
  /\ FuncOf \in [Job -> Func]
  /\ ValueOf \in [Job -> Value]
  /\ HashOf \in [Job -> Hash]
  /\ PrioArg \subseteq Nat
  /\ MaxDo \subseteq Int
  /\ Results \subseteq {JOB_DONE, JOB_KEEP, JOB_AGED, JOB_NOOP}
  /\ JobCalls \subseteq Calls
  /\ CallbackCalls \subseteq Calls
  /\ MaxNest \in Nat
  /\ Obliging \in BOOLEAN

VARIABLES
  queue,    \* the list from __beg to __end
  prio,     \* the field Priority of each job, 0 while it is not registered
  born,     \* the jobs that have been registered so far
  running,  \* the job schedule() has moved out and called, or Nil
  left,     \* max_do inside schedule(), 0 for no limit
  clears,   \* the active calls of sched_clear(), the innermost one last
  current_prio,
  on_off,   \* whether the control function is registered
  timer,    \* MU_TIMER in the main loop's event mask
  pruned    \* whether the running job has unregistered another job

vars == <<queue, prio, born, running, left, clears, current_prio, on_off,
          timer, pruned>>

(***************************************************************************)
(* A call of sched_clear() between two callbacks: the job that is being    *)
(* called and the successor that was read before the call.                 *)
(***************************************************************************)
ClearCall == [hash : Hash, sched : Job, next : Job \cup {Nil}]

TypeOK ==
  /\ queue \in Seq(Job)
  /\ prio \in [Job -> Nat]
  /\ born \in SUBSET Job
  /\ running \in Job \cup {Nil}
  /\ left \in Nat
  /\ clears \in Seq(ClearCall)
  /\ current_prio \in Nat
  /\ on_off \in BOOLEAN
  /\ timer \in BOOLEAN
  /\ pruned \in BOOLEAN

Init ==
  /\ queue = <<>>
  /\ prio = [j \in Job |-> 0]
  /\ born = {}
  /\ running = Nil
  /\ left = 0
  /\ clears = <<>>
  /\ current_prio = 0
  /\ on_off = FALSE
  /\ timer = TRUE
  /\ pruned = FALSE

-----------------------------------------------------------------------------
(***************************************************************************)
(* Who is making the call: the main loop, a job or a callback.             *)
(***************************************************************************)
InCallback == clears # <<>>
InJob      == running # Nil /\ ~InCallback
InMain     == running = Nil /\ ~InCallback

May(call) == /\ InJob      => call \in JobCalls
             /\ InCallback => call \in CallbackCalls

\* set_timer(), called through on_off when the list has become q
TimerAfterRemoval(q) == IF on_off /\ q = <<>> THEN FALSE ELSE timer

\* sched_init(set_timer), which main() calls once before its loop
SchedInit ==
  /\ ~on_off
  /\ InMain
  /\ on_off' = TRUE
  /\ timer' = (queue # <<>>)
  /\ UNCHANGED <<queue, prio, born, running, left, clears, current_prio,
                 pruned>>

\* Mutant: the list's count is compared as it was before the insertion.
SchedInsertLate(j, p) ==
  /\ May("insert")
  /\ j \notin born
  /\ p = 0 => InJob
  /\ born' = born \cup {j}
  /\ prio' = [prio EXCEPT ![j] = IF p = 0 THEN current_prio ELSE p]
  /\ queue' = SortIn(queue, prio', j, TRUE)
  /\ timer' = (timer \/ (on_off /\ Len(queue) = 1))
  /\ UNCHANGED <<running, left, clears, current_prio, on_off, pruned>>

\* sched_insert(); a 0 for the priority stands for the running job's own,
\* and only jobs pass it
SchedInsert(j, p) ==
  /\ May("insert")
  /\ j \notin born
  /\ p = 0 => InJob
  /\ born' = born \cup {j}
  /\ prio' = [prio EXCEPT ![j] = IF p = 0 THEN current_prio ELSE p]
  /\ queue' = SortIn(queue, prio', j, TRUE)
  /\ timer' = (timer \/ (on_off /\ Len(queue') = 1))
  /\ UNCHANGED <<running, left, clears, current_prio, on_off, pruned>>

\* The jobs sched_remove() matches: by value, and by function unless NULL
Matching(f, v) ==
  {j \in ToSet(queue) : ValueOf[j] = v /\ (f = AnyFunc \/ FuncOf[j] = f)}

SchedRemove(f, v) ==
  /\ May("remove")
  /\ Matching(f, v) # {}
  /\ queue' = MoveOut(queue, Matching(f, v))
  /\ prio' = [j \in Job |-> IF j \in Matching(f, v) THEN 0 ELSE prio[j]]
  /\ timer' = TimerAfterRemoval(queue')
  /\ pruned' = (running # Nil)
  /\ UNCHANGED <<born, running, left, clears, current_prio, on_off>>

-----------------------------------------------------------------------------
(***************************************************************************)
(* The loop of sched_clear() from one callback to the next: the places in  *)
(* the list q, from the job `from' on, of jobs that have the hash.  The    *)
(* successor is read before the callback and used after it.                *)
(***************************************************************************)
Pending(q, from, hash) ==
  {i \in DOMAIN q : /\ HashOf[q[i]] = hash
                    /\ \E k \in 1 .. i : q[k] = from}

\* Mutant: the walk advances twice, past the successor of a job it clears.
ClearFromSkips(q, from, hash) ==
  LET i == Min(Pending(q, from, hash))
  IN  [hash  |-> hash,
       sched |-> q[i],
       next  |-> IF i + 1 >= Len(q) THEN Nil ELSE q[i + 2]]

ClearFrom(q, from, hash) ==
  LET i == Min(Pending(q, from, hash))
  IN  [hash  |-> hash,
       sched |-> q[i],
       next  |-> IF i = Len(q) THEN Nil ELSE q[i + 1]]

\* sched_clear(hash) up to its first callback.  A call that matches no job
\* changes nothing.
SchedClear(hash) ==
  /\ May("clear")
  /\ Len(clears) < MaxNest
  /\ queue # <<>>
  /\ Pending(queue, Head(queue), hash) # {}
  /\ clears' = Append(clears, ClearFrom(queue, Head(queue), hash))
  /\ UNCHANGED <<queue, prio, born, running, left, current_prio, on_off,
                 timer, pruned>>

\* The callback returns: the job is moved out and freed, and the walk goes
\* on from the successor.  If a callback freed one of the two nodes the C
\* code would read freed memory: nothing is said of what happens then.  No
\* callback of the browser unregisters a job (CallbackCalls): parse_html()
\* deletes what it has made only while its container has a page, or frames
\* (Page!Live says that it has no page).
ClearReturn ==
  /\ InCallback
  /\ LET top  == Last(clears)
         rest == MoveOut(queue, {top.sched})
     IN  /\ top.sched \in ToSet(queue)
         /\ top.next \in ToSet(queue) \cup {Nil}
         /\ queue' = rest
         /\ prio' = [prio EXCEPT ![top.sched] = 0]
         /\ timer' = TimerAfterRemoval(rest)
         /\ clears' =
              IF Pending(rest, top.next, top.hash) = {}
              THEN Front(clears)
              ELSE Append(Front(clears),
                          ClearFrom(rest, top.next, top.hash))
  /\ pruned' = (running # Nil)
  /\ UNCHANGED <<born, running, left, current_prio, on_off>>

-----------------------------------------------------------------------------
\* Mutant: the job stays linked while it runs.
ScheduleLinked(max_do) ==
  /\ InMain
  /\ on_off
  /\ timer
  /\ queue # <<>>
  /\ left' = IF max_do < 0 THEN Len(queue) ELSE max_do
  /\ running' = Head(queue)
  /\ current_prio' = prio[Head(queue)]
  /\ pruned' = FALSE
  /\ UNCHANGED <<queue, prio, born, clears, on_off, timer>>

\* schedule(max_do) as main() calls it, up to the call of the first job.  The
\* list is never empty then (TimerArmed).
Schedule(max_do) ==
  /\ InMain
  /\ on_off
  /\ timer
  /\ queue # <<>>
  /\ left' = IF max_do < 0 THEN Len(queue) ELSE max_do
  /\ running' = Head(queue)
  /\ queue' = Tail(queue)
  /\ current_prio' = prio[Head(queue)]
  /\ pruned' = FALSE
  /\ UNCHANGED <<prio, born, clears, on_off, timer>>

\* Mutant: no lower end for the priority.
AgedBelowOne(p) == p - 1

Aged(p) == IF p > 1 THEN p - 1 ELSE 1

\* The running job returns r: it is freed or sorted in again, and schedule()
\* either calls the job that is first now or returns to the main loop.
\* Obliging: a job that has unregistered other jobs is done with, as every
\* job of the browser that clears a container is.
ScheduleReturn(r) ==
  /\ InJob
  /\ Obliging /\ pruned => r = JOB_DONE
  /\ prio' = [prio EXCEPT ![running] =
                CASE r = JOB_DONE               -> 0
                  [] r \in {JOB_AGED, JOB_NOOP} -> Aged(@)
                  [] r = JOB_KEEP               -> @]
  /\ LET q == IF r = JOB_DONE
              THEN queue
              ELSE SortIn(queue, prio', running, r # JOB_NOOP)
     IN  \/ /\ left # 1
            /\ q # <<>>
            /\ queue' = Tail(q)
            /\ running' = Head(q)
            /\ left' = IF left = 0 THEN 0 ELSE left - 1
            /\ current_prio' = prio'[Head(q)]
            /\ timer' = timer
         \/ /\ left = 1 \/ q = <<>>
            /\ queue' = q
            /\ running' = Nil
            /\ left' = 0
            /\ current_prio' = 1
            /\ timer' = TimerAfterRemoval(q)
  /\ pruned' = FALSE
  /\ UNCHANGED <<born, clears, on_off>>

-----------------------------------------------------------------------------
Next ==
  \/ SchedInit
  \/ \E j \in Job, p \in PrioArg : SchedInsert(j, p)
  \/ \E f \in Func \cup {AnyFunc}, v \in Value : SchedRemove(f, v)
  \/ \E h \in Hash : SchedClear(h)
  \/ ClearReturn
  \/ \E m \in MaxDo : Schedule(m)
  \/ \E r \in Results : ScheduleReturn(r)

Spec == Init /\ [][Next]_vars

\* The event loop never blocks for good while MU_TIMER is set, and jobs and
\* callbacks return.  The user's actions and the jobs' calls are not fair.
Fairness ==
  /\ WF_vars(SchedInit)
  /\ WF_vars(\E m \in MaxDo : Schedule(m))
  /\ WF_vars(\E r \in Results : ScheduleReturn(r))
  /\ WF_vars(ClearReturn)

FairSpec == Spec /\ Fairness

-----------------------------------------------------------------------------
(***************************************************************************)
(* Properties.                                                             *)
(***************************************************************************)

\* A job is in the list at most once, and not while schedule() runs it: no
\* s_SCHED is linked twice or freed while it is linked.
LinkedOnce ==
  /\ IsInjective(queue)
  /\ running \notin ToSet(queue)
  /\ ToSet(queue) \cup ({running} \ {Nil}) \subseteq born

\* Once the control function is registered, MU_TIMER is set as long as a job
\* waits: otherwise main() would not call schedule() any more, and
\* sched_insert() would not set it either, for the list is not empty.  And
\* the main loop does not wake up for nothing: it waits with a timer only
\* when there is a job to run.
TimerArmed ==
  on_off => /\ queue # <<>> => timer
            /\ InMain /\ timer => queue # <<>>

\* While a job runs that has unregistered nothing, MU_TIMER is still set: the
\* running job is on no list, but may want to be called again.
TimerWhileRunning == running # Nil /\ ~pruned => on_off /\ timer

\* A job's priority never drops below 1, where jobs are served round robin:
\* below it a job would never be served beside a job that keeps coming back.
PriorityPositive == \A j \in ToSet(queue) \cup ({running} \ {Nil}) : prio[j] > 0

\* The list is sorted by priority, so that move_out (__beg) takes a job that
\* no other precedes.  (JOB_NOOP breaks it: the job goes behind the first one
\* of a lower priority, not to the very end as schedule.h:39-40 says.)
Sorted ==
  \A i, k \in DOMAIN queue : i < k => prio[queue[i]] >= prio[queue[k]]

\* schedule() gives the time slice away: a job that comes back is not called
\* again before a job that waits and has its priority.
RoundRobin ==
  [][\A j \in Job :
       /\ running = j
       /\ j \in ToSet(queue')
       => \A i, k \in DOMAIN queue' :
            queue'[i] = j /\ k > i => prio'[queue'[k]] < prio'[j]]_vars

\* When sched_clear() returns, no job with its hash is left in the list
\* (schedule.h:66-71), so that none runs for an object that is gone.  It
\* holds of callbacks that register nothing: a job that one of them
\* registered behind the successor already read would be missed.
ClearLeavesNone ==
  [][Len(clears') < Len(clears)
       => \A j \in ToSet(queue') : HashOf[j] # Last(clears).hash]_vars

\* A job that waits is called in the end, or unregistered, unless jobs with
\* a priority above 1 come back with JOB_KEEP for ever: all others age, until
\* every job that comes back has the priority 1, where they take turns.  That
\* JOB_NOOP leaves the list out of order puts a job off, but not for ever.
EveryJobServed ==
  <>[][~(ScheduleReturn(JOB_KEEP) /\ prio[running] > 1)]_vars
    => \A j \in Job : j \in ToSet(queue) ~> j \notin ToSet(queue)

=============================================================================
