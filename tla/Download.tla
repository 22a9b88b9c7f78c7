------------------------------ MODULE Download ------------------------------
(***************************************************************************)
(* The download manager (src/src/dl_mngr.c): a window with a few slots,    *)
(* one for each download, and the jobs that work for them.                 *)
(*                                                                         *)
(* A slot is not referred to by its place, which changes when another slot *)
(* is removed, but by the string object for its file name, which moves     *)
(* with it: slot_Arg() is the argument and the hash of its jobs.  The two  *)
(* jobs that make the connection, header_job() and conn_job(), have the    *)
(* loader as argument, and the hash 0, that of no slot.                    *)
(*                                                                         *)
(* What the jobs transfer is the subject of Http; here they make progress, *)
(* come to an end or fail.  Jobs are called in any order.                  *)
(***************************************************************************)
EXTENDS Integers, FiniteSets, Sequences, SequencesExt

CONSTANTS
  NSlots,   \* numberof(slot_tab)
  Load,     \* the downloads that are started, each at most once
  Remote,   \* those that come from the net
  Hasty,    \* may the user remove a slot, with its button or by closing the
            \* window, while the connection is made or the rest is saved?
  Nil

ASSUME SlotsAssumption == NSlots \in Nat \ {0}
ASSUME LoadAssumption == Nil \notin Load /\ Remote \subseteq Load
ASSUME HastyAssumption == Hasty \in BOOLEAN

VARIABLES
  slot,  \* slot_tab, with the strings of the dialog that move with the data
  ldr,   \* of each download its loader: [arg |-> FreeArg, conn |-> rdSocket]
  job,   \* the jobs of the scheduler, <<function, argument>>
  open,  \* the downloads whose connection, or source file, is open
  born,  \* the downloads that were started
  wind   \* dlm_wind is open

vars == <<slot, ldr, job, open, born, wind>>

Place == 1 .. NSlots

\* The strings, by the slot that they belong to at first
Arg == 1 .. NSlots

Text == {"stop", "cancel", "ok"}

LoaderJobs == {"header", "conn"}
SlotJobs   == {"fsel", "recv", "load"}

Loaders == [arg : Arg, conn : BOOLEAN]

ASSUME NilAssumption == Nil \notin Loaders

Slots == [arg : Arg, used : BOOLEAN, Bttn : Text, Location : Load \cup {Nil},
          Source : Load \cup {Nil}, Target : BOOLEAN, Buffer : BOOLEAN,
          Blck : BOOLEAN]

Idle(a) == [arg |-> a, used |-> FALSE, Bttn |-> "ok", Location |-> Nil,
            Source |-> Nil, Target |-> FALSE, Buffer |-> FALSE, Blck |-> FALSE]

\* A slot that is not in use holds nothing (Blck is what it was, as are Size,
\* Fill and Chnk; its button's text is not read).
Hidden(s) == [Idle(s.arg) EXCEPT !.Blck = s.Blck]

TypeOK ==
  /\ slot \in [Place -> Slots]
  /\ \A p \in Place : slot[p].used \/ slot[p] = Hidden(slot[p])
  /\ ldr \in [Load -> Loaders \cup {Nil}]
  /\ job \subseteq (LoaderJobs \X Load) \cup (SlotJobs \X Arg)
  /\ open \subseteq Load
  /\ born \subseteq Load
  /\ wind \in BOOLEAN

Init ==
  /\ slot = [p \in Place |-> Idle(p)]
  /\ ldr = [d \in Load |-> Nil]
  /\ job = {}
  /\ open = {}
  /\ born = {}
  /\ wind = FALSE

-----------------------------------------------------------------------------
Used(tab) == {p \in Place : tab[p].used}

\* slot_byArg()
ByArg(a) == CHOOSE p \in Place : slot[p].arg = a

(***************************************************************************)
(* slot_remove(): the slots in use behind it move up, the string of the    *)
(* one removed goes to the last of them.  Only the data in use are         *)
(* cleared: Blck (and Size, Fill, Chnk) stay as they are.                  *)
(***************************************************************************)
\* Mutant: the data move, but the strings stay where they are.
RemovedFixed(tab, p) ==
  LET last == CHOOSE q \in p .. NSlots :
                /\ \A r \in p + 1 .. q : tab[r].used
                /\ q < NSlots => ~tab[q + 1].used
  IN  [q \in Place |->
         CASE q < p \/ q > last -> tab[q]
           [] q \in p .. last - 1 -> [tab[q + 1] EXCEPT !.arg = tab[q].arg]
           [] q = last -> Hidden(tab[q])]

Removed(tab, p) ==
  LET last == CHOOSE q \in p .. NSlots :
                /\ \A r \in p + 1 .. q : tab[r].used
                /\ q < NSlots => ~tab[q + 1].used
  IN  [q \in Place |->
         CASE q < p \/ q > last -> tab[q]
           [] q \in p .. last - 1 -> tab[q + 1]
           [] q = last -> Hidden([tab[q] EXCEPT !.arg = tab[p].arg])]

\* The slots with the strings in gone are removed, from the first place to the
\* last, each loop checking the place again that another slot has moved to.
RemoveAll(tab, gone) ==
  LET step[n \in 0 .. NSlots] ==
        IF n = 0
        THEN [tab |-> tab, next |-> 1, closed |-> {}]
        ELSE LET s == step[n - 1]
             IN  IF s.next > NSlots THEN s
                 ELSE IF ~s.tab[s.next].used THEN s
                 ELSE IF s.tab[s.next].arg \in gone
                 THEN [tab |-> Removed(s.tab, s.next), next |-> s.next,
                       closed |-> s.closed \cup {s.tab[s.next].Source}]
                 ELSE [s EXCEPT !.next = @ + 1]
  IN  step[NSlots]

\* slot_find(), and the setup of the slot by dl_manager()
\* Mutant: any slot that is hidden.
FreeAny(tab) == {p \in Place : ~tab[p].used}

Free(tab) == {p \in Place : ~tab[p].used /\ \A q \in 1 .. p - 1 : tab[q].used}

Shown(tab, p, d, text, src) ==
  [tab EXCEPT ![p].used = TRUE, ![p].Bttn = text, ![p].Location = d,
              ![p].Buffer = TRUE, ![p].Source = src]

-----------------------------------------------------------------------------
(***************************************************************************)
(* dl_manager(): the user downloads d.  When no slot is free, he may have  *)
(* the slots removed whose button does not say stop; when none is free     *)
(* even so, or he declines, nothing happens.                               *)
(***************************************************************************)
\* Mutant: the slots to be kept are taken for those to be cleaned up.
FinishedAny(s) == s.Target = FALSE

Finished(s) == s.Bttn # "stop"

Tidied ==
  IF Free(slot) = {} THEN RemoveAll(slot, {slot[p].arg : p \in {q \in Place : Finished(slot[q])}})
  ELSE [tab |-> slot, closed |-> {}]

\* start_objc_load(), or the local file is opened; or there is an error,
\* which is shown: a protocol without support, a file that does not exist
Start(d) ==
  /\ d \notin born
  /\ born' = born \cup {d}
  /\ wind' = TRUE
  /\ LET tidy == Tidied
     IN  \E p \in Free(tidy.tab) :
           LET a == tidy.tab[p].arg
           IN  \/ /\ d \in Remote
                  /\ slot' = Shown(tidy.tab, p, d, "stop", Nil)
                  /\ ldr' = [ldr EXCEPT ![d] = [arg |-> a, conn |-> FALSE]]
                  /\ job' = job \cup {<<"header", d>>}
                  /\ open' = open \ tidy.closed
               \/ /\ d \notin Remote
                  /\ slot' = Shown(tidy.tab, p, d, "stop", d)
                  /\ job' = job \cup {<<"fsel", a>>}
                  /\ open' = (open \ tidy.closed) \cup {d}
                  /\ UNCHANGED ldr
               \/ /\ slot' = Shown(tidy.tab, p, d, "cancel", Nil)
                  /\ open' = open \ tidy.closed
                  /\ UNCHANGED <<ldr, job>>

StartFull(d) ==
  /\ d \notin born
  /\ Free(slot) = {}
  /\ born' = born \cup {d}
  /\ UNCHANGED <<ldr, job, wind>>
  /\ \/ UNCHANGED <<slot, open>>
     \/ LET tidy == Tidied
        IN  /\ Free(tidy.tab) = {}
            /\ slot' = tidy.tab
            /\ open' = open \ tidy.closed

-----------------------------------------------------------------------------
(***************************************************************************)
(* The user stops a download or removes its slot, or closes the window.    *)
(***************************************************************************)
Connecting(s) == \E d \in Load : ldr[d] # Nil /\ ldr[d].arg = s.arg

Working(s) ==
  \/ Connecting(s)
  \/ \E f \in SlotJobs : <<f, s.arg>> \in job

\* dlmngr_handler(), a button: sched_clear() ends the jobs with the hash of
\* the slot, which return at once.
\* Mutant: they are not ended.
ClearNone(a) == job

Clear(a) == job \ (SlotJobs \X {a})

Button(p) ==
  /\ wind
  /\ slot[p].used
  /\ Connecting(slot[p]) => Hasty
  /\ job' = Clear(slot[p].arg)
  /\ slot' = Removed(slot, p)
  /\ open' = open \ {slot[p].Source}
  /\ wind' = (Used(slot') # {})
  /\ UNCHANGED <<ldr, born>>

\* dlmngr_handler(), the window's closer: "not in use anymore" means that
\* there is no source.
InUse(s) == s.Source # Nil

Unused(s) == ~InUse(s)

Close ==
  /\ wind
  /\ (\E p \in Used(slot) : Unused(slot[p]) /\ Working(slot[p])) => Hasty
  /\ LET tidy == RemoveAll(slot, {slot[p].arg : p \in {q \in Place : Unused(slot[q])}})
     IN  /\ slot' = tidy.tab
         /\ open' = open \ tidy.closed
  /\ wind' = (Used(slot') # {})
  /\ UNCHANGED <<ldr, job, born>>

-----------------------------------------------------------------------------
(***************************************************************************)
(* The jobs of the loader.                                                 *)
(***************************************************************************)
\* header_job() for a loader without target, hdr_only: the answer is there,
\* and perhaps the peer has hung up already.  (Until then it is called again
\* and again: retries, redirects, no connection free.)
Header(d) ==
  /\ <<"header", d>> \in job
  /\ job' = (job \ {<<"header", d>>}) \cup {<<"conn", d>>}
  /\ \E conn \in BOOLEAN :
       /\ ldr' = [ldr EXCEPT ![d].conn = conn]
       /\ open' = IF conn THEN open \cup {d} ELSE open
  /\ UNCHANGED <<slot, born, wind>>

\* ... or an error, with which it calls conn_job() itself
HeaderFails(d) ==
  /\ <<"header", d>> \in job
  /\ job' = job \ {<<"header", d>>}
  /\ slot' = [slot EXCEPT ![ByArg(ldr[d].arg)].Bttn = "cancel"]
  /\ ldr' = [ldr EXCEPT ![d] = Nil]
  /\ UNCHANGED <<open, born, wind>>

\* conn_job(): the connection passes from the loader to the slot.
Conn(d) ==
  /\ <<"conn", d>> \in job
  /\ LET p == ByArg(ldr[d].arg)
     IN  /\ \E rest \in BOOLEAN :
              slot' = [slot EXCEPT
                         ![p].Location = d,
                         ![p].Source = IF ldr[d].conn THEN d ELSE Nil,
                         ![p].Blck = rest]
         /\ job' = (job \ {<<"conn", d>>}) \cup {<<"fsel", slot[p].arg>>}
  /\ ldr' = [ldr EXCEPT ![d] = Nil]
  /\ UNCHANGED <<open, born, wind>>

-----------------------------------------------------------------------------
(***************************************************************************)
(* The jobs of a slot.                                                     *)
(***************************************************************************)
\* fsel_job(): the user chooses a target, ...
Chooses(a) ==
  /\ <<"fsel", a>> \in job
  /\ slot' = [slot EXCEPT ![ByArg(a)].Target = TRUE]
  /\ job' = (job \ {<<"fsel", a>>})
              \cup {<<IF slot[ByArg(a)].Location \in Remote
                      THEN "recv" ELSE "load", a>>}
  /\ UNCHANGED <<ldr, open, born, wind>>

\* ... which cannot be created: the slot stays, with its source, and has no
\* job any more, ...
ChoosesBad(a) ==
  /\ <<"fsel", a>> \in job
  /\ job' = job \ {<<"fsel", a>>}
  /\ UNCHANGED <<slot, ldr, open, born, wind>>

\* ... or none.
ChoosesNone(a) ==
  /\ <<"fsel", a>> \in job
  /\ job' = job \ {<<"fsel", a>>}
  /\ slot' = Removed(slot, ByArg(a))
  /\ open' = open \ {slot[ByArg(a)].Source}
  /\ UNCHANGED <<ldr, born, wind>>

\* recv_job(): some bytes have come, and perhaps were all written
Receive(a) ==
  /\ <<"recv", a>> \in job
  /\ slot[ByArg(a)].Source # Nil
  /\ \E rest \in BOOLEAN : slot' = [slot EXCEPT ![ByArg(a)].Blck = rest]
  /\ UNCHANGED <<ldr, job, open, born, wind>>

\* ... they were the last: the source is closed, and the rest, of which
\* each call writes one chunk, may take more calls, ...
ReceiveLast(a) ==
  /\ <<"recv", a>> \in job
  /\ slot[ByArg(a)].Source # Nil
  /\ slot' = [slot EXCEPT ![ByArg(a)].Source = Nil, ![ByArg(a)].Blck = TRUE]
  /\ open' = open \ {slot[ByArg(a)].Source}
  /\ UNCHANGED <<ldr, job, born, wind>>

\* ... until nothing is left: the target is closed, and the slot shows that
\* all is there, or that it is not.
Saved(a) ==
  [slot EXCEPT ![ByArg(a)].Source = Nil, ![ByArg(a)].Blck = FALSE,
               ![ByArg(a)].Target = FALSE, ![ByArg(a)].Buffer = FALSE]

ReceiveEnd(a) ==
  /\ <<"recv", a>> \in job
  /\ \E text \in {"ok", "cancel"} :
       slot' = [Saved(a) EXCEPT ![ByArg(a)].Bttn = text]
  /\ open' = open \ {slot[ByArg(a)].Source}
  /\ job' = job \ {<<"recv", a>>}
  /\ UNCHANGED <<ldr, born, wind>>

\* load_job() at the end of a local file (until then only Fill grows)
LoadEnd(a) ==
  /\ <<"load", a>> \in job
  /\ slot' = [Saved(a) EXCEPT ![ByArg(a)].Bttn = "ok"]
  /\ open' = open \ {slot[ByArg(a)].Source}
  /\ job' = job \ {<<"load", a>>}
  /\ UNCHANGED <<ldr, born, wind>>

-----------------------------------------------------------------------------
LoaderJob ==
  \E d \in Load : Header(d) \/ HeaderFails(d) \/ Conn(d)

SlotJob ==
  \E a \in Arg : \/ Chooses(a) \/ ChoosesBad(a) \/ ChoosesNone(a)
                 \/ Receive(a) \/ ReceiveLast(a) \/ ReceiveEnd(a)
                 \/ LoadEnd(a)

User ==
  \/ \E d \in Load : Start(d) \/ StartFull(d)
  \/ \E p \in Place : Button(p)
  \/ Close

Next == LoaderJob \/ SlotJob \/ User

Spec == Init /\ [][Next]_vars

-----------------------------------------------------------------------------
(***************************************************************************)
(* Properties.                                                             *)
(***************************************************************************)

\* The slots in use are the first ones, and no two have the same string:
\* else slot_find() would show a slot behind a hidden one, slot_remove()
\* would stop moving there, and slot_byArg() would find another slot.
Compact ==
  /\ TypeOK
  /\ \A p \in Place : slot[p].used => \A q \in 1 .. p : slot[q].used
  /\ \A p, q \in Place : slot[p].arg = slot[q].arg => p = q

\* Whoever works for a slot finds it as he expects it, wherever it has moved
\* to: a loader finds the slot of its own download, a job one in use that has
\* a buffer and, to write, a target.
OwnSlot ==
  /\ Compact
  /\ \A d \in Load : ldr[d] # Nil =>
       LET s == slot[ByArg(ldr[d].arg)]
       IN  s.used /\ s.Location = d /\ s.Buffer /\ s.Source = Nil
  /\ \A a \in Arg : \A f \in SlotJobs : <<f, a>> \in job =>
       LET s == slot[ByArg(a)]
       IN  s.used /\ s.Bttn = "stop" /\ s.Buffer /\ s.Target = (f # "fsel")

\* A slot has one job or one loader at most, two jobs would read from one
\* connection into one buffer; and one that can be stopped has one, unless
\* its target could not be created: it would never come to an end.
OneWorker ==
  \A p \in Place :
    LET s == slot[p]
        n == Cardinality({d \in Load : ldr[d] # Nil /\ ldr[d].arg = s.arg})
             + Cardinality({f \in SlotJobs : <<f, s.arg>> \in job})
    IN  /\ n <= 1
        /\ s.used /\ s.Bttn = "stop" /\ n = 0
             => s.Buffer /\ ~s.Target

\* A connection is open if and only if one slot, or one loader, has it:
\* connections are few, and one that nobody has is never closed.
ConnOwned ==
  \A d \in Load :
    Cardinality({p \in Place : slot[p].Source = d})
      + (IF ldr[d] # Nil /\ ldr[d].conn THEN 1 ELSE 0)
      = IF d \in open THEN 1 ELSE 0

\* One works for a slot, and one has each connection.
Owned == OneWorker /\ ConnOwned

\* A download under way is in the window after the step, unless the user
\* presses its button or chooses no file for it.
Stays ==
  \A p \in Place :
    slot[p].used /\ slot[p].Bttn = "stop" /\ Working(slot[p])
      => \/ \E q \in Place : /\ slot'[q].used
                             /\ slot'[q].Location = slot[p].Location
         \/ Button(p)
         \/ ChoosesNone(slot[p].arg)

\* A download that the user did not remove, and that is not finished, stays
\* where he sees it until it is: no clean-up and no removal of another slot
\* takes it away.
StaysShown == [][Stays]_vars

=============================================================================
