------------------------------- MODULE Fetch -------------------------------
(***************************************************************************)
(* The loaders of the browser (src/src/Loader.c): how documents, images    *)
(* and style sheets are fetched, one job after the other, by the scheduler *)
(* that main() calls for a single job at a time.                           *)
(*                                                                         *)
(* Each call of a job is one step, with everything it calls: the cache     *)
(* (see Cache, here only what it says of a location), the scheduler's list *)
(* (see JobQueue) and inet_recv(), whose answer is the peer's choice.      *)
(* Between two steps the user opens pages and stops or leaves them.        *)
(*                                                                         *)
(* Downloads (loaders without a target) and the internal pages, which need *)
(* no loader's job, are not here.                                          *)
(***************************************************************************)
EXTENDS JobList

CONSTANTS
  Loader,       \* the loaders ever started
  Url,          \* the locations, all of them of a remote host
  Target,       \* the containers
  Nil,
  UrlsOf, TargetsOf,  \* what a loader may be started for
  PrioOf,       \* the priority it is started with
  Pages,        \* loaders without a successor: what they load is parsed
  Posts,        \* loaders that may have a PostBuf
  Texts,        \* the loaders whose answer is of a text type
  Redirects,    \* the pairs of locations such that one redirects to the other
  Sockets,      \* how many connections there can be
  ConnRetry,    \* cfg_ConnRetry
  Faults        \* "cut": peers may hang up within a chunk,
                \* "memory": there may be none for a body that has arrived

CONSTANTS
  PRIO_RECIVE, PRIO_SUCCESS, PRIO_LOADFILE, PRIO_FINISH

ASSUME FetchAssumption ==
  /\ Nil \notin Loader
  /\ UrlsOf \in [Loader -> SUBSET Url]
  /\ TargetsOf \in [Loader -> SUBSET Target]
  /\ PrioOf \in [Loader -> Nat \ {0}]
  /\ Pages \subseteq Loader
  /\ Posts \subseteq Loader
  /\ Texts \subseteq Loader
  /\ Redirects \subseteq Url \X Url
  /\ Sockets \in Nat
  /\ ConnRetry \in Nat
  /\ Faults \subseteq {"cut", "memory"}
  /\ {PRIO_RECIVE, PRIO_SUCCESS, PRIO_LOADFILE, PRIO_FINISH} \subseteq Nat \ {0}
  /\ PRIO_RECIVE < PRIO_SUCCESS
  /\ PRIO_SUCCESS < PRIO_LOADFILE
  /\ PRIO_LOADFILE < PRIO_FINISH

VARIABLES
  queue,   \* the scheduler's list
  prio,    \* the priorities of the jobs that are in it
  ldr,     \* the loaders that exist
  born,    \* the loaders that have been started so far
  disk     \* what the cache has for a location: no file, a file, or an
           \* item that is reserved for a loader ("busy")

vars == <<queue, prio, ldr, born, disk>>

\* The jobs that serve a loader one after the other: header_job, chunked_job,
\* receive_job; loader_job and the parser's job for a page, the successor
\* (image_ldr, resume_job, generic_job) for anything else
Func == {"header", "chunked", "receive", "file", "parse", "succ"}
Job  == Func \X Loader

Body == {"sized", "open", "chunks"}

(***************************************************************************)
(* Of a LOADER: where it gets its data from; whether a file of the cache   *)
(* serves it; its connection; how the body comes, Nil before the header;   *)
(* whether bytes are missing of the block that is received (rdLeft);       *)
(* whether the body is complete in memory (Data).                          *)
(***************************************************************************)
LoaderRecord ==
  [Location : Url, Target : Target, PostBuf : BOOLEAN, Cached : BOOLEAN,
   Retry : 0 .. ConnRetry, rdSocket : BOOLEAN, body : Body \cup {Nil},
   rdLeft : BOOLEAN, Data : BOOLEAN]

\* A loader is not the null pointer.
ASSUME NilAssumption == Nil \notin LoaderRecord

TypeOK ==
  /\ queue \in Seq(Job)
  /\ prio \in [Job -> Nat]
  /\ ldr \in [Loader -> LoaderRecord \cup {Nil}]
  /\ born \in SUBSET Loader
  /\ disk \in [Url -> {"none", "busy", "local"}]

Init ==
  /\ queue = <<>>
  /\ prio = [j \in Job |-> 0]
  /\ ldr = [l \in Loader |-> Nil]
  /\ born = {}
  /\ disk \in [Url -> {"none", "local"}]

-----------------------------------------------------------------------------
(***************************************************************************)
(* The scheduler: what becomes of the job j that was called.               *)
(***************************************************************************)
Called(f, l) == queue # <<>> /\ Head(queue) = <<f, l>>

Inserted(q, pr, j) == /\ queue' = SortIn(q, pr, j, TRUE)
                      /\ prio' = pr

Keep(j) == Inserted(Tail(queue), prio, j)

Aged(p) == IF p > 1 THEN p - 1 ELSE 1

\* JOB_AGED and, with order FALSE, JOB_NOOP
Age(j, order) ==
  LET pr == [prio EXCEPT ![j] = Aged(@)]
  IN  /\ queue' = SortIn(Tail(queue), pr, j, order)
      /\ prio' = pr

\* The job j is done and has registered the job k
Follow(j, k, p) == Inserted(Tail(queue), [prio EXCEPT ![j] = 0, ![k] = p], k)

Done(j) == /\ queue' = Tail(queue)
           /\ prio' = [prio EXCEPT ![j] = 0]

-----------------------------------------------------------------------------
Gets(l) == ~ldr[l].PostBuf

Receiving(l) == {<<"chunked", l>>, <<"receive", l>>}

Connected(l) == ldr[l] # Nil /\ ldr[l].rdSocket

SocketsFree == Cardinality({l \in Loader : Connected(l)}) < Sockets

\* The jobs of a list whose hash is the container t
JobsOf(q, t) == {j \in ToSet(q) : ldr[j[2]].Target = t}

\* cache_abort() in the callbacks of sched_clear() for the jobs
Aborted(jobs, d) ==
  [u \in Url |->
     IF d[u] = "busy" /\ \E l \in Loader : /\ jobs \cap Receiving(l) # {}
                                           /\ Gets(l)
                                           /\ ldr[l].Location = u
     THEN "none" ELSE d[u]]

\* delete_loader() for the loader of each of the jobs
Deleted(jobs, ls) ==
  [l \in Loader |-> IF \E j \in jobs : j[2] = l THEN Nil ELSE ls[l]]

(***************************************************************************)
(* start_parser(), called by the job (f, l): new_parser() clears the       *)
(* container the document is for, with all jobs for it.                    *)
(***************************************************************************)
StartParser(f, l, ls, d) ==
  LET gone == JobsOf(Tail(queue), ldr[l].Target)
      rest == MoveOut(Tail(queue), gone)
      pr   == [j \in Job |-> CASE j = <<"parse", l>> -> PRIO_FINISH
                               [] j \in gone \cup {<<f, l>>} -> 0
                               [] OTHER -> prio[j]]
  IN  /\ Inserted(rest, pr, <<"parse", l>>)
      /\ ldr' = Deleted(gone, ls)
      /\ disk' = Aborted(gone, d)

(***************************************************************************)
(* The end of receive_job(), in the call of the job (f, l), with the       *)
(* loader's record r and the cache d: the connection is closed, what has   *)
(* arrived goes to the cache, and to the successor or the parser.          *)
(* cache_assign() only fills an item that is reserved, for whomever; it    *)
(* gives the item up if there is no cache directory or no file.            *)
(***************************************************************************)
Stored(l) == Gets(l) \/ l \notin Texts

AssignedTo(l, r, d) ==
  IF r.Data /\ Stored(l) /\ d[r.Location] = "busy"
  THEN {"local", "none"}
  ELSE {d[r.Location]}

Closed(r) == [r EXCEPT !.rdSocket = FALSE, !.rdLeft = FALSE]

Finish(f, l, r, d) ==
  \E now \in AssignedTo(l, r, d) :
    LET ls == [ldr EXCEPT ![l] =
                 [Closed(r) EXCEPT
                    !.Cached = now = "local" /\ d[r.Location] = "busy"]]
        dk == [d EXCEPT ![r.Location] = now]
    IN  IF l \in Pages
        THEN StartParser(f, l, ls, dk)
        ELSE /\ Follow(<<f, l>>, <<"succ", l>>, PRIO_SUCCESS)
             /\ ldr' = ls
             /\ disk' = dk

-----------------------------------------------------------------------------
(***************************************************************************)
(* The user, or a page that is parsed, starts a loader: start_page_load(), *)
(* start_cont_load(), start_objc_load().                                   *)
(***************************************************************************)
New(u, t, post, cached) ==
  [Location |-> u, Target |-> t, PostBuf |-> post, Cached |-> cached,
   Retry |-> ConnRetry, rdSocket |-> FALSE, body |-> Nil, rdLeft |-> FALSE,
   Data |-> FALSE]

FromFile(l) == IF l \in Pages THEN <<"file", l>> ELSE <<"succ", l>>

FilePrio(l) == IF l \in Pages THEN PRIO_LOADFILE ELSE PRIO_SUCCESS

StartLoad(l, u, t, post) ==
  LET hit == ~post /\ disk[u] = "local"
      j   == IF hit THEN FromFile(l) ELSE <<"header", l>>
      p   == IF hit THEN FilePrio(l) ELSE PrioOf[l]
  IN  /\ l \notin born
      /\ post => l \in Posts
      /\ born' = born \cup {l}
      /\ ldr' = [ldr EXCEPT ![l] = New(u, t, post, hit)]
      /\ Inserted(queue, [prio EXCEPT ![j] = p], j)
      /\ UNCHANGED disk

\* containr_escape(), or the container is cleared or deleted: sched_clear()
Clear(t) ==
  LET gone == JobsOf(queue, t)
  IN  /\ gone # {}
      /\ queue' = MoveOut(queue, gone)
      /\ prio' = [j \in Job |-> IF j \in gone THEN 0 ELSE prio[j]]
      /\ ldr' = Deleted(gone, ldr)
      /\ disk' = Aborted(gone, disk)
      /\ UNCHANGED born

\* A file of the cache expires, or goes to make room for another, or because
\* the user wants to see the page anew
FileGoes(u) ==
  /\ disk[u] = "local"
  /\ disk' = [disk EXCEPT ![u] = "none"]
  /\ UNCHANGED <<queue, prio, ldr, born>>

-----------------------------------------------------------------------------
(***************************************************************************)
(* header_job()                                                            *)
(***************************************************************************)
Says(l) == disk[ldr[l].Location]

\* cache_exclusive() returns CR_BUSY: another loader fetches the location
HeaderBusy(l) ==
  /\ Called("header", l)
  /\ Gets(l)
  /\ Says(l) = "busy"
  /\ Keep(<<"header", l>>)
  /\ UNCHANGED <<ldr, born, disk>>

\* ... or CR_LOCAL
HeaderHit(l) ==
  /\ Called("header", l)
  /\ Gets(l)
  /\ Says(l) = "local"
  /\ ldr' = [ldr EXCEPT ![l].Cached = TRUE]
  /\ Follow(<<"header", l>>, FromFile(l), FilePrio(l))
  /\ UNCHANGED <<born, disk>>

\* Otherwise the location is reserved now, unless this is a POST, until the
\* job returns or a body is to be received
Connects(l) == Called("header", l) /\ (Gets(l) => Says(l) = "none")

\* -EMFILE: too many open connections yet, try again later
HeaderFull(l) ==
  /\ Connects(l)
  /\ ~SocketsFree
  /\ Keep(<<"header", l>>)
  /\ UNCHANGED <<ldr, born, disk>>

\* -ECONNRESET, -ETIMEDOUT: try connecting later
HeaderRetry(l) ==
  /\ Connects(l)
  /\ SocketsFree
  /\ ldr[l].Retry > 0
  /\ ldr' = [ldr EXCEPT ![l].Retry = @ - 1]
  /\ Keep(<<"header", l>>)
  /\ UNCHANGED <<born, disk>>

\* Any error, or an authorization that is missing: a page that says so
HeaderError(l) ==
  /\ Connects(l)
  /\ SocketsFree
  /\ IF l \in Pages
     THEN StartParser("header", l, [ldr EXCEPT ![l].Data = TRUE], disk)
     ELSE /\ Done(<<"header", l>>)
          /\ ldr' = Deleted({<<"header", l>>}, ldr)
          /\ UNCHANGED disk
  /\ UNCHANGED born

HeaderRedirect(l, u) ==
  /\ Connects(l)
  /\ SocketsFree
  /\ <<ldr[l].Location, u>> \in Redirects
  /\ ldr' = [ldr EXCEPT ![l].Location = u, ![l].Cached = disk[u] = "local"]
  /\ IF disk[u] = "local"
     THEN Follow(<<"header", l>>, FromFile(l), FilePrio(l))
     ELSE Keep(<<"header", l>>)
  /\ UNCHANGED <<born, disk>>

\* Mutant: the reservation is not kept while the body is received.
ReservedTillReturn(l) == disk

Reserved(l) ==
  IF Gets(l) THEN [disk EXCEPT ![ldr[l].Location] = "busy"] ELSE disk

\* The answer was read together with its header
HeaderWhole(l) ==
  /\ Connects(l)
  /\ SocketsFree
  /\ Finish("header", l, [ldr[l] EXCEPT !.body = "sized", !.Data = TRUE],
            Reserved(l))
  /\ UNCHANGED born

HeaderBody(l, body) ==
  /\ Connects(l)
  /\ SocketsFree
  /\ ldr' = [ldr EXCEPT ![l].rdSocket = TRUE,
                        ![l].body = body,
                        ![l].rdLeft = body = "sized",
                        ![l].Data = body = "sized"]
  /\ disk' = Reserved(l)
  /\ Follow(<<"header", l>>,
            <<IF body = "sized" THEN "receive" ELSE "chunked", l>>,
            PRIO_RECIVE)
  /\ UNCHANGED born

-----------------------------------------------------------------------------
(***************************************************************************)
(* chunked_job(): how it leaves the record r.  There is another block to   *)
(* be received; or the body is at its end and is put together, if there is *)
(* the memory for it; or the job waits for the head of the next chunk.     *)
(* Only -ECONNRESET ends that waiting, and inet_recv() never has it for    *)
(* the handle -1 that receive_job() leaves behind a closed connection.     *)
(***************************************************************************)
NextBlock(r) ==
  IF r.rdSocket THEN {[r EXCEPT !.rdLeft = TRUE]} ELSE {}

\* Mutant: a body ends only while its connection is open.
CompleteOpen(r) ==
  IF r.rdSocket THEN {[r EXCEPT !.rdLeft = FALSE, !.Data = TRUE]} ELSE {}

Complete(r) ==
  IF r.rdSocket \/ r.body = "open"
  THEN {[r EXCEPT !.rdLeft = FALSE, !.Data = TRUE]}
       \cup (IF "memory" \in Faults
             THEN {[r EXCEPT !.rdLeft = FALSE, !.Data = FALSE]} ELSE {})
  ELSE {}

\* A body of unknown size ends when, and only when, the peer hangs up.
Chunked(r) ==
  IF r.body = "open"
  THEN IF r.rdSocket THEN NextBlock(r) ELSE Complete(r)
  ELSE NextBlock(r) \cup Complete(r)

\* chunked_job() aborts the reservation if the memory is exhausted
Held(l, r) ==
  IF Gets(l) /\ ~r.Data THEN [disk EXCEPT ![r.Location] = "none"] ELSE disk

ChunkedJob(l) ==
  /\ Called("chunked", l)
  /\ \E r \in Chunked(ldr[l]) :
       /\ ldr' = [ldr EXCEPT ![l] = r]
       /\ disk' = IF r.rdLeft THEN disk ELSE Held(l, r)
       /\ Follow(<<"chunked", l>>, <<"receive", l>>, prio[<<"chunked", l>>])
  /\ UNCHANGED born

ChunkedWaits(l) ==
  /\ Called("chunked", l)
  /\ ldr[l].body = "chunks"
  /\ Keep(<<"chunked", l>>)
  /\ UNCHANGED <<ldr, born, disk>>

-----------------------------------------------------------------------------
(***************************************************************************)
(* receive_job()                                                           *)
(***************************************************************************)
Receives(l) == Called("receive", l) /\ ldr[l].rdLeft

\* Some bytes have come, or none
ReceiveSome(l, order) ==
  /\ Receives(l)
  /\ Age(<<"receive", l>>, order)
  /\ UNCHANGED <<ldr, born, disk>>

\* The block is complete, or the peer has hung up: how the record is then
BlockEnds(r) ==
  {[r EXCEPT !.rdLeft = FALSE, !.rdSocket = open] :
     open \in {o \in BOOLEAN : o \/ r.body # "chunks" \/ "cut" \in Faults}}

\* The document has a known size, so this was all of it
ReceiveEnd(l) ==
  /\ Receives(l)
  /\ ldr[l].body = "sized"
  /\ \E r \in BlockEnds(ldr[l]) : Finish("receive", l, r, disk)
  /\ UNCHANGED born

\* Otherwise chunked_job() is called: the body ends here, ...
ReceiveLast(l) ==
  /\ Receives(l)
  /\ ldr[l].body # "sized"
  /\ \E b \in BlockEnds(ldr[l]) :
       \E r \in Chunked(b) :
         ~r.rdLeft /\ Finish("receive", l, r, Held(l, r))
  /\ UNCHANGED born

\* ... or another block follows, ...
ReceiveNext(l) ==
  /\ Receives(l)
  /\ ldr[l].body # "sized"
  /\ \E b \in BlockEnds(ldr[l]) :
       \E r \in Chunked(b) :
         r.rdLeft /\ ldr' = [ldr EXCEPT ![l] = r]
  /\ Age(<<"receive", l>>, TRUE)
  /\ UNCHANGED <<born, disk>>

\* Mutant: the job waits for the chunk itself, and is registered besides.
ReceiveHeadTwice(l) ==
  /\ Receives(l)
  /\ ldr[l].body = "chunks"
  /\ \E r \in BlockEnds(ldr[l]) : ldr' = [ldr EXCEPT ![l] = r]
  /\ LET p == [prio EXCEPT ![<<"chunked", l>>] = prio[<<"receive", l>>]]
     IN  Inserted(SortIn(Tail(queue), p, <<"chunked", l>>, TRUE), p,
                  <<"receive", l>>)
  /\ UNCHANGED <<born, disk>>

\* ... or the head of the next chunk has still to come
ReceiveHead(l) ==
  /\ Receives(l)
  /\ ldr[l].body = "chunks"
  /\ \E r \in BlockEnds(ldr[l]) : ldr' = [ldr EXCEPT ![l] = r]
  /\ Follow(<<"receive", l>>, <<"chunked", l>>, prio[<<"receive", l>>])
  /\ UNCHANGED <<born, disk>>

\* chunked_job() has registered the job for a body that is complete
ReceiveComplete(l) ==
  /\ Called("receive", l)
  /\ ~ldr[l].rdLeft
  /\ Finish("receive", l, ldr[l], disk)
  /\ UNCHANGED born

-----------------------------------------------------------------------------
\* loader_job(): the file is there, or an error page takes its place
LoaderJob(l) ==
  /\ Called("file", l)
  /\ StartParser("file", l, [ldr EXCEPT ![l].Data = TRUE], disk)
  /\ UNCHANGED born

\* The successor deletes the loader; so does the parser at its end
Succ(l) ==
  /\ Called("succ", l)
  /\ Done(<<"succ", l>>)
  /\ ldr' = Deleted({<<"succ", l>>}, ldr)
  /\ UNCHANGED <<born, disk>>

ParseEnd(l) ==
  /\ Called("parse", l)
  /\ Done(<<"parse", l>>)
  /\ ldr' = Deleted({<<"parse", l>>}, ldr)
  /\ UNCHANGED <<born, disk>>

\* parse_html() interrupts itself, or waits for a style sheet
ParseMore(l) ==
  /\ Called("parse", l)
  /\ Age(<<"parse", l>>, FALSE)
  /\ UNCHANGED <<ldr, born, disk>>

-----------------------------------------------------------------------------
HeaderJob(l) ==
  \/ HeaderBusy(l)
  \/ HeaderHit(l)
  \/ HeaderFull(l)
  \/ HeaderRetry(l)
  \/ HeaderError(l)
  \/ \E u \in Url : HeaderRedirect(l, u)
  \/ HeaderWhole(l)
  \/ \E b \in Body : HeaderBody(l, b)

ReceiveJob(l) ==
  \/ \E order \in BOOLEAN : ReceiveSome(l, order)
  \/ ReceiveEnd(l)
  \/ ReceiveLast(l)
  \/ ReceiveNext(l)
  \/ ReceiveHead(l)
  \/ ReceiveComplete(l)

\* schedule (1) in main()
Schedule ==
  \E l \in Loader :
    \/ HeaderJob(l)
    \/ ChunkedJob(l)
    \/ ChunkedWaits(l)
    \/ ReceiveJob(l)
    \/ LoaderJob(l)
    \/ Succ(l)
    \/ ParseMore(l)
    \/ ParseEnd(l)

Next ==
  \/ Schedule
  \/ \E l \in Loader : \E u \in UrlsOf[l], t \in TargetsOf[l],
       post \in BOOLEAN : StartLoad(l, u, t, post)
  \/ \E t \in Target : Clear(t)
  \/ \E u \in Url : FileGoes(u)

Spec == Init /\ [][Next]_vars

\* The main loop goes on as long as there are jobs.  A peer that has
\* answered does not stay silent for ever, nor send for ever, if it has not
\* hung up; a document is parsed in the end.
Fairness ==
  /\ WF_vars(Schedule)
  /\ \A l \in Loader :
       /\ SF_vars(ReceiveEnd(l) \/ ReceiveLast(l))
       /\ SF_vars(ChunkedJob(l))
       /\ SF_vars(ParseEnd(l))

FairSpec == Spec /\ Fairness

-----------------------------------------------------------------------------
(***************************************************************************)
(* Properties.                                                             *)
(***************************************************************************)

\* Between two calls of schedule() every loader that exists is the argument
\* of exactly one job, and no job has one that was deleted: no loader is
\* forgotten (its page would be loading for ever) or served twice.
OneJob ==
  /\ TypeOK
  /\ IsInjective(queue)
  /\ \A l \in Loader :
       Cardinality({j \in ToSet(queue) : j[2] = l}) =
         IF ldr[l] = Nil THEN 0 ELSE 1

\* A body that was complete, but found no memory: chunked_job() has already
\* given the reservation up.
Lost(l) == /\ <<"receive", l>> \in ToSet(queue)
           /\ ~ldr[l].rdLeft
           /\ ~ldr[l].Data

\* A location is reserved in the cache if and only if one loader is receiving
\* it, and never two are: one left over would make every later loader of the
\* location wait for ever, one that is lost would let two loaders fetch it.
\* (It does not hold with the fault "memory" once another header job runs
\* between the two jobs of a lost body: a loader that is cleared there gives
\* the reservation up once more, which is another loader's by then.  Nor for
\* a POST that is answered by anything but text: receive_job() assigns that
\* answer to the item another loader has reserved for the same location.)
Exclusive ==
  \A u \in Url :
    Cardinality({l \in Loader : /\ Receiving(l) \cap ToSet(queue) # {}
                                /\ Gets(l)
                                /\ ~Lost(l)
                                /\ ldr[l].Location = u})
      = IF disk[u] = "busy" THEN 1 ELSE 0

\* A connection is open only while a job is there that reads from it and
\* closes it at the end.
SocketsOwned ==
  \A l \in Loader : Connected(l) => Receiving(l) \cap ToSet(queue) # {}

\* What there are few of has one owner, who will give it back: the
\* reservation of a location, and a connection.
Owners == Exclusive /\ SocketsOwned

\* A loader that waits for another's fetch, or for a free connection, in
\* front of a loader that is receiving
Starving ==
  \E l, m \in Loader :
    /\ <<"header", l>> \in ToSet(queue)
    /\ (Gets(l) /\ Says(l) = "busy") \/ ~SocketsFree
    /\ \E j \in Receiving(m) \cap ToSet(queue) :
         prio[j] < prio[<<"header", l>>]

\* Every loader is done with in the end ...
EveryLoadEnds == \A l \in Loader : ldr[l] # Nil ~> ldr[l] = Nil

\* ... unless that happens: header_job() keeps its priority, and so the job
\* it waits for is never called again.
EndsUnlessStarved == <>[]~Starving => EveryLoadEnds

=============================================================================
