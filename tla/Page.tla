-------------------------------- MODULE Page --------------------------------
(***************************************************************************)
(* Documents in containers: how a document is parsed (parser.c, render.c), *)
(* shown (Containr.c) and left, with the images that belong to it          *)
(* (image.c), and what its window is told of all this (wnd_hdlr()).        *)
(*                                                                         *)
(* Every container is the pane of a window, without children.  The loaders *)
(* are those of Fetch: here a loader is one job until its data have come   *)
(* or it failed.  Any job may be the next that schedule() calls: for what  *)
(* is said here priorities do not matter, so the list is a bag.            *)
(***************************************************************************)
EXTENDS Integers, FiniteSets, FiniteSetsExt

CONSTANTS
  Cont,       \* the containers
  Doc,        \* the documents, each of them loaded once
  Img,        \* the images
  DocOf,      \* the document an image is in
  Nil,
  Intern,     \* those parsed at once, without a style sheet: directories,
              \* images, pages that the browser makes itself
  Sheets,     \* style sheets the documents ask for: "net" for one that has
              \* to be loaded, "bad" for one that no protocol can load
  ReloadBusy, \* whether the user reloads images that are still to come
  MaxParked   \* bound: an image is reloaded only while less than this many
              \* jobs of its document wait for a layout

ASSUME PageAssumption ==
  /\ DocOf \in [Img -> Doc]
  /\ Nil \notin Doc \cup Cont
  /\ Doc \cap Img = {}
  /\ Intern \subseteq Doc
  /\ Sheets \subseteq {"net", "bad"}
  /\ ReloadBusy \in BOOLEAN
  /\ MaxParked \in Nat

\* The text of a document is finite, and so are the images it makes.
ASSUME ImagesAssumption == \A p \in Doc : IsFiniteSet({i \in Img : DocOf[i] = p})

VARIABLES
  jobs,       \* how many jobs there are, of each kind
  target,     \* the container a document is for, once it was asked for
  frames,     \* the documents that have a FRAME
  shown,      \* the document that a container shows (CNT_FRAME), or Nil
  img,        \* the images: none yet, empty, with data, or deleted
  wait,       \* the documents whose parser waits: ResumeErr is EBUSY
  activity,   \* isBusy - isDone of a window, which are both reset at 0
  loading,    \* the documents a window counts as being loaded
  reflow,     \* reflow_frame
  owed,       \* history: documents that have an image of another size than
              \* they had been laid out for
  stopped     \* history: documents that the user stopped while they were
              \* reflow_frame, and that have not been laid out since

vars == <<jobs, target, frames, shown, img, wait, activity, loading, reflow,
          owed, stopped>>

(***************************************************************************)
(* The jobs of a document: its loader's, its parser's, the loader's of its *)
(* style sheet, the layout (reflow_job).  Those of an image: image_job, or *)
(* the loader's with the successor image_ldr.                              *)
(***************************************************************************)
Job == ({"load", "parse", "style", "reflow"} \X Doc) \cup
       ({"image", "imgldr"} \X Img)

DocArg(j) == IF j[2] \in Img THEN DocOf[j[2]] ELSE j[2]

Hash(j) == target[DocArg(j)]

ImagesOf(p) == {i \in Img : DocOf[i] = p /\ img[i] # "none"}

TypeOK ==
  /\ jobs \in [Job -> Nat]
  /\ target \in [Doc -> Cont \cup {Nil}]
  /\ frames \in SUBSET Doc
  /\ shown \in [Cont -> Doc \cup {Nil}]
  /\ img \in [Img -> {"none", "empty", "data", "gone"}]
  /\ wait \in SUBSET Doc
  /\ activity \in [Cont -> Nat]
  /\ loading \in [Cont -> Nat]
  /\ reflow \in Doc \cup {Nil}
  /\ owed \in SUBSET Doc
  /\ stopped \in SUBSET Doc

Init ==
  /\ jobs = [j \in Job |-> 0]
  /\ target = [p \in Doc |-> Nil]
  /\ frames = {}
  /\ shown = [c \in Cont |-> Nil]
  /\ img = [i \in Img |-> "none"]
  /\ wait = {}
  /\ activity = [c \in Cont |-> 0]
  /\ loading = [c \in Cont |-> 0]
  /\ reflow = Nil
  /\ owed = {}
  /\ stopped = {}

-----------------------------------------------------------------------------
Pending(js) == {j \in Job : js[j] > 0}

Called(j) == jobs[j] > 0

\* Mutant: a job unregisters itself, and is freed once more when it returns.
TakenTwice(j) == [jobs EXCEPT ![j] = @ - 2]

\* The list without the job that is called, and with one more
Taken(j) == [jobs EXCEPT ![j] = @ - 1]
Put(js, j) == [js EXCEPT ![j] = @ + 1]

\* HW_ActivityEnd, HW_PageFinished: the counters of a window
Ended(n, ends) == IF n > ends THEN n - ends ELSE 0

-----------------------------------------------------------------------------
(***************************************************************************)
(* sched_clear() of the jobs js for the container c.  A loader is deleted, *)
(* with HW_PageFinished for a document; an image that was to come ends its *)
(* activity beside its loader's.                                           *)
(***************************************************************************)
\* Mutant: the layout is not registered for the container.
JobsForHashed(js, c) ==
  {j \in Pending(js) : j[1] # "reflow" /\ Hash(j) = c}

JobsFor(js, c) == {j \in Pending(js) : Hash(j) = c}

EndsOf(j) ==
  CASE j[1] \in {"load", "parse", "imgldr"} -> 2
    [] j[1] \in {"style", "image"} -> 1
    [] j[1] = "reflow" -> 0

EndsFor(js, c) == MapThenSumSet(LAMBDA j : js[j] * EndsOf(j), JobsFor(js, c))

LoadsFor(js, c) == Cardinality({j \in JobsFor(js, c) : j[1] \in {"load", "parse"}})

ParsersFor(js, c) == {p \in Doc : <<"parse", p>> \in JobsFor(js, c)}

Unscheduled(js, c) == [j \in Job |-> IF j \in JobsFor(js, c) THEN 0 ELSE js[j]]

\* reflow_job() that is invalidated forgets the layout it was for
Forgotten(js, c) ==
  IF reflow # Nil /\ <<"reflow", reflow>> \in JobsFor(js, c) THEN Nil ELSE reflow

(***************************************************************************)
(* delete_frame() of what c shows: delete_image() removes the image_job of *)
(* an image without data, and ends one activity if there was any.          *)
(***************************************************************************)
\* Mutant: the jobs of deleted images are removed, but the window not told.
CutNone(js, c) == {}

Cut(js, c) ==
  {i \in ImagesOf(shown[c]) : img[i] = "empty" /\ js[<<"image", i>>] > 0}

Without(js, c) ==
  [j \in Job |-> IF \E i \in ImagesOf(shown[c]) : /\ img[i] = "empty"
                                                  /\ j = <<"image", i>>
                 THEN 0 ELSE js[j]]

Deleted(c) ==
  [i \in Img |-> IF i \in ImagesOf(shown[c]) THEN "gone" ELSE img[i]]

(***************************************************************************)
(* containr_clear(): delete_frame(), sched_clear(), and the mode is        *)
(* CNT_EMPTY at last.  A document that is still parsed is installed by     *)
(* delete_parser() in between: its frame is not deleted, and forgotten.    *)
(***************************************************************************)
Cleared(js, c) ==
  LET rest == Without(js, c)
  IN  [jobs    |-> Unscheduled(rest, c),
       ends    |-> Cardinality(Cut(js, c)) + EndsFor(rest, c),
       loads   |-> LoadsFor(rest, c),
       frames  |-> frames \ {shown[c]},
       img     |-> Deleted(c),
       wait    |-> wait \ ParsersFor(rest, c),
       reflow  |-> Forgotten(rest, c)]

\* new_parser() for the document p, in a call that leaves the jobs js and
\* has begun `begun' activities and loads: the container is cleared.
NewParser(p, c, js, begun, loads) ==
  LET x == Cleared(js, c)
  IN  /\ jobs' = Put(x.jobs, <<"parse", p>>)
      /\ frames' = x.frames \cup {p}
      /\ shown' = [shown EXCEPT ![c] = Nil]
      /\ img' = x.img
      /\ wait' = x.wait
      /\ activity' = [activity EXCEPT ![c] = Ended(@ + begun, x.ends)]
      /\ loading' = [loading EXCEPT ![c] = Ended(@ + loads, x.loads)]
      /\ reflow' = x.reflow
      /\ UNCHANGED <<owed, stopped>>

-----------------------------------------------------------------------------
(***************************************************************************)
(* The user, or another document, asks for the document p:                 *)
(* start_cont_load(), with HW_ActivityBeg and HW_PageStarted.              *)
(***************************************************************************)
StartLoad(p, c) ==
  /\ target[p] = Nil
  /\ target' = [target EXCEPT ![p] = c]
  /\ IF p \in Intern
     THEN NewParser(p, c, jobs, 2, 1)
     ELSE /\ jobs' = Put(jobs, <<"load", p>>)
          /\ activity' = [activity EXCEPT ![c] = @ + 2]
          /\ loading' = [loading EXCEPT ![c] = @ + 1]
          /\ UNCHANGED <<frames, shown, img, wait, reflow, owed, stopped>>

\* hwWind_history(): containr_process() clears the container before the load
\* is started
History(p, c) ==
  LET x == Cleared(jobs, c)
  IN  /\ target[p] = Nil
      /\ target' = [target EXCEPT ![p] = c]
      /\ jobs' = Put(x.jobs, <<IF p \in Intern THEN "parse" ELSE "load", p>>)
      /\ frames' = IF p \in Intern THEN x.frames \cup {p} ELSE x.frames
      /\ shown' = [shown EXCEPT ![c] = Nil]
      /\ img' = x.img
      /\ wait' = x.wait
      /\ activity' = [activity EXCEPT ![c] = Ended(@, x.ends) + 2]
      /\ loading' = [loading EXCEPT ![c] = Ended(@, x.loads) + 1]
      /\ reflow' = x.reflow
      /\ UNCHANGED <<owed, stopped>>

\* The document has come, or a page that says why not: start_parser()
LoadDone(p) ==
  /\ Called(<<"load", p>>)
  /\ NewParser(p, target[p], Taken(<<"load", p>>), 0, 0)
  /\ UNCHANGED target

(***************************************************************************)
(* containr_escape(), for the stop button and the key: sched_clear().      *)
(* What has been parsed so far is shown.                                   *)
(***************************************************************************)
Escape(c) ==
  LET parsed == ParsersFor(jobs, c)
  IN  /\ JobsFor(jobs, c) # {}
      /\ jobs' = Unscheduled(jobs, c)
      /\ shown' = IF parsed = {} THEN shown
                  ELSE [shown EXCEPT ![c] = CHOOSE p \in parsed : TRUE]
      /\ wait' = wait \ parsed
      /\ activity' = [activity EXCEPT ![c] = Ended(@, EndsFor(jobs, c))]
      /\ loading' = [loading EXCEPT ![c] = Ended(@, LoadsFor(jobs, c))]
      /\ reflow' = Forgotten(jobs, c)
      /\ owed' = owed \ parsed
      /\ stopped' = IF Forgotten(jobs, c) = reflow THEN stopped
                    ELSE stopped \cup ({reflow} \ parsed)
      /\ UNCHANGED <<target, frames, img>>

-----------------------------------------------------------------------------
(***************************************************************************)
(* parse_html().  A call makes images, for each of which new_image() finds *)
(* the data in the cache, registers image_job, or does neither: images are *)
(* blocked, or not to be viewed.                                           *)
(***************************************************************************)
Unborn(p) == {i \in Img : DocOf[i] = p /\ img[i] = "none"}

Found(p) == [Unborn(p) -> {"none", "data", "job", "empty"}]

Due(s) == {i \in DOMAIN s : s[i] = "job"}

\* The jobs, the activities of the window of p, the images that there are
\* when the call has made the images s
Scheduled(s) ==
  [j \in Job |-> IF \E i \in Due(s) : j = <<"image", i>> THEN 1 ELSE jobs[j]]

Begun(p, s) == activity[target[p]] + Cardinality(Due(s))

Made(s) ==
  [i \in Img |-> IF i \notin DOMAIN s THEN img[i]
                 ELSE IF s[i] = "job" THEN "empty" ELSE s[i]]

Parses(p) == Called(<<"parse", p>>) /\ p \notin wait

(***************************************************************************)
(* The end of the text: delete_parser() lays the document out and shows    *)
(* it, the container being empty.                                          *)
(***************************************************************************)
ParseEnd(p) ==
  /\ Parses(p)
  /\ \E s \in Found(p) :
       /\ img' = Made(s)
       /\ jobs' = [Scheduled(s) EXCEPT ![<<"parse", p>>] = 0]
       /\ activity' = [activity EXCEPT ![target[p]] = Ended(Begun(p, s), 2)]
  /\ shown' = [shown EXCEPT ![target[p]] = p]
  /\ loading' = [loading EXCEPT ![target[p]] = Ended(@, 1)]
  /\ owed' = owed \ {p}
  /\ UNCHANGED <<target, frames, wait, reflow, stopped>>

\* css_import() starts a loader for a style sheet, and the parser is
\* interrupted.  If start_objc_load() has no protocol for the location, it
\* calls resume_job() itself, which sets ResumeErr and deletes the loader,
\* before css_import() sets ResumeErr to EBUSY.
ParseSheet(p) ==
  /\ Parses(p)
  /\ p \notin Intern
  /\ \E s \in Found(p), sheet \in Sheets :
       LET n == Begun(p, s) + 1
       IN  /\ img' = Made(s)
           /\ IF sheet = "net"
              THEN /\ jobs' = Put(Scheduled(s), <<"style", p>>)
                   /\ activity' = [activity EXCEPT ![target[p]] = n]
              ELSE /\ jobs' = Scheduled(s)
                   /\ activity' = [activity EXCEPT ![target[p]] = Ended(n, 1)]
  /\ wait' = wait \cup {p}
  /\ UNCHANGED <<target, frames, shown, loading, reflow, owed, stopped>>

\* The style sheet is being fetched for someone else (CR_BUSY): the parser
\* is interrupted, and goes on without it at its next call.
ParseMore(p) ==
  /\ Parses(p)
  /\ p \notin Intern
  /\ \E s \in Found(p) :
       /\ img' = Made(s)
       /\ jobs' = Scheduled(s)
       /\ activity' = [activity EXCEPT ![target[p]] = Begun(p, s)]
  /\ UNCHANGED <<target, frames, shown, wait, loading, reflow, owed, stopped>>

\* resume_job(): the style sheet has come, or not
ResumeJob(p) ==
  /\ Called(<<"style", p>>)
  /\ jobs' = Taken(<<"style", p>>)
  /\ wait' = wait \ {p}
  /\ activity' = [activity EXCEPT ![target[p]] = Ended(@, 1)]
  /\ UNCHANGED <<target, frames, shown, img, loading, reflow, owed, stopped>>

-----------------------------------------------------------------------------
(***************************************************************************)
(* reflow_defer(), in a call that leaves the jobs js: the layout of        *)
(* another document that waits, or an overdue one of p, is made at once;   *)
(* a job is registered unless one for p is there that is not overdue.      *)
(***************************************************************************)
\* Mutant: the layout of another document that waits is forgotten.
DeferDropping(p, js) ==
  /\ reflow' = p
  /\ jobs' = IF reflow = p THEN js ELSE Put(js, <<"reflow", p>>)
  /\ owed' = owed \cup {p}
  /\ UNCHANGED stopped

Defer(p, js) ==
  /\ reflow' = p
  /\ \E overdue \in BOOLEAN :
       jobs' = IF reflow = p /\ ~overdue THEN js ELSE Put(js, <<"reflow", p>>)
  /\ owed' = (owed \ {reflow}) \cup {p}
  /\ stopped' = stopped \ {reflow}

(***************************************************************************)
(* image_job() for an image that is in the cache, or is decoded, perhaps   *)
(* in vain; it may have another size than the layout expects.  The call    *)
(* leaves the jobs js and ends so many activities.                         *)
(***************************************************************************)
ImageDone(i, js, ends) ==
  /\ img' \in {img, [img EXCEPT ![i] = "data"]}
  /\ activity' = [activity EXCEPT ![target[DocOf[i]]] = Ended(@, ends)]
  /\ \/ /\ jobs' = js
        /\ UNCHANGED <<reflow, owed, stopped>>
     \/ Defer(DocOf[i], js)
  /\ UNCHANGED <<target, frames, shown, wait, loading>>

\* (As long as another loader fetches the image, the job changes nothing.)
ImageJob(i) ==
  /\ Called(<<"image", i>>)
  /\ ImageDone(i, Taken(<<"image", i>>), 1)

\* The image has to be fetched first, and ...
ImageFetch(i) ==
  /\ Called(<<"image", i>>)
  /\ jobs' = Put(Taken(<<"image", i>>), <<"imgldr", i>>)
  /\ activity' = [activity EXCEPT ![target[DocOf[i]]] = @ + 1]
  /\ UNCHANGED <<target, frames, shown, img, wait, loading, reflow, owed,
                 stopped>>

\* ... cannot be: start_objc_load() calls image_ldr() with an error
ImageBad(i) ==
  /\ Called(<<"image", i>>)
  /\ jobs' = Taken(<<"image", i>>)
  /\ activity' = [activity EXCEPT ![target[DocOf[i]]] = Ended(@ + 1, 2)]
  /\ UNCHANGED <<target, frames, shown, img, wait, loading, reflow, owed,
                 stopped>>

\* image_ldr() deletes the loader and calls image_job(), ...
ImageLdr(i) ==
  /\ Called(<<"imgldr", i>>)
  /\ ImageDone(i, Taken(<<"imgldr", i>>), 2)

\* ... as an invalidated one if the image could not be loaded
ImageLdrFails(i) ==
  /\ Called(<<"imgldr", i>>)
  /\ jobs' = Taken(<<"imgldr", i>>)
  /\ activity' = [activity EXCEPT ![target[DocOf[i]]] = Ended(@, 2)]
  /\ UNCHANGED <<target, frames, shown, img, wait, loading, reflow, owed,
                 stopped>>

\* reload_image(), for an image that the user points at
Reload(i) ==
  LET p == DocOf[i]
  IN  /\ img[i] \in {"empty", "data"}
      /\ shown[target[p]] = p
      /\ ReloadBusy \/ ~(Called(<<"image", i>>) \/ Called(<<"imgldr", i>>))
      /\ jobs[<<"reflow", p>>] < MaxParked
      /\ img' = [img EXCEPT ![i] = "empty"]
      /\ jobs' = Put(jobs, <<"image", i>>)
      /\ activity' = [activity EXCEPT ![target[p]] = @ + 1]
      /\ UNCHANGED <<target, frames, shown, wait, loading, reflow, owed,
                     stopped>>

\* reflow_job() of a layout that was made by someone else
ReflowStale(p) ==
  /\ Called(<<"reflow", p>>)
  /\ reflow # p
  /\ jobs' = Taken(<<"reflow", p>>)
  /\ UNCHANGED <<target, frames, shown, img, wait, activity, loading, reflow,
                 owed, stopped>>

\* reflow_run(), when no image has come for a while
ReflowRun(p) ==
  /\ Called(<<"reflow", p>>)
  /\ reflow = p
  /\ jobs' = Taken(<<"reflow", p>>)
  /\ reflow' = Nil
  /\ owed' = owed \ {p}
  /\ stopped' = stopped \ {p}
  /\ UNCHANGED <<target, frames, shown, img, wait, activity, loading>>

-----------------------------------------------------------------------------
Next ==
  \/ \E p \in Doc, c \in Cont : StartLoad(p, c) \/ History(p, c)
  \/ \E c \in Cont : Escape(c)
  \/ \E p \in Doc :
       \/ LoadDone(p)
       \/ ParseEnd(p)
       \/ ParseSheet(p)
       \/ ParseMore(p)
       \/ ResumeJob(p)
       \/ ReflowStale(p)
       \/ ReflowRun(p)
  \/ \E i \in Img :
       \/ ImageJob(i)
       \/ ImageFetch(i)
       \/ ImageBad(i)
       \/ ImageLdr(i)
       \/ ImageLdrFails(i)
       \/ Reload(i)

Spec == Init /\ [][Next]_vars

-----------------------------------------------------------------------------
(***************************************************************************)
(* Properties.                                                             *)
(***************************************************************************)

\* What a window counts as begun and not ended, and as being loaded, is what
\* the jobs for its pane have to end: no activity is ended twice, or by
\* nobody, whatever is cleared, stopped, deleted, or fails in between.  (With
\* ReloadBusy it does not hold: delete_image() ends one activity of two.)
Balanced ==
  /\ TypeOK
  /\ \A c \in Cont : /\ activity[c] = EndsFor(jobs, c)
                     /\ loading[c] = LoadsFor(jobs, c)

\* A document is parsed into a container that shows none, and never two at
\* the same time: delete_parser() relies on this to show what it has parsed.
ParserAlone ==
  \A c \in Cont :
    /\ Cardinality(ParsersFor(jobs, c)) <= 1
    /\ ParsersFor(jobs, c) # {} => shown[c] = Nil
    /\ \A p \in ParsersFor(jobs, c) : jobs[<<"parse", p>>] = 1

\* A parser that waits has a loader under way that will let it go on.
WaitServed ==
  \A p \in wait : Called(<<"parse", p>>) /\ Called(<<"style", p>>)

\* The documents that can still be seen, or will be
Alive == {p \in Doc : /\ target[p] # Nil
                      /\ shown[target[p]] = p \/ Called(<<"parse", p>>)}

\* Between two calls of schedule() no job works for a frame, a parser or an
\* image that has been deleted, or that was forgotten undeleted.
JobsLive ==
  /\ Alive \subseteq frames
  /\ \A j \in Pending(jobs) :
       /\ j[1] # "load" => DocArg(j) \in Alive
       /\ j[1] = "style" => Called(<<"parse", j[2]>>)
       /\ j[1] \in {"image", "imgldr"} => img[j[2]] \in {"empty", "data"}

\* reflow_frame, which outlives the calls, names a frame that exists and has
\* a job that will lay it out: otherwise images would wait for ever.
ReflowParked == reflow # Nil => reflow \in frames /\ Called(<<"reflow", reflow>>)

\* The jobs that are registered, and the frame that is remembered for one,
\* are those of documents and images that exist; one parser at a time works for
\* a container, and none of them waits for ever.
Live == JobsLive /\ ReflowParked /\ ParserAlone /\ WaitServed

\* A document with an image of another size than it was laid out for gets a
\* new layout, unless the user stopped it before.
LayoutOwed ==
  \A c \in Cont : shown[c] \in owed => reflow = shown[c] \/ shown[c] \in stopped

=============================================================================
