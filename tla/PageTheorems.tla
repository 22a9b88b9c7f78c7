---------------------------- MODULE PageTheorems ----------------------------
(***************************************************************************)
(* Proofs about Page: no job works for a frame or an image that is gone,   *)
(* parsers wait only for what will come, layouts that are owed are made,   *)
(* and what a window counts as begun is what its jobs have to end.         *)
(*                                                                         *)
(* containr_clear() is called in the middle of other handlers.  So the     *)
(* invariant is stated for the values js of the jobs, tg of the targets,   *)
(* and so on, which may be those between two calls of one step.            *)
(***************************************************************************)
EXTENDS Page, BasicTheorems

-----------------------------------------------------------------------------
(***************************************************************************)
(* The invariant.                                                          *)
(***************************************************************************)
Has(js, k, x) == js[<<k, x>>] > 0

\* The documents that are shown, or parsed
AliveIn(js, tg, sh) ==
  {p \in Doc : tg[p] # Nil /\ (sh[tg[p]] = p \/ Has(js, "parse", p))}

Typed(js, tg, fr, sh, im, wt, rf, ow, st) ==
  /\ js \in [Job -> Nat]
  /\ tg \in [Doc -> Cont \cup {Nil}]
  /\ fr \in SUBSET Doc
  /\ sh \in [Cont -> Doc \cup {Nil}]
  /\ im \in [Img -> {"none", "empty", "data", "gone"}]
  /\ wt \in SUBSET Doc
  /\ rf \in Doc \cup {Nil}
  /\ ow \in SUBSET Doc /\ st \in SUBSET Doc

\* What is shown in a container, or works for it, was asked for there.
Aimed(js, tg, sh) ==
  /\ \A j \in Job : js[j] > 0 => tg[DocArg(j)] # Nil
  /\ \A c \in Cont : sh[c] # Nil => tg[sh[c]] = c

\* A document is loaded once, and then parsed.
Loads(js, tg, sh) ==
  \A p \in Doc : Has(js, "load", p) =>
    js[<<"load", p>>] = 1 /\ p \notin AliveIn(js, tg, sh)

\* One parser works for a container, which shows nothing meanwhile, and it
\* waits while there is a loader of a style sheet for it.
Parsers(js, tg, sh, wt) ==
  /\ \A p \in Doc : Has(js, "parse", p) =>
       js[<<"parse", p>>] = 1 /\ sh[tg[p]] = Nil
  /\ \A p, q \in Doc : Has(js, "parse", p) /\ Has(js, "parse", q) /\ p # q =>
       tg[p] # tg[q]
  /\ \A p \in Doc : Has(js, "style", p) => js[<<"style", p>>] = 1 /\ p \in wt
  /\ \A p \in wt : /\ Has(js, "parse", p)
                   /\ "bad" \notin Sheets => Has(js, "style", p)

\* Jobs other than loaders of documents are for frames that there are, and
\* images are those of documents that were asked for.
Works(js, tg, fr, sh, im) ==
  /\ AliveIn(js, tg, sh) \subseteq fr
  /\ \A j \in Job : js[j] > 0 =>
       /\ j[1] # "load" => DocArg(j) \in AliveIn(js, tg, sh)
       /\ j[1] \in {"image", "imgldr"} => im[j[2]] \in {"empty", "data"}
  /\ \A i \in Img : im[i] # "none" => tg[DocOf[i]] # Nil

\* The layout that is remembered has a job; one that is owed is remembered,
\* or was stopped, unless its document is gone for good.
Layouts(js, tg, fr, sh, rf, ow, st) ==
  /\ rf # Nil => rf \in fr /\ Has(js, "reflow", rf)
  /\ \A p \in ow : /\ tg[p] # Nil /\ ~Has(js, "load", p)
                   /\ p \in AliveIn(js, tg, sh) => rf = p \/ p \in st

Sound(js, tg, fr, sh, im, wt, rf, ow, st) ==
  /\ Typed(js, tg, fr, sh, im, wt, rf, ow, st)
  /\ Aimed(js, tg, sh)
  /\ Loads(js, tg, sh)
  /\ Parsers(js, tg, sh, wt)
  /\ Works(js, tg, fr, sh, im)
  /\ Layouts(js, tg, fr, sh, rf, ow, st)

IInv == Sound(jobs, target, frames, shown, img, wait, reflow, owed, stopped)

-----------------------------------------------------------------------------
(***************************************************************************)
(* Jobs.                                                                   *)
(***************************************************************************)
LEMMA DocJob ==
  ASSUME NEW k \in {"load", "parse", "style", "reflow"}, NEW p \in Doc
  PROVE  <<k, p>> \in Job /\ DocArg(<<k, p>>) = p
BY PageAssumption DEF Job, DocArg

LEMMA ImgJob ==
  ASSUME NEW k \in {"image", "imgldr"}, NEW i \in Img
  PROVE  <<k, i>> \in Job /\ DocArg(<<k, i>>) = DocOf[i] /\ DocOf[i] \in Doc
BY PageAssumption DEF Job, DocArg

LEMMA JobIs ==
  ASSUME NEW j \in Job
  PROVE  /\ DocArg(j) \in Doc
         /\ \/ /\ j[1] \in {"load", "parse", "style", "reflow"}
               /\ j[2] \in Doc /\ DocArg(j) = j[2]
            \/ /\ j[1] \in {"image", "imgldr"}
               /\ j[2] \in Img /\ DocArg(j) = DocOf[j[2]]
         /\ j = <<j[1], j[2]>>
BY PageAssumption DEF Job, DocArg

\* The jobs there are when one more is registered, or one is called
LEMMA PutIs ==
  ASSUME NEW js \in [Job -> Nat], NEW x \in Job
  PROVE  /\ Put(js, x) \in [Job -> Nat]
         /\ \A j \in Job : Put(js, x)[j] = IF j = x THEN js[j] + 1 ELSE js[j]
BY DEF Put

LEMMA TakenIs ==
  ASSUME jobs \in [Job -> Nat], NEW x \in Job, Called(x)
  PROVE  /\ Taken(x) \in [Job -> Nat]
         /\ \A j \in Job : Taken(x)[j] = IF j = x THEN jobs[j] - 1 ELSE jobs[j]
<1>1. jobs[x] - 1 \in Nat
  BY DEF Called
<1> QED
  BY <1>1 DEF Taken

LEMMA TypedNow ==
  ASSUME IInv
  PROVE  /\ jobs \in [Job -> Nat]
         /\ target \in [Doc -> Cont \cup {Nil}]
         /\ frames \in SUBSET Doc
         /\ shown \in [Cont -> Doc \cup {Nil}]
         /\ img \in [Img -> {"none", "empty", "data", "gone"}]
         /\ wait \in SUBSET Doc
         /\ reflow \in Doc \cup {Nil}
         /\ owed \in SUBSET Doc /\ stopped \in SUBSET Doc
BY DEF IInv, Sound, Typed

-----------------------------------------------------------------------------
(***************************************************************************)
(* containr_clear().                                                       *)
(***************************************************************************)
LEMMA ClearedJobs ==
  ASSUME NEW js \in [Job -> Nat],
         Typed(js, target, frames, shown, img, wait, reflow, owed, stopped),
         Aimed(js, target, shown),
         NEW c \in Cont
  PROVE  /\ Cleared(js, c).jobs \in [Job -> Nat]
         /\ \A j \in Job :
              Cleared(js, c).jobs[j] = IF Hash(j) = c THEN 0 ELSE js[j]
         /\ \A p \in Doc : p \in ParsersFor(Without(js, c), c)
                             <=> Has(js, "parse", p) /\ target[p] = c
         /\ Forgotten(Without(js, c), c) =
              IF reflow # Nil /\ Has(js, "reflow", reflow) /\ target[reflow] = c
              THEN Nil ELSE reflow
<1> DEFINE rest == Without(js, c)
<1>1. \A j \in Job : rest[j] \in Nat /\ rest[j] \in {0, js[j]}
  BY DEF Without
<1>2. \A j \in Job : Hash(j) # c => rest[j] = js[j]
  <2> SUFFICES ASSUME NEW j \in Job, NEW i \in ImagesOf(shown[c]),
                      j = <<"image", i>>
               PROVE  Hash(j) = c
    BY DEF Without
  <2>1. i \in Img /\ DocOf[i] = shown[c]
    BY DEF ImagesOf
  <2>2. DocArg(j) = shown[c] /\ shown[c] \in Doc
    BY <2>1, ImgJob
  <2>3. target[shown[c]] = c
    BY <2>2, PageAssumption DEF Aimed
  <2> QED
    BY <2>2, <2>3 DEF Hash
<1>3. \A j \in Job : j[1] # "image" => rest[j] = js[j]
  BY DEF Without
<1>4. \A j \in Job : j \in JobsFor(rest, c) <=> rest[j] > 0 /\ Hash(j) = c
  BY DEF JobsFor, Pending
<1> HIDE DEF rest
<1>5. \A j \in Job : Unscheduled(rest, c)[j] = IF Hash(j) = c THEN 0 ELSE js[j]
  BY <1>1, <1>2, <1>4 DEF Unscheduled
<1>6. Unscheduled(rest, c) \in [Job -> Nat]
  BY <1>1 DEF Unscheduled
<1>7. Cleared(js, c).jobs = Unscheduled(rest, c)
  BY DEF Cleared, rest
<1>8. \A p \in Doc : p \in ParsersFor(rest, c)
                       <=> Has(js, "parse", p) /\ target[p] = c
  <2> TAKE p \in Doc
  <2>1. <<"parse", p>> \in Job /\ DocArg(<<"parse", p>>) = p
    BY DocJob
  <2>2. rest[<<"parse", p>>] = js[<<"parse", p>>]
    BY <1>3, <2>1
  <2> QED
    BY <1>4, <2>1, <2>2 DEF ParsersFor, Has, Hash
<1>9. Forgotten(rest, c) =
        IF reflow # Nil /\ Has(js, "reflow", reflow) /\ target[reflow] = c
        THEN Nil ELSE reflow
  <2>1. CASE reflow = Nil
    BY <2>1 DEF Forgotten
  <2>2. CASE reflow # Nil
    <3>1. reflow \in Doc
      BY <2>2 DEF Typed
    <3>2. <<"reflow", reflow>> \in Job /\ DocArg(<<"reflow", reflow>>) = reflow
      BY <3>1, DocJob
    <3>3. rest[<<"reflow", reflow>>] = js[<<"reflow", reflow>>]
      BY <1>3, <3>2
    <3> QED
      BY <1>4, <2>2, <3>2, <3>3 DEF Forgotten, Has, Hash
  <2> QED
    BY <2>1, <2>2
<1> QED
  BY <1>5, <1>6, <1>7, <1>8, <1>9 DEF rest

\* Nothing is left that is shown in c, or works for it.
NoneFor(js, tg, c) == \A j \in Job : js[j] > 0 => tg[DocArg(j)] # c

LEMMA ClearedSound ==
  ASSUME NEW js,
         Sound(js, target, frames, shown, img, wait, reflow, owed, stopped),
         NEW c \in Cont
  PROVE  LET x == Cleared(js, c)
             sh == [shown EXCEPT ![c] = Nil]
         IN  /\ Sound(x.jobs, target, x.frames, sh, x.img, x.wait, x.reflow,
                      owed, stopped)
             /\ NoneFor(x.jobs, target, c)
<1> DEFINE x == Cleared(js, c)
           sh == [shown EXCEPT ![c] = Nil]
<1>t. /\ js \in [Job -> Nat]
      /\ target \in [Doc -> Cont \cup {Nil}]
      /\ frames \in SUBSET Doc
      /\ shown \in [Cont -> Doc \cup {Nil}]
      /\ img \in [Img -> {"none", "empty", "data", "gone"}]
      /\ wait \in SUBSET Doc
      /\ reflow \in Doc \cup {Nil}
      /\ owed \in SUBSET Doc /\ stopped \in SUBSET Doc
  BY DEF Sound, Typed
<1>a. Typed(js, target, frames, shown, img, wait, reflow, owed, stopped)
  BY DEF Sound
<1>b. Aimed(js, target, shown)
  BY DEF Sound
<1>1. /\ x.jobs \in [Job -> Nat]
      /\ \A j \in Job : x.jobs[j] = IF Hash(j) = c THEN 0 ELSE js[j]
      /\ \A p \in Doc : p \in ParsersFor(Without(js, c), c)
                          <=> Has(js, "parse", p) /\ target[p] = c
      /\ Forgotten(Without(js, c), c) =
           IF reflow # Nil /\ Has(js, "reflow", reflow) /\ target[reflow] = c
           THEN Nil ELSE reflow
  BY <1>t, <1>a, <1>b, ClearedJobs
<1>2. /\ x.frames = frames \ {shown[c]}
      /\ x.img = [i \in Img |-> IF i \in ImagesOf(shown[c]) THEN "gone" ELSE img[i]]
      /\ x.wait = wait \ ParsersFor(Without(js, c), c)
      /\ x.reflow = Forgotten(Without(js, c), c)
  BY DEF Cleared, Deleted
<1> DEFINE xj == x.jobs
           xf == x.frames
           xi == x.img
           xw == x.wait
           xr == x.reflow
<1>3. /\ xj \in [Job -> Nat]
      /\ \A j \in Job : xj[j] = IF Hash(j) = c THEN 0 ELSE js[j]
      /\ xf = frames \ {shown[c]}
      /\ xi = [i \in Img |-> IF i \in ImagesOf(shown[c]) THEN "gone" ELSE img[i]]
      /\ \A p \in Doc : p \in xw <=> p \in wait /\ ~(Has(js, "parse", p) /\ target[p] = c)
      /\ xw \in SUBSET Doc
      /\ xr = IF reflow # Nil /\ Has(js, "reflow", reflow) /\ target[reflow] = c
              THEN Nil ELSE reflow
  BY <1>1, <1>2, <1>t
<1> HIDE DEF x
<1> SUFFICES /\ Sound(xj, target, xf, sh, xi, xw, xr, owed, stopped)
             /\ NoneFor(xj, target, c)
  BY DEF x
<1> HIDE DEF xj, xf, xi, xw, xr
<1>4. \A k \in {"load", "parse", "style", "reflow"}, p \in Doc :
        xj[<<k, p>>] = IF target[p] = c THEN 0 ELSE js[<<k, p>>]
  BY <1>3, DocJob DEF Hash
<1>5. NoneFor(xj, target, c)
  BY <1>3 DEF NoneFor, Hash
<1>6. sh \in [Cont -> Doc \cup {Nil}] /\ sh[c] = Nil
      /\ \A d \in Cont : d # c => sh[d] = shown[d]
  BY <1>t
<1> HIDE DEF sh
<1>7. Typed(xj, target, xf, sh, xi, xw, xr, owed, stopped)
  BY <1>t, <1>3, <1>6 DEF Typed
<1>8. Aimed(xj, target, sh)
  BY <1>b, <1>3, <1>6, <1>t DEF Aimed, Hash
<1>9. \A p \in Doc : p \in AliveIn(xj, target, sh)
                       <=> p \in AliveIn(js, target, shown) /\ target[p] # c
  <2> TAKE p \in Doc
  <2>1. xj[<<"parse", p>>] = IF target[p] = c THEN 0 ELSE js[<<"parse", p>>]
    BY <1>4
  <2>2. p # Nil /\ target[p] \in Cont \cup {Nil}
    BY <1>t, PageAssumption
  <2>3. CASE target[p] = c
    BY <2>1, <2>2, <2>3, <1>6 DEF AliveIn, Has
  <2>4. CASE target[p] # c
    BY <2>1, <2>2, <2>4, <1>6 DEF AliveIn, Has
  <2> QED
    BY <2>3, <2>4
<1>10. Loads(xj, target, sh)
  BY <1>4, <1>9, <1>t DEF Sound, Loads, Has
<1>11. Parsers(xj, target, sh, xw)
  <2>1. Parsers(js, target, shown, wait)
    BY DEF Sound
  <2>2. \A p \in Doc : target[p] = c => ~Has(xj, "parse", p) /\ ~Has(xj, "style", p)
    BY <1>4 DEF Has
  <2>3. \A p \in Doc : target[p] # c =>
          /\ xj[<<"parse", p>>] = js[<<"parse", p>>]
          /\ xj[<<"style", p>>] = js[<<"style", p>>]
          /\ (Has(xj, "parse", p) <=> Has(js, "parse", p))
          /\ (Has(xj, "style", p) <=> Has(js, "style", p))
    BY <1>4 DEF Has
  <2>4. \A p \in Doc : Has(js, "parse", p) => target[p] # Nil
    BY <1>b, DocJob DEF Aimed, Has
  <2> QED
    BY <2>1, <2>2, <2>3, <2>4, <1>3, <1>6, <1>t, ZenonT(40) DEF Parsers
<1>12. Works(xj, target, xf, sh, xi)
  <2>1. Works(js, target, frames, shown, img)
    BY DEF Sound
  <2>2. AliveIn(xj, target, sh) \subseteq xf
    <3> SUFFICES ASSUME NEW p \in AliveIn(xj, target, sh)
                 PROVE  p \in xf
      OBVIOUS
    <3>1. p \in Doc /\ p \in AliveIn(js, target, shown) /\ target[p] # c
      BY <1>9 DEF AliveIn
    <3>2. p # shown[c]
      BY <1>b, <1>t, <3>1, PageAssumption DEF Aimed
    <3> QED
      BY <2>1, <3>1, <3>2, <1>3 DEF Works
  <2>3. ASSUME NEW j \in Job, xj[j] > 0
        PROVE  /\ j[1] # "load" => DocArg(j) \in AliveIn(xj, target, sh)
               /\ j[1] \in {"image", "imgldr"} => xi[j[2]] \in {"empty", "data"}
    <3>1. js[j] > 0 /\ target[DocArg(j)] # c
      BY <1>3, <2>3 DEF Hash
    <3>2. j[1] # "load" => DocArg(j) \in AliveIn(xj, target, sh)
      BY <2>1, <3>1, <1>9, JobIs DEF Works
    <3>3. ASSUME j[1] \in {"image", "imgldr"}
          PROVE  xi[j[2]] \in {"empty", "data"}
      <4>1. j[2] \in Img /\ DocArg(j) = DocOf[j[2]] /\ DocArg(j) \in Doc
        BY <3>3, JobIs
      <4>2. DocOf[j[2]] # shown[c]
        BY <4>1, <3>1, <1>b, <1>t, PageAssumption DEF Aimed
      <4>3. xi[j[2]] = img[j[2]]
        BY <4>1, <4>2, <1>3 DEF ImagesOf
      <4> QED
        BY <4>3, <3>1, <3>3, <2>1 DEF Works
    <3> QED
      BY <3>2, <3>3
  <2>4. \A i \in Img : xi[i] # "none" => target[DocOf[i]] # Nil
    <3>1. \A i \in Img : xi[i] # "none" => img[i] # "none"
      BY <1>3 DEF ImagesOf
    <3> QED
      BY <2>1, <3>1 DEF Works
  <2> QED
    BY <2>2, <2>3, <2>4 DEF Works
<1>13. Layouts(xj, target, xf, sh, xr, owed, stopped)
  <2>1. Layouts(js, target, frames, shown, reflow, owed, stopped)
    BY DEF Sound
  <2>2. ASSUME xr # Nil
        PROVE  xr \in xf /\ Has(xj, "reflow", xr)
    <3>1. xr = reflow /\ reflow \in Doc /\ target[reflow] # c
          /\ reflow \in frames /\ Has(js, "reflow", reflow)
      BY <2>1, <2>2, <1>3, <1>t DEF Layouts
    <3>2. reflow # shown[c]
      BY <1>b, <1>t, <3>1, PageAssumption DEF Aimed
    <3> QED
      BY <3>1, <3>2, <1>3, <1>4 DEF Has
  <2>3. ASSUME NEW p \in owed
        PROVE  /\ target[p] # Nil /\ ~Has(xj, "load", p)
               /\ p \in AliveIn(xj, target, sh) => xr = p \/ p \in stopped
    BY <2>1, <1>3, <1>4, <1>9, <1>t DEF Layouts, Has
  <2> QED
    BY <2>2, <2>3 DEF Layouts
<1> QED
  BY <1>5, <1>7, <1>8, <1>10, <1>11, <1>12, <1>13 DEF Sound

-----------------------------------------------------------------------------
(***************************************************************************)
(* A document is asked for, loaded, and gets a parser.                     *)
(***************************************************************************)
Asked(tg, p, c, t) == tg[p] = Nil /\ t = [tg EXCEPT ![p] = c]

LEMMA TargetSound ==
  ASSUME NEW js, NEW tg, NEW fr, NEW sh, NEW im, NEW wt, NEW rf, NEW ow, NEW st,
         Sound(js, tg, fr, sh, im, wt, rf, ow, st),
         NEW p \in Doc, NEW c \in Cont, NEW t, Asked(tg, p, c, t)
  PROVE  /\ Sound(js, t, fr, sh, im, wt, rf, ow, st)
         /\ NoneFor(js, tg, c) => NoneFor(js, t, c)
         /\ p \notin ow /\ js[<<"load", p>>] = 0
         /\ p \notin AliveIn(js, t, sh)
<1>0. tg[p] = Nil /\ t = [tg EXCEPT ![p] = c]
  BY DEF Asked
<1>t. Typed(js, tg, fr, sh, im, wt, rf, ow, st)
  BY DEF Sound
<1>a. Aimed(js, tg, sh)
  BY DEF Sound
<1>1. /\ t \in [Doc -> Cont \cup {Nil}] /\ t[p] = c
      /\ \A q \in Doc : q # p => t[q] = tg[q]
      /\ c # Nil /\ p # Nil
  BY <1>0, <1>t, PageAssumption DEF Typed
<1>2. \A j \in Job : js[j] > 0 => DocArg(j) # p /\ t[DocArg(j)] = tg[DocArg(j)]
  BY <1>0, <1>a, <1>1, JobIs DEF Aimed
<1>3. \A d \in Cont : sh[d] # p
  BY <1>0, <1>a, <1>1, <1>t, PageAssumption DEF Aimed, Typed
<1>4. \A d \in Cont : sh[d] # Nil => t[sh[d]] = tg[sh[d]]
  BY <1>3, <1>1, <1>t DEF Typed
<1>5. /\ ~Has(js, "load", p) /\ ~Has(js, "parse", p) /\ ~Has(js, "style", p)
      /\ ~Has(js, "reflow", p)
  BY <1>2, DocJob DEF Has
<1>6. \A q \in Doc : q \in AliveIn(js, t, sh) <=> q \in AliveIn(js, tg, sh)
  <2> TAKE q \in Doc
  <2>1. CASE q = p
    BY <2>1, <1>0, <1>1, <1>3, <1>5 DEF AliveIn
  <2>2. CASE q # p
    BY <2>2, <1>1 DEF AliveIn
  <2> QED
    BY <2>1, <2>2
<1>7. AliveIn(js, t, sh) = AliveIn(js, tg, sh)
  BY <1>6 DEF AliveIn
<1>8. js[<<"load", p>>] = 0 /\ p \notin AliveIn(js, t, sh)
  <2>1. <<"load", p>> \in Job
    BY DocJob
  <2>2. p \notin AliveIn(js, tg, sh)
    BY <1>0 DEF AliveIn
  <2> QED
    BY <2>1, <2>2, <1>5, <1>7, <1>t DEF Has, Typed
<1>9. p \notin ow
  BY <1>0 DEF Sound, Layouts
<1>10. NoneFor(js, tg, c) => NoneFor(js, t, c)
  BY <1>2 DEF NoneFor
<1>11. Sound(js, t, fr, sh, im, wt, rf, ow, st)
  <2>1. Typed(js, t, fr, sh, im, wt, rf, ow, st)
    BY <1>t, <1>1 DEF Typed
  <2>2. Aimed(js, t, sh)
    BY <1>a, <1>2, <1>4 DEF Aimed
  <2>3. Loads(js, t, sh)
    BY <1>7 DEF Sound, Loads
  <2>4. Parsers(js, t, sh, wt)
    BY <1>1, <1>5 DEF Sound, Parsers
  <2>5. Works(js, t, fr, sh, im)
    <3>1. \A i \in Img : im[i] # "none" => t[DocOf[i]] # Nil
      BY <1>1, PageAssumption DEF Sound, Works
    <3> QED
      BY <1>7, <3>1 DEF Sound, Works
  <2>6. Layouts(js, t, fr, sh, rf, ow, st)
    <3>1. Layouts(js, tg, fr, sh, rf, ow, st)
      BY DEF Sound
    <3>2. \A q \in ow : t[q] = tg[q]
      BY <1>1, <1>9, <1>t DEF Typed
    <3> QED
      BY <3>1, <3>2, <1>7 DEF Layouts
  <2> QED
    BY <2>1, <2>2, <2>3, <2>4, <2>5, <2>6 DEF Sound
<1> QED
  BY <1>8, <1>9, <1>10, <1>11

\* A loader is started for a document that was just asked for.
LEMMA LoadSound ==
  ASSUME NEW js, NEW tg, NEW fr, NEW sh, NEW im, NEW wt, NEW rf, NEW ow, NEW st,
         Sound(js, tg, fr, sh, im, wt, rf, ow, st),
         NEW p \in Doc, tg[p] # Nil,
         js[<<"load", p>>] = 0, p \notin AliveIn(js, tg, sh), p \notin ow
  PROVE  Sound(Put(js, <<"load", p>>), tg, fr, sh, im, wt, rf, ow, st)
<1> DEFINE n == Put(js, <<"load", p>>)
<1>t. Typed(js, tg, fr, sh, im, wt, rf, ow, st)
  BY DEF Sound
<1>0. js \in [Job -> Nat]
  BY <1>t DEF Typed
<1>a. <<"load", p>> \in Job /\ DocArg(<<"load", p>>) = p
  BY DocJob
<1>1. /\ n \in [Job -> Nat]
      /\ \A j \in Job : n[j] = IF j = <<"load", p>> THEN js[j] + 1 ELSE js[j]
  BY <1>0, <1>a, PutIs
<1> HIDE DEF n
<1>2. \A j \in Job : n[j] > 0 => j = <<"load", p>> \/ js[j] > 0
  BY <1>1
<1>3. \A k \in {"parse", "style", "reflow"}, q \in Doc : n[<<k, q>>] = js[<<k, q>>]
  BY <1>1, DocJob
<1>4. \A q \in Doc : n[<<"load", q>>] = IF q = p THEN 1 ELSE js[<<"load", q>>]
  <2> TAKE q \in Doc
  <2>1. <<"load", q>> \in Job
    BY DocJob
  <2>2. q # p => <<"load", q>> # <<"load", p>>
    OBVIOUS
  <2> QED
    BY <2>1, <2>2, <1>1
<1>5. AliveIn(n, tg, sh) = AliveIn(js, tg, sh)
  BY <1>3 DEF AliveIn, Has
<1>6. Typed(n, tg, fr, sh, im, wt, rf, ow, st)
  BY <1>t, <1>1 DEF Typed
<1>7. Aimed(n, tg, sh)
  BY <1>2, <1>a DEF Sound, Aimed
<1>8. Loads(n, tg, sh)
  BY <1>4, <1>5 DEF Sound, Loads, Has
<1>9. Parsers(n, tg, sh, wt)
  <2>1. wt \in SUBSET Doc
    BY <1>t DEF Typed
  <2> QED
    BY <2>1, <1>3 DEF Sound, Parsers, Has
<1>10. Works(n, tg, fr, sh, im)
  <2>1. Works(js, tg, fr, sh, im)
    BY DEF Sound
  <2>2. ASSUME NEW j \in Job, n[j] > 0
        PROVE  /\ j[1] # "load" => DocArg(j) \in AliveIn(js, tg, sh)
               /\ j[1] \in {"image", "imgldr"} => im[j[2]] \in {"empty", "data"}
    BY <2>1, <2>2, <1>2 DEF Works
  <2> QED
    BY <2>1, <2>2, <1>5 DEF Works
<1>11. Layouts(n, tg, fr, sh, rf, ow, st)
  <2>1. Layouts(js, tg, fr, sh, rf, ow, st)
    BY DEF Sound
  <2>2. rf # Nil => Has(n, "reflow", rf)
    BY <2>1, <1>3, <1>t DEF Layouts, Has, Typed
  <2>3. \A q \in ow : ~Has(n, "load", q)
    BY <2>1, <1>4, <1>t DEF Layouts, Has, Typed
  <2> QED
    BY <2>1, <2>2, <2>3, <1>5 DEF Layouts
<1> QED
  BY <1>6, <1>7, <1>8, <1>9, <1>10, <1>11 DEF Sound, n

\* new_parser() for a container that has been cleared
LEMMA ParseSound ==
  ASSUME NEW js, NEW tg, NEW fr, NEW sh, NEW im, NEW wt, NEW rf, NEW ow, NEW st,
         Sound(js, tg, fr, sh, im, wt, rf, ow, st),
         NEW c \in Cont, sh[c] = Nil, NoneFor(js, tg, c),
         NEW p \in Doc, tg[p] = c, p \notin ow
  PROVE  Sound(Put(js, <<"parse", p>>), tg, fr \cup {p}, sh, im, wt, rf, ow, st)
<1> DEFINE n == Put(js, <<"parse", p>>)
<1>t. Typed(js, tg, fr, sh, im, wt, rf, ow, st)
  BY DEF Sound
<1>0. js \in [Job -> Nat] /\ c # Nil
  BY <1>t, PageAssumption DEF Typed
<1>a. <<"parse", p>> \in Job /\ DocArg(<<"parse", p>>) = p
  BY DocJob
<1>1. /\ n \in [Job -> Nat]
      /\ \A j \in Job : n[j] = IF j = <<"parse", p>> THEN js[j] + 1 ELSE js[j]
  BY <1>0, <1>a, PutIs
<1> HIDE DEF n
<1>2. \A j \in Job : n[j] > 0 => j = <<"parse", p>> \/ js[j] > 0
  BY <1>1
<1>3. \A k \in {"load", "style", "reflow"}, q \in Doc : n[<<k, q>>] = js[<<k, q>>]
  BY <1>1, DocJob
<1>b. \A q \in Doc : tg[q] = c =>
        ~Has(js, "parse", q) /\ ~Has(js, "load", q) /\ ~Has(js, "style", q)
  BY DocJob DEF NoneFor, Has
<1>4. \A q \in Doc : n[<<"parse", q>>] = IF q = p THEN 1 ELSE js[<<"parse", q>>]
  <2>1. js[<<"parse", p>>] = 0
    <3>1. ~(js[<<"parse", p>>] > 0)
      BY <1>a DEF NoneFor
    <3> QED
      BY <3>1, <1>a, <1>0
  <2> TAKE q \in Doc
  <2>2. <<"parse", q>> \in Job
    BY DocJob
  <2>3. q # p => <<"parse", q>> # <<"parse", p>>
    OBVIOUS
  <2> QED
    BY <2>1, <2>2, <2>3, <1>1
<1>5. AliveIn(n, tg, sh) = AliveIn(js, tg, sh) \cup {p}
  BY <1>0, <1>4 DEF AliveIn, Has
<1>6. Typed(n, tg, fr \cup {p}, sh, im, wt, rf, ow, st)
  BY <1>t, <1>1 DEF Typed
<1>7. Aimed(n, tg, sh)
  BY <1>0, <1>2, <1>a DEF Sound, Aimed
<1>8. Loads(n, tg, sh)
  BY <1>3, <1>5, <1>b DEF Sound, Loads, Has
<1>9. Parsers(n, tg, sh, wt)
  <2>1. wt \in SUBSET Doc
    BY <1>t DEF Typed
  <2>2. Parsers(js, tg, sh, wt)
    BY DEF Sound
  <2>3. \A q \in Doc : q # p => (Has(n, "parse", q) <=> Has(js, "parse", q))
    BY <1>4 DEF Has
  <2>4. \A q \in Doc : Has(n, "style", q) <=> Has(js, "style", q)
    BY <1>3 DEF Has
  <2>5. Has(n, "parse", p)
    BY <1>4 DEF Has
  <2>6. \A q \in Doc : Has(n, "parse", q) => n[<<"parse", q>>] = 1 /\ sh[tg[q]] = Nil
    BY <2>2, <2>3, <1>4 DEF Parsers
  <2>7. \A q, r \in Doc : Has(n, "parse", q) /\ Has(n, "parse", r) /\ q # r =>
          tg[q] # tg[r]
    BY <2>2, <2>3, <1>b DEF Parsers
  <2>8. \A q \in Doc : Has(n, "style", q) => n[<<"style", q>>] = 1 /\ q \in wt
    BY <2>2, <2>4, <1>3 DEF Parsers
  <2>9. \A q \in wt : /\ Has(n, "parse", q)
                      /\ "bad" \notin Sheets => Has(n, "style", q)
    BY <2>1, <2>2, <2>3, <2>4, <2>5 DEF Parsers
  <2> QED
    BY <2>6, <2>7, <2>8, <2>9 DEF Parsers
<1>10. Works(n, tg, fr \cup {p}, sh, im)
  <2>1. Works(js, tg, fr, sh, im)
    BY DEF Sound
  <2>2. ASSUME NEW j \in Job, n[j] > 0
        PROVE  /\ j[1] # "load" => DocArg(j) \in AliveIn(js, tg, sh) \cup {p}
               /\ j[1] \in {"image", "imgldr"} => im[j[2]] \in {"empty", "data"}
    BY <2>1, <2>2, <1>2, <1>a DEF Works
  <2> QED
    BY <2>1, <2>2, <1>5 DEF Works
<1>11. Layouts(n, tg, fr \cup {p}, sh, rf, ow, st)
  <2>1. Layouts(js, tg, fr, sh, rf, ow, st)
    BY DEF Sound
  <2>2. rf # Nil => Has(n, "reflow", rf)
    BY <2>1, <1>3, <1>t DEF Layouts, Has, Typed
  <2>3. \A q \in ow : ~Has(n, "load", q)
    BY <2>1, <1>3, <1>t DEF Layouts, Has, Typed
  <2>4. \A q \in ow : q \in AliveIn(n, tg, sh) => q \in AliveIn(js, tg, sh)
    BY <1>5
  <2> QED
    BY <2>1, <2>2, <2>3, <2>4 DEF Layouts
<1> QED
  BY <1>6, <1>7, <1>8, <1>9, <1>10, <1>11 DEF Sound, n

LEMMA NewParserStep ==
  ASSUME NEW js,
         Sound(js, target, frames, shown, img, wait, reflow, owed, stopped),
         NEW p \in Doc, NEW c \in Cont, NEW begun, NEW loads,
         \/ target' = target /\ target[p] = c /\ p \notin owed
         \/ target' = [target EXCEPT ![p] = c] /\ target[p] = Nil,
         NewParser(p, c, js, begun, loads)
  PROVE  IInv'
<1> DEFINE x == Cleared(js, c)
           sh == [shown EXCEPT ![c] = Nil]
<1>1. /\ Sound(x.jobs, target, x.frames, sh, x.img, x.wait, x.reflow, owed, stopped)
      /\ NoneFor(x.jobs, target, c)
  BY ClearedSound
<1>2. /\ jobs' = Put(x.jobs, <<"parse", p>>)
      /\ frames' = x.frames \cup {p}
      /\ shown' = sh
      /\ img' = x.img
      /\ wait' = x.wait
      /\ reflow' = x.reflow
      /\ owed' = owed
      /\ stopped' = stopped
  BY DEF NewParser
<1>3. sh[c] = Nil /\ target'[p] = c
  <2>1. shown \in [Cont -> Doc \cup {Nil}] /\ target \in [Doc -> Cont \cup {Nil}]
    BY DEF Sound, Typed
  <2> QED
    BY <2>1
<1> HIDE DEF x, sh
<1>4. /\ Sound(x.jobs, target', x.frames, sh, x.img, x.wait, x.reflow, owed, stopped)
      /\ NoneFor(x.jobs, target', c)
      /\ p \notin owed
  <2>1. CASE target' = target /\ target[p] = c /\ p \notin owed
    BY <1>1, <2>1
  <2>2. CASE target' = [target EXCEPT ![p] = c] /\ target[p] = Nil
    <3>1. Asked(target, p, c, target')
      BY <2>2 DEF Asked
    <3> QED
      BY <1>1, <3>1, TargetSound
  <2> QED
    BY <2>1, <2>2
<1>5. Sound(Put(x.jobs, <<"parse", p>>), target', x.frames \cup {p}, sh, x.img,
            x.wait, x.reflow, owed, stopped)
  BY <1>3, <1>4, ParseSound
<1> QED
  BY <1>2, <1>5 DEF IInv

LEMMA StartLoadStep ==
  ASSUME IInv, NEW p \in Doc, NEW c \in Cont, StartLoad(p, c)
  PROVE  IInv'
<1>1. target[p] = Nil /\ target' = [target EXCEPT ![p] = c]
  BY DEF StartLoad
<1>2. CASE p \in Intern
  <2>1. NewParser(p, c, jobs, 2, 1)
    BY <1>2 DEF StartLoad
  <2> QED
    BY <1>1, <2>1, NewParserStep DEF IInv
<1>3. CASE p \notin Intern
  <2>1. /\ jobs' = Put(jobs, <<"load", p>>)
        /\ UNCHANGED <<frames, shown, img, wait, reflow, owed, stopped>>
    BY <1>3 DEF StartLoad
  <2>2. /\ Sound(jobs, target', frames, shown, img, wait, reflow, owed, stopped)
        /\ p \notin owed /\ jobs[<<"load", p>>] = 0
        /\ p \notin AliveIn(jobs, target', shown)
    <3>1. Asked(target, p, c, target')
      BY <1>1 DEF Asked
    <3>2. Sound(jobs, target, frames, shown, img, wait, reflow, owed, stopped)
      BY DEF IInv
    <3> QED
      BY ONLY p \in Doc, c \in Cont, <3>1, <3>2, TargetSound
  <2>3. target'[p] # Nil
    BY <1>1, TypedNow, PageAssumption
  <2>4. Sound(Put(jobs, <<"load", p>>), target', frames, shown, img, wait, reflow,
              owed, stopped)
    BY <2>2, <2>3, LoadSound
  <2> QED
    BY <2>1, <2>4 DEF IInv
<1> QED
  BY <1>2, <1>3

LEMMA HistoryStep ==
  ASSUME IInv, NEW p \in Doc, NEW c \in Cont, History(p, c)
  PROVE  IInv'
<1> DEFINE x == Cleared(jobs, c)
           sh == [shown EXCEPT ![c] = Nil]
<1>1. /\ Sound(x.jobs, target, x.frames, sh, x.img, x.wait, x.reflow, owed, stopped)
      /\ NoneFor(x.jobs, target, c)
  BY ClearedSound DEF IInv
<1>2. /\ target[p] = Nil /\ target' = [target EXCEPT ![p] = c]
      /\ jobs' = Put(x.jobs, <<IF p \in Intern THEN "parse" ELSE "load", p>>)
      /\ frames' = IF p \in Intern THEN x.frames \cup {p} ELSE x.frames
      /\ shown' = sh
      /\ img' = x.img
      /\ wait' = x.wait
      /\ reflow' = x.reflow
      /\ owed' = owed
      /\ stopped' = stopped
  BY DEF History
<1>3. sh[c] = Nil /\ target'[p] = c /\ c # Nil
  BY <1>2, TypedNow, PageAssumption
<1> HIDE DEF x, sh
<1>4. /\ Sound(x.jobs, target', x.frames, sh, x.img, x.wait, x.reflow, owed, stopped)
      /\ NoneFor(x.jobs, target', c)
      /\ p \notin owed /\ x.jobs[<<"load", p>>] = 0
      /\ p \notin AliveIn(x.jobs, target', sh)
  <2>1. Asked(target, p, c, target')
    BY <1>2 DEF Asked
  <2> QED
    BY <1>1, <2>1, TargetSound
<1>5. CASE p \in Intern
  <2>1. Sound(Put(x.jobs, <<"parse", p>>), target', x.frames \cup {p}, sh, x.img,
              x.wait, x.reflow, owed, stopped)
    BY <1>3, <1>4, ParseSound
  <2> QED
    BY <1>2, <1>5, <2>1 DEF IInv
<1>6. CASE p \notin Intern
  <2>1. Sound(Put(x.jobs, <<"load", p>>), target', x.frames, sh, x.img, x.wait,
              x.reflow, owed, stopped)
    BY <1>3, <1>4, LoadSound
  <2> QED
    BY <1>2, <1>6, <2>1 DEF IInv
<1> QED
  BY <1>5, <1>6

\* The loader of a document is called.
LEMMA LoadTaken ==
  ASSUME IInv, NEW p \in Doc, Called(<<"load", p>>)
  PROVE  /\ Sound(Taken(<<"load", p>>), target, frames, shown, img, wait, reflow,
                  owed, stopped)
         /\ target[p] \in Cont /\ p \notin owed
<1> DEFINE n == Taken(<<"load", p>>)
<1>1. <<"load", p>> \in Job /\ DocArg(<<"load", p>>) = p /\ Called(<<"load", p>>)
  BY DocJob
<1>t. /\ target \in [Doc -> Cont \cup {Nil}]
      /\ wait \in SUBSET Doc
      /\ reflow \in Doc \cup {Nil}
      /\ owed \in SUBSET Doc
  BY TypedNow
<1>2. /\ n \in [Job -> Nat]
      /\ \A j \in Job : n[j] = IF j = <<"load", p>> THEN jobs[j] - 1 ELSE jobs[j]
  BY <1>1, TypedNow, TakenIs
<1>3. target[p] \in Cont
  BY <1>1, <1>t DEF IInv, Sound, Aimed, Called
<1>4. p \notin owed
  BY <1>1 DEF IInv, Sound, Layouts, Has, Called
<1> HIDE DEF n
<1>6. \A j \in Job : n[j] > 0 => jobs[j] > 0
  BY <1>2, TypedNow
<1>7. \A k \in {"parse", "style", "reflow"}, q \in Doc : n[<<k, q>>] = jobs[<<k, q>>]
  BY <1>2, DocJob
<1>8. \A q \in Doc : n[<<"load", q>>] \in {0, jobs[<<"load", q>>]}
  <2> TAKE q \in Doc
  <2>1. <<"load", q>> \in Job
    BY DocJob
  <2>2. jobs[<<"load", p>>] = 1
    BY <1>1 DEF IInv, Sound, Loads, Has, Called
  <2> QED
    BY <2>1, <2>2, <1>2
<1>9. AliveIn(n, target, shown) = AliveIn(jobs, target, shown)
  BY <1>7 DEF AliveIn, Has
<1>10. Sound(n, target, frames, shown, img, wait, reflow, owed, stopped)
  <2>1. Typed(n, target, frames, shown, img, wait, reflow, owed, stopped)
    BY <1>2 DEF IInv, Sound, Typed
  <2>2. Aimed(n, target, shown)
    BY <1>6 DEF IInv, Sound, Aimed
  <2>3. Loads(n, target, shown)
    BY <1>8, <1>9 DEF IInv, Sound, Loads, Has
  <2>4. Parsers(n, target, shown, wait)
    BY <1>7, <1>t DEF IInv, Sound, Parsers, Has
  <2>5. Works(n, target, frames, shown, img)
    BY <1>6, <1>9 DEF IInv, Sound, Works
  <2>6. Layouts(n, target, frames, shown, reflow, owed, stopped)
    <3>1. Layouts(jobs, target, frames, shown, reflow, owed, stopped)
      BY DEF IInv, Sound
    <3>2. reflow # Nil => Has(n, "reflow", reflow)
      BY <3>1, <1>7, <1>t DEF Layouts, Has
    <3>3. \A q \in owed : ~Has(n, "load", q)
      <4> TAKE q \in owed
      <4>1. ~Has(jobs, "load", q) /\ q \in Doc
        BY <3>1, <1>t DEF Layouts
      <4> QED
        BY <4>1, <1>8 DEF Has
    <3> QED
      BY <3>1, <3>2, <3>3, <1>9 DEF Layouts
  <2> QED
    BY <2>1, <2>2, <2>3, <2>4, <2>5, <2>6 DEF Sound
<1> QED
  BY <1>3, <1>4, <1>10 DEF n

LEMMA LoadDoneStep ==
  ASSUME IInv, NEW p \in Doc, LoadDone(p)
  PROVE  IInv'
<1>1. /\ Called(<<"load", p>>) /\ target' = target
      /\ NewParser(p, target[p], Taken(<<"load", p>>), 0, 0)
  BY DEF LoadDone
<1>2. /\ Sound(Taken(<<"load", p>>), target, frames, shown, img, wait, reflow,
               owed, stopped)
      /\ target[p] \in Cont /\ p \notin owed
  BY <1>1, LoadTaken
<1> QED
  BY <1>1, <1>2, NewParserStep

-----------------------------------------------------------------------------
(***************************************************************************)
(* The jobs of images, and the layouts.                                    *)
(***************************************************************************)

\* What images and their jobs may become without a change of anything else
LEMMA ImagesSound ==
  ASSUME NEW js, NEW tg, NEW fr, NEW sh, NEW im, NEW wt, NEW rf, NEW ow, NEW st,
         Sound(js, tg, fr, sh, im, wt, rf, ow, st),
         NEW n \in [Job -> Nat],
         NEW i2 \in [Img -> {"none", "empty", "data", "gone"}],
         \A k \in {"load", "parse", "style", "reflow"}, p \in Doc :
           n[<<k, p>>] = js[<<k, p>>],
         \A k \in {"image", "imgldr"}, i \in Img : n[<<k, i>>] > 0 =>
           DocOf[i] \in AliveIn(js, tg, sh) /\ i2[i] \in {"empty", "data"},
         \A i \in Img : i2[i] # "none" => tg[DocOf[i]] # Nil
  PROVE  Sound(n, tg, fr, sh, i2, wt, rf, ow, st)
<1>t. Typed(js, tg, fr, sh, im, wt, rf, ow, st)
  BY DEF Sound
<1>1. AliveIn(n, tg, sh) = AliveIn(js, tg, sh)
  BY DEF AliveIn, Has
<1>2. Typed(n, tg, fr, sh, i2, wt, rf, ow, st)
  BY <1>t DEF Typed
<1>3. ASSUME NEW j \in Job, n[j] > 0
      PROVE  /\ tg[DocArg(j)] # Nil
             /\ j[1] # "load" => DocArg(j) \in AliveIn(js, tg, sh)
             /\ j[1] \in {"image", "imgldr"} => i2[j[2]] \in {"empty", "data"}
  <2>1. CASE j[1] \in {"load", "parse", "style", "reflow"}
    <3>1. n[j] = js[j]
      BY <2>1, JobIs
    <3> QED
      BY <2>1, <3>1, <1>3 DEF Sound, Works, Aimed
  <2>2. CASE j[1] \in {"image", "imgldr"}
    <3>1. DocArg(j) \in AliveIn(js, tg, sh) /\ i2[j[2]] \in {"empty", "data"}
      BY <2>2, <1>3, JobIs
    <3> QED
      BY <3>1, <2>2 DEF AliveIn
  <2> QED
    BY <2>1, <2>2, JobIs
<1>4. Aimed(n, tg, sh)
  BY <1>3 DEF Sound, Aimed
<1>5. Loads(n, tg, sh)
  BY <1>1 DEF Sound, Loads, Has
<1>6. Parsers(n, tg, sh, wt)
  <2>1. wt \in SUBSET Doc
    BY <1>t DEF Typed
  <2> QED
    BY <2>1 DEF Sound, Parsers, Has
<1>7. Works(n, tg, fr, sh, i2)
  BY <1>1, <1>3 DEF Sound, Works
<1>8. Layouts(n, tg, fr, sh, rf, ow, st)
  <2>1. Layouts(js, tg, fr, sh, rf, ow, st)
    BY DEF Sound
  <2>2. rf # Nil => Has(n, "reflow", rf)
    BY <2>1, <1>t DEF Layouts, Has, Typed
  <2>3. \A q \in ow : ~Has(n, "load", q)
    BY <2>1, <1>t DEF Layouts, Has, Typed
  <2> QED
    BY <2>1, <2>2, <2>3, <1>1 DEF Layouts
<1> QED
  BY <1>2, <1>4, <1>5, <1>6, <1>7, <1>8 DEF Sound

\* What layouts, the one that is remembered, and those that are owed may become
LEMMA LayoutsSound ==
  ASSUME NEW js, NEW tg, NEW fr, NEW sh, NEW im, NEW wt, NEW rf, NEW ow, NEW st,
         Sound(js, tg, fr, sh, im, wt, rf, ow, st),
         NEW n \in [Job -> Nat],
         \A j \in Job : j[1] # "reflow" => n[j] = js[j],
         \A p \in Doc : Has(n, "reflow", p) => p \in AliveIn(js, tg, sh),
         NEW r2 \in Doc \cup {Nil}, NEW o2 \in SUBSET Doc, NEW s2 \in SUBSET Doc,
         Layouts(n, tg, fr, sh, r2, o2, s2)
  PROVE  Sound(n, tg, fr, sh, im, wt, r2, o2, s2)
<1>t. Typed(js, tg, fr, sh, im, wt, rf, ow, st)
  BY DEF Sound
<1>1. \A k \in {"load", "parse", "style"}, p \in Doc : n[<<k, p>>] = js[<<k, p>>]
  BY DocJob
<1>2. AliveIn(n, tg, sh) = AliveIn(js, tg, sh)
  BY <1>1 DEF AliveIn, Has
<1>3. Typed(n, tg, fr, sh, im, wt, r2, o2, s2)
  BY <1>t DEF Typed
<1>4. ASSUME NEW j \in Job, n[j] > 0
      PROVE  /\ tg[DocArg(j)] # Nil
             /\ j[1] # "load" => DocArg(j) \in AliveIn(js, tg, sh)
             /\ j[1] \in {"image", "imgldr"} => im[j[2]] \in {"empty", "data"}
  <2>1. CASE j[1] = "reflow"
    <3>1. DocArg(j) \in AliveIn(js, tg, sh)
      BY <2>1, <1>4, JobIs DEF Has
    <3> QED
      BY <2>1, <3>1 DEF AliveIn
  <2>2. CASE j[1] # "reflow"
    BY <2>2, <1>4 DEF Sound, Works, Aimed
  <2> QED
    BY <2>1, <2>2
<1>5. Aimed(n, tg, sh)
  BY <1>4 DEF Sound, Aimed
<1>6. Loads(n, tg, sh)
  BY <1>1, <1>2 DEF Sound, Loads, Has
<1>7. Parsers(n, tg, sh, wt)
  <2>1. wt \in SUBSET Doc
    BY <1>t DEF Typed
  <2> QED
    BY <2>1, <1>1 DEF Sound, Parsers, Has
<1>8. Works(n, tg, fr, sh, im)
  BY <1>2, <1>4 DEF Sound, Works
<1> QED
  BY <1>3, <1>5, <1>6, <1>7, <1>8 DEF Sound

\* reflow_defer() for a document that is there
LEMMA DeferSound ==
  ASSUME NEW js, NEW im, IInv,
         Sound(js, target, frames, shown, im, wait, reflow, owed, stopped),
         NEW p \in Doc, p \in AliveIn(js, target, shown),
         Defer(p, js)
  PROVE  Sound(jobs', target, frames, shown, im, wait, reflow', owed', stopped')
<1>t. /\ js \in [Job -> Nat]
      /\ reflow \in Doc \cup {Nil}
      /\ owed \in SUBSET Doc /\ stopped \in SUBSET Doc
  BY DEF Sound, Typed
<1>0. Layouts(js, target, frames, shown, reflow, owed, stopped)
  BY DEF Sound
<1>1. <<"reflow", p>> \in Job
  BY DocJob
<1>2. /\ reflow' = p
      /\ (jobs' = js /\ reflow = p) \/ jobs' = Put(js, <<"reflow", p>>)
      /\ owed' = (owed \ {reflow}) \cup {p}
      /\ stopped' = stopped \ {reflow}
  BY DEF Defer
<1>3. /\ jobs' \in [Job -> Nat]
      /\ \A j \in Job : j # <<"reflow", p>> => jobs'[j] = js[j]
      /\ jobs'[<<"reflow", p>>] > 0
  <2>1. CASE jobs' = js /\ reflow = p
    BY <2>1, <1>0, <1>t, PageAssumption DEF Layouts, Has
  <2>2. CASE jobs' = Put(js, <<"reflow", p>>)
    <3> DEFINE n == Put(js, <<"reflow", p>>)
    <3>1. /\ n \in [Job -> Nat]
          /\ \A j \in Job : n[j] = IF j = <<"reflow", p>> THEN js[j] + 1 ELSE js[j]
      BY <1>1, <1>t, PutIs
    <3>2. jobs' = n
      BY <2>2
    <3> HIDE DEF n
    <3>3. js[<<"reflow", p>>] \in Nat
      BY <1>1, <1>t
    <3>4. n[<<"reflow", p>>] = js[<<"reflow", p>>] + 1
      BY <3>1, <1>1
    <3> QED
      BY <3>1, <3>2, <3>3, <3>4
  <2> QED
    BY <1>2, <2>1, <2>2
<1>4. \A j \in Job : j[1] # "reflow" => jobs'[j] = js[j]
  BY <1>3
<1>5. ASSUME NEW q \in Doc, Has(jobs', "reflow", q)
      PROVE  q \in AliveIn(js, target, shown)
  <2>1. CASE q = p
    BY <2>1
  <2>2. CASE q # p
    <3>1. <<"reflow", q>> \in Job /\ DocArg(<<"reflow", q>>) = q
      BY DocJob
    <3>2. js[<<"reflow", q>>] > 0
      BY <3>1, <2>2, <1>3, <1>5 DEF Has
    <3>3. <<"reflow", q>>[1] # "load"
      OBVIOUS
    <3> QED
      BY <3>1, <3>2, <3>3 DEF Sound, Works
  <2> QED
    BY <2>1, <2>2
<1>6. \A k \in {"load", "parse"}, q \in Doc : jobs'[<<k, q>>] = js[<<k, q>>]
  BY <1>4, DocJob
<1>7. AliveIn(jobs', target, shown) = AliveIn(js, target, shown)
  BY <1>6 DEF AliveIn, Has
<1>8. Layouts(jobs', target, frames, shown, reflow', owed', stopped')
  <2>1. p \in frames /\ Has(jobs', "reflow", p)
    BY <1>3 DEF Sound, Works, Has
  <2>2. ASSUME NEW q \in owed'
        PROVE  /\ target[q] # Nil /\ ~Has(jobs', "load", q)
               /\ q \in AliveIn(jobs', target, shown) => reflow' = q \/ q \in stopped'
    <3>1. CASE q = p
      BY <3>1, <1>2, <1>6 DEF Sound, Loads, Has, AliveIn
    <3>2. CASE q # p
      <4>1. q \in owed /\ q # reflow /\ q \in Doc
        BY <1>2, <1>t, <3>2
      <4>2. ~Has(jobs', "load", q)
        BY <4>1, <1>0, <1>6 DEF Layouts, Has
      <4> QED
        BY <4>1, <4>2, <1>0, <1>2, <1>7 DEF Layouts
    <3> QED
      BY <3>1, <3>2
  <2> QED
    BY <2>1, <2>2, <1>2 DEF Layouts
<1>9. reflow' \in Doc \cup {Nil} /\ owed' \in SUBSET Doc /\ stopped' \in SUBSET Doc
  BY <1>2, <1>t
<1> QED
  BY <1>3, <1>4, <1>5, <1>8, <1>9, LayoutsSound

-----------------------------------------------------------------------------
(***************************************************************************)
(* The jobs of images, one by one.                                         *)
(***************************************************************************)

\* An image has a job, so its document is there.
LEMMA ImageWorks ==
  ASSUME IInv, NEW k \in {"image", "imgldr"}, NEW i \in Img, jobs[<<k, i>>] > 0
  PROVE  DocOf[i] \in AliveIn(jobs, target, shown) /\ img[i] \in {"empty", "data"}
<1>1. <<k, i>> \in Job /\ DocArg(<<k, i>>) = DocOf[i]
  BY ImgJob
<1>2. <<k, i>>[1] # "load" /\ <<k, i>>[1] \in {"image", "imgldr"} /\ <<k, i>>[2] = i
  OBVIOUS
<1> QED
  BY <1>1, <1>2 DEF IInv, Sound, Works

\* The job of an image is called, and perhaps another one registered for it.
LEMMA ImageCalled ==
  ASSUME IInv, NEW k \in {"image", "imgldr"}, NEW i \in Img, Called(<<k, i>>),
         NEW js \in {Taken(<<k, i>>), Put(Taken(<<k, i>>), <<"imgldr", i>>)},
         NEW im \in {img, [img EXCEPT ![i] = "data"]}
  PROVE  /\ Sound(js, target, frames, shown, im, wait, reflow, owed, stopped)
         /\ DocOf[i] \in Doc
         /\ DocOf[i] \in AliveIn(js, target, shown)
<1> DEFINE n == Taken(<<k, i>>)
<1>1. <<k, i>> \in Job /\ DocOf[i] \in Doc
  BY ImgJob
<1>2. DocOf[i] \in AliveIn(jobs, target, shown) /\ img[i] \in {"empty", "data"}
  BY ImageWorks DEF Called
<1>3. /\ n \in [Job -> Nat]
      /\ \A j \in Job : n[j] = IF j = <<k, i>> THEN jobs[j] - 1 ELSE jobs[j]
  BY <1>1, TypedNow, TakenIs
<1>4. js = n \/ js = Put(n, <<"imgldr", i>>)
  OBVIOUS
<1> HIDE DEF n
<1>5. /\ js \in [Job -> Nat]
      /\ \A j \in Job : j # <<k, i>> /\ j # <<"imgldr", i>> => js[j] = jobs[j]
  <2>1. <<"imgldr", i>> \in Job
    BY ImgJob
  <2>2. /\ Put(n, <<"imgldr", i>>) \in [Job -> Nat]
        /\ \A j \in Job : Put(n, <<"imgldr", i>>)[j] =
                            IF j = <<"imgldr", i>> THEN n[j] + 1 ELSE n[j]
    BY <2>1, <1>3, PutIs
  <2> QED
    BY <2>2, <1>3, <1>4
<1>6. \A h \in {"load", "parse", "style", "reflow"}, q \in Doc :
        js[<<h, q>>] = jobs[<<h, q>>]
  <2> TAKE h \in {"load", "parse", "style", "reflow"}, q \in Doc
  <2>1. <<h, q>> # <<k, i>> /\ <<h, q>> # <<"imgldr", i>>
    OBVIOUS
  <2>2. <<h, q>> \in Job
    BY DocJob
  <2> QED
    BY <2>1, <2>2, <1>5
<1>7. im \in [Img -> {"none", "empty", "data", "gone"}]
      /\ \A h \in Img : h # i => im[h] = img[h]
  BY TypedNow
<1>8. im[i] \in {"empty", "data"}
  BY <1>2, TypedNow
<1>9. \A h \in {"image", "imgldr"}, g \in Img : js[<<h, g>>] > 0 =>
        DocOf[g] \in AliveIn(jobs, target, shown) /\ im[g] \in {"empty", "data"}
  <2> SUFFICES ASSUME NEW h \in {"image", "imgldr"}, NEW g \in Img, js[<<h, g>>] > 0
               PROVE  DocOf[g] \in AliveIn(jobs, target, shown)
                      /\ im[g] \in {"empty", "data"}
    OBVIOUS
  <2>1. CASE g = i
    BY <2>1, <1>2, <1>8
  <2>2. CASE g # i
    <3>1. <<h, g>> \in Job
      BY ImgJob
    <3>2. js[<<h, g>>] = jobs[<<h, g>>]
      BY <3>1, <2>2, <1>5
    <3> QED
      BY <3>2, <2>2, <1>7, ImageWorks
  <2> QED
    BY <2>1, <2>2
<1>10. AliveIn(js, target, shown) = AliveIn(jobs, target, shown)
  BY <1>6 DEF AliveIn, Has
<1>11. Sound(jobs, target, frames, shown, img, wait, reflow, owed, stopped)
  BY DEF IInv
<1>a. \A h \in Img : im[h] # "none" => target[DocOf[h]] # Nil
  BY <1>2, <1>7 DEF IInv, Sound, Works
<1>12. Sound(js, target, frames, shown, im, wait, reflow, owed, stopped)
  BY <1>5, <1>6, <1>7, <1>9, <1>11, <1>a, ImagesSound
<1> QED
  BY <1>1, <1>2, <1>10, <1>12

LEMMA ImageDoneStep ==
  ASSUME IInv, NEW k \in {"image", "imgldr"}, NEW i \in Img, Called(<<k, i>>),
         NEW ends, ImageDone(i, Taken(<<k, i>>), ends)
  PROVE  IInv'
<1>1. UNCHANGED <<target, frames, shown, wait>>
  BY DEF ImageDone
<1>2. img' \in {img, [img EXCEPT ![i] = "data"]}
  BY DEF ImageDone
<1> DEFINE n == Taken(<<k, i>>)
           p == DocOf[i]
<1>3. /\ Sound(n, target, frames, shown, img', wait, reflow, owed, stopped)
      /\ p \in Doc /\ p \in AliveIn(n, target, shown)
  BY <1>2, ImageCalled
<1>4. (jobs' = n /\ UNCHANGED <<reflow, owed, stopped>>) \/ Defer(p, n)
  BY DEF ImageDone
<1> HIDE DEF n, p
<1>5. Sound(jobs', target, frames, shown, img', wait, reflow', owed', stopped')
  BY <1>3, <1>4, DeferSound
<1> QED
  BY <1>1, <1>5 DEF IInv

LEMMA ImageJobStep ==
  ASSUME IInv, NEW i \in Img, ImageJob(i)
  PROVE  IInv'
BY ImageDoneStep DEF ImageJob

LEMMA ImageLdrStep ==
  ASSUME IInv, NEW i \in Img, ImageLdr(i)
  PROVE  IInv'
BY ImageDoneStep DEF ImageLdr

LEMMA ImageFetchStep ==
  ASSUME IInv, NEW i \in Img, ImageFetch(i)
  PROVE  IInv'
<1>1. /\ Called(<<"image", i>>)
      /\ jobs' = Put(Taken(<<"image", i>>), <<"imgldr", i>>)
      /\ UNCHANGED <<target, frames, shown, img, wait, reflow, owed, stopped>>
  BY DEF ImageFetch
<1>2. Sound(jobs', target, frames, shown, img, wait, reflow, owed, stopped)
  BY <1>1, ImageCalled
<1> QED
  BY <1>1, <1>2 DEF IInv

LEMMA ImageBadStep ==
  ASSUME IInv, NEW i \in Img, ImageBad(i)
  PROVE  IInv'
<1>1. /\ Called(<<"image", i>>)
      /\ jobs' = Taken(<<"image", i>>)
      /\ UNCHANGED <<target, frames, shown, img, wait, reflow, owed, stopped>>
  BY DEF ImageBad
<1>2. Sound(jobs', target, frames, shown, img, wait, reflow, owed, stopped)
  BY <1>1, ImageCalled
<1> QED
  BY <1>1, <1>2 DEF IInv

LEMMA ImageLdrFailsStep ==
  ASSUME IInv, NEW i \in Img, ImageLdrFails(i)
  PROVE  IInv'
<1>1. /\ Called(<<"imgldr", i>>)
      /\ jobs' = Taken(<<"imgldr", i>>)
      /\ UNCHANGED <<target, frames, shown, img, wait, reflow, owed, stopped>>
  BY DEF ImageLdrFails
<1>2. Sound(jobs', target, frames, shown, img, wait, reflow, owed, stopped)
  BY <1>1, ImageCalled
<1> QED
  BY <1>1, <1>2 DEF IInv

LEMMA ReloadStep ==
  ASSUME IInv, NEW i \in Img, Reload(i)
  PROVE  IInv'
<1>1. /\ img[i] \in {"empty", "data"}
      /\ shown[target[DocOf[i]]] = DocOf[i]
      /\ img' = [img EXCEPT ![i] = "empty"]
      /\ jobs' = Put(jobs, <<"image", i>>)
      /\ UNCHANGED <<target, frames, shown, wait, reflow, owed, stopped>>
  BY DEF Reload
<1>2. <<"image", i>> \in Job /\ DocOf[i] \in Doc
  BY ImgJob
<1>3. /\ jobs' \in [Job -> Nat]
      /\ \A j \in Job : j # <<"image", i>> => jobs'[j] = jobs[j]
  BY <1>1, <1>2, TypedNow, PutIs
<1>4. \A h \in {"load", "parse", "style", "reflow"}, q \in Doc :
        jobs'[<<h, q>>] = jobs[<<h, q>>]
  <2> TAKE h \in {"load", "parse", "style", "reflow"}, q \in Doc
  <2>1. <<h, q>> # <<"image", i>>
    OBVIOUS
  <2>2. <<h, q>> \in Job
    BY DocJob
  <2> QED
    BY <2>1, <2>2, <1>3
<1>5. img' \in [Img -> {"none", "empty", "data", "gone"}]
      /\ img'[i] = "empty" /\ \A h \in Img : h # i => img'[h] = img[h]
  BY <1>1, TypedNow
<1>a. \A h \in Img : img'[h] # "none" => target[DocOf[h]] # Nil
  BY <1>1, <1>5 DEF IInv, Sound, Works
<1>6. \A h \in {"image", "imgldr"}, g \in Img : jobs'[<<h, g>>] > 0 =>
        DocOf[g] \in AliveIn(jobs, target, shown) /\ img'[g] \in {"empty", "data"}
  <2> SUFFICES ASSUME NEW h \in {"image", "imgldr"}, NEW g \in Img,
                      jobs'[<<h, g>>] > 0
               PROVE  DocOf[g] \in AliveIn(jobs, target, shown)
                      /\ img'[g] \in {"empty", "data"}
    OBVIOUS
  <2>1. CASE g = i
    BY <2>1, <1>1, <1>2, <1>5, <1>a DEF AliveIn
  <2>2. CASE g # i
    <3>1. <<h, g>> \in Job
      BY ImgJob
    <3>2. jobs'[<<h, g>>] = jobs[<<h, g>>]
      BY <3>1, <2>2, <1>3
    <3> QED
      BY <3>2, <2>2, <1>5, ImageWorks
  <2> QED
    BY <2>1, <2>2
<1>7. Sound(jobs, target, frames, shown, img, wait, reflow, owed, stopped)
  BY DEF IInv
<1>8. Sound(jobs', target, frames, shown, img', wait, reflow, owed, stopped)
  BY <1>3, <1>4, <1>5, <1>6, <1>7, <1>a, ImagesSound
<1> QED
  BY <1>1, <1>8 DEF IInv

-----------------------------------------------------------------------------
(***************************************************************************)
(* reflow_job().                                                           *)
(***************************************************************************)

\* The job of a layout is called; o2 is what is still owed after that.
LEMMA ReflowCalled ==
  ASSUME IInv, NEW p \in Doc, Called(<<"reflow", p>>),
         jobs' = Taken(<<"reflow", p>>),
         UNCHANGED <<target, frames, shown, img, wait>>,
         \/ reflow # p /\ UNCHANGED <<reflow, owed, stopped>>
         \/ reflow = p /\ reflow' = Nil /\ owed' = owed \ {p} /\ stopped' = stopped \ {p}
  PROVE  IInv'
<1>t. /\ reflow \in Doc \cup {Nil}
      /\ owed \in SUBSET Doc /\ stopped \in SUBSET Doc
  BY TypedNow
<1>1. <<"reflow", p>> \in Job
  BY DocJob
<1>2. /\ jobs' \in [Job -> Nat]
      /\ \A j \in Job : j # <<"reflow", p>> => jobs'[j] = jobs[j]
  BY <1>1, TypedNow, TakenIs
<1>3. \A j \in Job : j[1] # "reflow" => jobs'[j] = jobs[j]
  BY <1>2
<1>4. ASSUME NEW q \in Doc, Has(jobs', "reflow", q)
      PROVE  q \in AliveIn(jobs, target, shown)
  <2>1. <<"reflow", q>> \in Job /\ DocArg(<<"reflow", q>>) = q
    BY DocJob
  <2>2. jobs[<<"reflow", q>>] > 0
    BY <2>1, <1>2, <1>4 DEF Has, Called
  <2>3. <<"reflow", q>>[1] # "load"
    OBVIOUS
  <2> QED
    BY <2>1, <2>2, <2>3 DEF IInv, Sound, Works
<1>5. \A k \in {"load", "parse"}, q \in Doc : jobs'[<<k, q>>] = jobs[<<k, q>>]
  BY <1>3, DocJob
<1>6. AliveIn(jobs', target, shown) = AliveIn(jobs, target, shown)
  BY <1>5 DEF AliveIn, Has
<1>7. Layouts(jobs', target, frames, shown, reflow', owed', stopped')
  <2>1. Layouts(jobs, target, frames, shown, reflow, owed, stopped)
    BY DEF IInv, Sound
  <2>2. \A q \in owed : ~Has(jobs', "load", q)
    BY <2>1, <1>5, <1>t DEF Layouts, Has
  <2>3. CASE reflow # p /\ UNCHANGED <<reflow, owed, stopped>>
    <3>1. ASSUME reflow # Nil
          PROVE  Has(jobs', "reflow", reflow)
      <4>1. <<"reflow", reflow>> \in Job
        BY <3>1, <1>t, DocJob
      <4> QED
        BY <4>1, <3>1, <2>1, <2>3, <1>2 DEF Layouts, Has
    <3> QED
      BY <3>1, <2>1, <2>2, <2>3, <1>6 DEF Layouts
  <2>4. CASE /\ reflow = p /\ reflow' = Nil
             /\ owed' = owed \ {p} /\ stopped' = stopped \ {p}
    BY <2>1, <2>2, <2>4, <1>6 DEF Layouts
  <2> QED
    BY <2>3, <2>4
<1>8. reflow' \in Doc \cup {Nil} /\ owed' \in SUBSET Doc /\ stopped' \in SUBSET Doc
  BY <1>t
<1>9. Sound(jobs, target, frames, shown, img, wait, reflow, owed, stopped)
  BY DEF IInv
<1>10. Sound(jobs', target, frames, shown, img, wait, reflow', owed', stopped')
  BY <1>2, <1>3, <1>4, <1>7, <1>8, <1>9, LayoutsSound
<1> QED
  BY <1>10 DEF IInv

LEMMA ReflowStaleStep ==
  ASSUME IInv, NEW p \in Doc, ReflowStale(p)
  PROVE  IInv'
BY ReflowCalled DEF ReflowStale

LEMMA ReflowRunStep ==
  ASSUME IInv, NEW p \in Doc, ReflowRun(p)
  PROVE  IInv'
BY ReflowCalled DEF ReflowRun

-----------------------------------------------------------------------------
(***************************************************************************)
(* parse_html().                                                           *)
(***************************************************************************)

\* A call of the parser has made the images s.
LEMMA ScheduledSound ==
  ASSUME IInv, NEW p \in Doc, Parses(p), NEW s \in Found(p)
  PROVE  /\ Sound(Scheduled(s), target, frames, shown, Made(s), wait, reflow,
                  owed, stopped)
         /\ \A k \in {"load", "parse", "style", "reflow"}, q \in Doc :
              Scheduled(s)[<<k, q>>] = jobs[<<k, q>>]
<1> DEFINE n == Scheduled(s)
           im == Made(s)
<1>t. jobs \in [Job -> Nat] /\ img \in [Img -> {"none", "empty", "data", "gone"}]
  BY TypedNow
<1>1. /\ DOMAIN s \subseteq Img
      /\ \A i \in DOMAIN s : /\ DocOf[i] = p /\ img[i] = "none"
                             /\ s[i] \in {"none", "data", "job", "empty"}
  BY DEF Found, Unborn
<1>2. \A i \in Due(s) : i \in DOMAIN s /\ s[i] = "job"
  BY DEF Due
<1>3. /\ n \in [Job -> Nat]
      /\ \A j \in Job : \/ n[j] = jobs[j]
                        \/ \E i \in Due(s) : j = <<"image", i>>
  BY <1>t DEF Scheduled
<1>4. /\ im \in [Img -> {"none", "empty", "data", "gone"}]
      /\ \A i \in Img : i \notin DOMAIN s => im[i] = img[i]
      /\ \A i \in Due(s) : im[i] = "empty"
  BY <1>t, <1>1, <1>2 DEF Made
<1> HIDE DEF n, im
<1>5. p \in AliveIn(jobs, target, shown) /\ target[p] # Nil
  BY DocJob DEF AliveIn, IInv, Sound, Aimed, Parses, Called, Has
<1>6. \A k \in {"load", "parse", "style", "reflow"}, q \in Doc :
        n[<<k, q>>] = jobs[<<k, q>>]
  <2> TAKE k \in {"load", "parse", "style", "reflow"}, q \in Doc
  <2>1. \A i \in Due(s) : <<k, q>> # <<"image", i>>
    OBVIOUS
  <2>2. <<k, q>> \in Job
    BY DocJob
  <2> QED
    BY <2>1, <2>2, <1>3
<1>7. ASSUME NEW k \in {"image", "imgldr"}, NEW i \in Img, n[<<k, i>>] > 0
      PROVE  DocOf[i] \in AliveIn(jobs, target, shown) /\ im[i] \in {"empty", "data"}
  <2>1. <<k, i>> \in Job
    BY ImgJob
  <2>2. CASE i \in Due(s)
    BY <2>2, <1>1, <1>2, <1>4, <1>5
  <2>3. CASE i \notin Due(s)
    <3>1. \A g \in Due(s) : <<k, i>> # <<"image", g>>
      BY <2>3
    <3>2. jobs[<<k, i>>] > 0
      BY <3>1, <2>1, <1>3, <1>7
    <3>3. DocOf[i] \in AliveIn(jobs, target, shown) /\ img[i] \in {"empty", "data"}
      BY <3>2, ImageWorks
    <3>4. i \notin DOMAIN s
      BY <3>3, <1>1
    <3> QED
      BY <3>3, <3>4, <1>4
  <2> QED
    BY <2>2, <2>3
<1>8. \A i \in Img : im[i] # "none" => target[DocOf[i]] # Nil
  BY <1>1, <1>4, <1>5 DEF IInv, Sound, Works
<1>9. Sound(jobs, target, frames, shown, img, wait, reflow, owed, stopped)
  BY DEF IInv
<1>10. Sound(n, target, frames, shown, im, wait, reflow, owed, stopped)
  BY <1>3, <1>4, <1>6, <1>7, <1>8, <1>9, ImagesSound
<1> QED
  BY <1>6, <1>10 DEF n, im

LEMMA ParseMoreStep ==
  ASSUME IInv, NEW p \in Doc, ParseMore(p)
  PROVE  IInv'
<1>1. /\ Parses(p)
      /\ UNCHANGED <<target, frames, shown, wait, reflow, owed, stopped>>
  BY DEF ParseMore
<1>2. PICK s \in Found(p) : img' = Made(s) /\ jobs' = Scheduled(s)
  BY DEF ParseMore
<1>3. Sound(Scheduled(s), target, frames, shown, Made(s), wait, reflow, owed, stopped)
  BY <1>1, ScheduledSound
<1> QED
  BY <1>1, <1>2, <1>3 DEF IInv

\* The parser of p waits, for a style sheet or in vain.
Waiting(js, p, n) ==
  n = Put(js, <<"style", p>>) \/ (n = js /\ "bad" \in Sheets)

LEMMA WaitSound ==
  ASSUME NEW js, NEW tg, NEW fr, NEW sh, NEW im, NEW wt, NEW rf, NEW ow, NEW st,
         Sound(js, tg, fr, sh, im, wt, rf, ow, st),
         NEW p \in Doc, Has(js, "parse", p), p \notin wt,
         NEW n, Waiting(js, p, n)
  PROVE  Sound(n, tg, fr, sh, im, wt \cup {p}, rf, ow, st)
<1>t. /\ Typed(js, tg, fr, sh, im, wt, rf, ow, st)
      /\ js \in [Job -> Nat] /\ wt \in SUBSET Doc
      /\ rf \in Doc \cup {Nil} /\ ow \in SUBSET Doc
  BY DEF Sound, Typed
<1>0. /\ <<"style", p>> \in Job /\ DocArg(<<"style", p>>) = p
      /\ <<"parse", p>> \in Job /\ DocArg(<<"parse", p>>) = p
  BY DocJob
<1>1. /\ n \in [Job -> Nat]
      /\ \A j \in Job : j # <<"style", p>> => n[j] = js[j]
  BY <1>t, <1>0, PutIs DEF Waiting
<1>2. \A k \in {"load", "parse", "reflow"}, q \in Doc : n[<<k, q>>] = js[<<k, q>>]
  <2> TAKE k \in {"load", "parse", "reflow"}, q \in Doc
  <2>1. <<k, q>> \in Job
    BY DocJob
  <2>2. <<k, q>> # <<"style", p>>
    OBVIOUS
  <2> QED
    BY <2>1, <2>2, <1>1
<1>3. \A q \in Doc : q # p => n[<<"style", q>>] = js[<<"style", q>>]
  <2> TAKE q \in Doc
  <2>1. <<"style", q>> \in Job
    BY DocJob
  <2> QED
    BY <2>1, <1>1
<1>4. n[<<"style", p>>] \in {0, 1} /\ ("bad" \notin Sheets => n[<<"style", p>>] = 1)
  <2>1. js[<<"style", p>>] = 0
    <3>1. ~Has(js, "style", p)
      BY DEF Sound, Parsers
    <3> QED
      BY <3>1, <1>t, <1>0 DEF Has
  <2>2. Put(js, <<"style", p>>)[<<"style", p>>] = js[<<"style", p>>] + 1
    BY <1>t, <1>0, PutIs
  <2> QED
    BY <2>1, <2>2 DEF Waiting
<1>5. AliveIn(n, tg, sh) = AliveIn(js, tg, sh)
  BY <1>2 DEF AliveIn, Has
<1>6. p \in AliveIn(js, tg, sh) /\ tg[p] # Nil
  BY <1>0 DEF AliveIn, Sound, Aimed, Has
<1>7. ASSUME NEW j \in Job, n[j] > 0
      PROVE  /\ tg[DocArg(j)] # Nil
             /\ j[1] # "load" => DocArg(j) \in AliveIn(js, tg, sh)
             /\ j[1] \in {"image", "imgldr"} => im[j[2]] \in {"empty", "data"}
  <2>1. CASE j = <<"style", p>>
    BY <2>1, <1>0, <1>6
  <2>2. CASE j # <<"style", p>>
    BY <2>2, <1>1, <1>7 DEF Sound, Works, Aimed
  <2> QED
    BY <2>1, <2>2
<1>8. Typed(n, tg, fr, sh, im, wt \cup {p}, rf, ow, st)
  BY <1>t, <1>1 DEF Typed
<1>9. Aimed(n, tg, sh)
  BY <1>7 DEF Sound, Aimed
<1>10. Loads(n, tg, sh)
  BY <1>2, <1>5 DEF Sound, Loads, Has
<1>11. Parsers(n, tg, sh, wt \cup {p})
  <2>1. Parsers(js, tg, sh, wt)
    BY DEF Sound
  <2>2. \A q \in Doc : Has(n, "parse", q) <=> Has(js, "parse", q)
    BY <1>2 DEF Has
  <2>3. \A q \in Doc : Has(n, "parse", q) => n[<<"parse", q>>] = 1 /\ sh[tg[q]] = Nil
    BY <2>1, <2>2, <1>2 DEF Parsers
  <2>4. \A q, r \in Doc : Has(n, "parse", q) /\ Has(n, "parse", r) /\ q # r =>
          tg[q] # tg[r]
    BY <2>1, <2>2 DEF Parsers
  <2>5. ASSUME NEW q \in Doc, Has(n, "style", q)
        PROVE  n[<<"style", q>>] = 1 /\ q \in wt \cup {p}
    <3>1. CASE q = p
      BY <3>1, <2>5, <1>4 DEF Has
    <3>2. CASE q # p
      BY <3>2, <2>1, <2>5, <1>3 DEF Parsers, Has
    <3> QED
      BY <3>1, <3>2
  <2>6. ASSUME NEW q \in wt \cup {p}
        PROVE  Has(n, "parse", q) /\ ("bad" \notin Sheets => Has(n, "style", q))
    <3>1. CASE q = p
      BY <3>1, <2>2, <1>4 DEF Has
    <3>2. CASE q # p
      BY <3>2, <2>1, <2>2, <2>6, <1>3, <1>t DEF Parsers, Has
    <3> QED
      BY <3>1, <3>2
  <2> QED
    BY <2>3, <2>4, <2>5, <2>6 DEF Parsers
<1>12. Works(n, tg, fr, sh, im)
  BY <1>5, <1>7 DEF Sound, Works
<1>13. Layouts(n, tg, fr, sh, rf, ow, st)
  <2>1. Layouts(js, tg, fr, sh, rf, ow, st)
    BY DEF Sound
  <2>2. rf # Nil => Has(n, "reflow", rf)
    BY <2>1, <1>2, <1>t DEF Layouts, Has
  <2>3. \A q \in ow : ~Has(n, "load", q)
    BY <2>1, <1>2, <1>t DEF Layouts, Has
  <2> QED
    BY <2>1, <2>2, <2>3, <1>5 DEF Layouts
<1> QED
  BY <1>8, <1>9, <1>10, <1>11, <1>12, <1>13 DEF Sound

LEMMA ParseSheetStep ==
  ASSUME IInv, NEW p \in Doc, ParseSheet(p)
  PROVE  IInv'
<1>1. /\ Parses(p) /\ wait' = wait \cup {p}
      /\ UNCHANGED <<target, frames, shown, reflow, owed, stopped>>
  BY DEF ParseSheet
<1>2. PICK s \in Found(p), sheet \in Sheets :
        /\ img' = Made(s)
        /\ IF sheet = "net" THEN jobs' = Put(Scheduled(s), <<"style", p>>)
                            ELSE jobs' = Scheduled(s)
  BY DEF ParseSheet
<1>3. /\ Sound(Scheduled(s), target, frames, shown, Made(s), wait, reflow, owed,
               stopped)
      /\ \A k \in {"load", "parse", "style", "reflow"}, q \in Doc :
           Scheduled(s)[<<k, q>>] = jobs[<<k, q>>]
  BY <1>1, ScheduledSound
<1>4. Has(Scheduled(s), "parse", p) /\ p \notin wait
  BY <1>1, <1>3 DEF Parses, Called, Has
<1>5. Waiting(Scheduled(s), p, jobs')
  <2> DEFINE n == Scheduled(s)
             m == Put(n, <<"style", p>>)
  <2>1. jobs' = IF sheet = "net" THEN m ELSE n
    BY <1>2
  <2>2. sheet # "net" => "bad" \in Sheets
    BY PageAssumption
  <2> HIDE DEF n, m
  <2>3. jobs' = m \/ (jobs' = n /\ "bad" \in Sheets)
    BY <2>1, <2>2
  <2> QED
    BY <2>3 DEF Waiting, n, m
<1>6. Sound(jobs', target, frames, shown, Made(s), wait \cup {p}, reflow, owed,
            stopped)
  BY <1>3, <1>4, <1>5, WaitSound
<1> QED
  BY <1>1, <1>2, <1>6 DEF IInv

LEMMA ResumeJobStep ==
  ASSUME IInv, NEW p \in Doc, ResumeJob(p)
  PROVE  IInv'
<1> DEFINE n == Taken(<<"style", p>>)
           w == wait \ {p}
<1>0. <<"style", p>> \in Job
  BY DocJob
<1>t. /\ jobs \in [Job -> Nat] /\ wait \in SUBSET Doc
      /\ reflow \in Doc \cup {Nil} /\ owed \in SUBSET Doc
  BY TypedNow
<1>1. /\ Called(<<"style", p>>)
      /\ jobs' = n /\ wait' = w
      /\ UNCHANGED <<target, frames, shown, img, reflow, owed, stopped>>
  BY DEF ResumeJob
<1>2. /\ n \in [Job -> Nat]
      /\ \A j \in Job : n[j] = IF j = <<"style", p>> THEN jobs[j] - 1 ELSE jobs[j]
  BY <1>0, <1>1, <1>t, TakenIs
<1> HIDE DEF n
<1>3. \A k \in {"load", "parse", "reflow"}, q \in Doc : n[<<k, q>>] = jobs[<<k, q>>]
  <2> TAKE k \in {"load", "parse", "reflow"}, q \in Doc
  <2>1. <<k, q>> \in Job
    BY DocJob
  <2>2. <<k, q>> # <<"style", p>>
    OBVIOUS
  <2> QED
    BY <2>1, <2>2, <1>2
<1>4. \A q \in Doc : n[<<"style", q>>] = IF q = p THEN 0 ELSE jobs[<<"style", q>>]
  <2> TAKE q \in Doc
  <2>1. jobs[<<"style", p>>] = 1
    BY <1>1 DEF IInv, Sound, Parsers, Has, Called
  <2>2. <<"style", q>> \in Job
    BY DocJob
  <2>3. q # p => <<"style", q>> # <<"style", p>>
    OBVIOUS
  <2> QED
    BY <2>1, <2>2, <2>3, <1>2
<1>5. \A j \in Job : n[j] > 0 => jobs[j] > 0
  BY <1>2, <1>t
<1>6. AliveIn(n, target, shown) = AliveIn(jobs, target, shown)
  BY <1>3 DEF AliveIn, Has
<1>7. Typed(n, target, frames, shown, img, w, reflow, owed, stopped)
  BY <1>2 DEF IInv, Sound, Typed
<1>8. Aimed(n, target, shown)
  BY <1>5 DEF IInv, Sound, Aimed
<1>9. Loads(n, target, shown)
  BY <1>3, <1>6 DEF IInv, Sound, Loads, Has
<1>10. Parsers(n, target, shown, w)
  <2>1. Parsers(jobs, target, shown, wait)
    BY DEF IInv, Sound
  <2>2. \A q \in Doc : n[<<"parse", q>>] = jobs[<<"parse", q>>]
                       /\ (Has(n, "parse", q) <=> Has(jobs, "parse", q))
    BY <1>3 DEF Has
  <2>3. \A q \in Doc : q # p =>
          /\ n[<<"style", q>>] = jobs[<<"style", q>>]
          /\ (Has(n, "style", q) <=> Has(jobs, "style", q))
    BY <1>4 DEF Has
  <2>4. ~Has(n, "style", p)
    BY <1>4 DEF Has
  <2> QED
    BY <2>1, <2>2, <2>3, <2>4, <1>t DEF Parsers
<1>11. Works(n, target, frames, shown, img)
  BY <1>5, <1>6 DEF IInv, Sound, Works
<1>12. Layouts(n, target, frames, shown, reflow, owed, stopped)
  <2>1. Layouts(jobs, target, frames, shown, reflow, owed, stopped)
    BY DEF IInv, Sound
  <2>2. reflow # Nil => Has(n, "reflow", reflow)
    BY <2>1, <1>3, <1>t DEF Layouts, Has
  <2>3. \A q \in owed : ~Has(n, "load", q)
    BY <2>1, <1>3, <1>t DEF Layouts, Has
  <2> QED
    BY <2>1, <2>2, <2>3, <1>6 DEF Layouts
<1> QED
  BY <1>1, <1>7, <1>8, <1>9, <1>10, <1>11, <1>12 DEF IInv, Sound

\* The parser of p ends, and shows p.
LEMMA ShownSound ==
  ASSUME NEW js, NEW tg, NEW fr, NEW sh, NEW im, NEW wt, NEW rf, NEW ow, NEW st,
         Sound(js, tg, fr, sh, im, wt, rf, ow, st),
         NEW p \in Doc, Has(js, "parse", p), p \notin wt
  PROVE  Sound([js EXCEPT ![<<"parse", p>>] = 0], tg, fr, [sh EXCEPT ![tg[p]] = p],
               im, wt, rf, ow \ {p}, st)
<1> DEFINE n == [js EXCEPT ![<<"parse", p>>] = 0]
           s2 == [sh EXCEPT ![tg[p]] = p]
<1>t. /\ Typed(js, tg, fr, sh, im, wt, rf, ow, st)
      /\ js \in [Job -> Nat] /\ wt \in SUBSET Doc
      /\ tg \in [Doc -> Cont \cup {Nil}]
      /\ sh \in [Cont -> Doc \cup {Nil}]
      /\ rf \in Doc \cup {Nil} /\ ow \in SUBSET Doc
  BY DEF Sound, Typed
<1>0. <<"parse", p>> \in Job /\ DocArg(<<"parse", p>>) = p
  BY DocJob
<1>1. /\ n \in [Job -> Nat]
      /\ \A j \in Job : n[j] = IF j = <<"parse", p>> THEN 0 ELSE js[j]
  BY <1>t, <1>0
<1>2. tg[p] \in Cont /\ p # Nil
  BY <1>0, <1>t, PageAssumption DEF Sound, Aimed, Has
<1>3. s2 \in [Cont -> Doc \cup {Nil}]
      /\ \A c \in Cont : s2[c] = IF c = tg[p] THEN p ELSE sh[c]
  BY <1>2, <1>t
<1> HIDE DEF n, s2
<1>4. \A k \in {"load", "style", "reflow"}, q \in Doc : n[<<k, q>>] = js[<<k, q>>]
  <2> TAKE k \in {"load", "style", "reflow"}, q \in Doc
  <2>1. <<k, q>> \in Job
    BY DocJob
  <2>2. <<k, q>> # <<"parse", p>>
    OBVIOUS
  <2> QED
    BY <2>1, <2>2, <1>1
<1>5. \A q \in Doc : n[<<"parse", q>>] = IF q = p THEN 0 ELSE js[<<"parse", q>>]
  <2> TAKE q \in Doc
  <2>1. <<"parse", q>> \in Job
    BY DocJob
  <2>2. q # p => <<"parse", q>> # <<"parse", p>>
    OBVIOUS
  <2> QED
    BY <2>1, <2>2, <1>1
<1>6. \A j \in Job : n[j] > 0 => js[j] > 0
  BY <1>1
<1>7. /\ sh[tg[p]] = Nil
      /\ \A q \in Doc : Has(js, "parse", q) /\ q # p => tg[q] # tg[p]
  BY DEF Sound, Parsers
<1>8. AliveIn(n, tg, s2) = AliveIn(js, tg, sh)
  <2>1. ASSUME NEW q \in Doc
        PROVE  q \in AliveIn(n, tg, s2) <=> q \in AliveIn(js, tg, sh)
    <3>1. CASE q = p
      BY <3>1, <1>2, <1>3 DEF AliveIn
    <3>2. CASE q # p /\ tg[q] = tg[p]
      <4>1. q \notin AliveIn(js, tg, sh)
        BY <3>2, <1>7, <1>2, PageAssumption DEF AliveIn
      <4>2. q \notin AliveIn(n, tg, s2)
        BY <3>2, <1>2, <1>3, <1>5, <1>7 DEF AliveIn, Has
      <4> QED
        BY <4>1, <4>2
    <3>3. CASE q # p /\ tg[q] # tg[p]
      <4>1. tg[q] # Nil => s2[tg[q]] = sh[tg[q]]
        BY <3>3, <1>3, <1>t
      <4> QED
        BY <3>3, <4>1, <1>5 DEF AliveIn, Has
    <3> QED
      BY <3>1, <3>2, <3>3
  <2> QED
    BY <2>1 DEF AliveIn
<1>9. Typed(n, tg, fr, s2, im, wt, rf, ow \ {p}, st)
  BY <1>1, <1>3, <1>t DEF Typed
<1>10. Aimed(n, tg, s2)
  BY <1>6, <1>3 DEF Sound, Aimed
<1>11. Loads(n, tg, s2)
  BY <1>4, <1>8 DEF Sound, Loads, Has
<1>12. Parsers(n, tg, s2, wt)
  <2>1. Parsers(js, tg, sh, wt)
    BY DEF Sound
  <2>2. \A q \in Doc : q # p => /\ n[<<"parse", q>>] = js[<<"parse", q>>]
                                /\ (Has(n, "parse", q) <=> Has(js, "parse", q))
    BY <1>5 DEF Has
  <2>3. ~Has(n, "parse", p)
    BY <1>5 DEF Has
  <2>4. \A q \in Doc : /\ n[<<"style", q>>] = js[<<"style", q>>]
                       /\ (Has(n, "style", q) <=> Has(js, "style", q))
    BY <1>4 DEF Has
  <2>5. ASSUME NEW q \in Doc, Has(n, "parse", q)
        PROVE  n[<<"parse", q>>] = 1 /\ s2[tg[q]] = Nil
    <3>1. q # p /\ Has(js, "parse", q)
      BY <2>2, <2>3, <2>5
    <3>2. tg[q] # Nil /\ tg[q] # tg[p]
      <4>1. <<"parse", q>> \in Job /\ DocArg(<<"parse", q>>) = q
        BY DocJob
      <4> QED
        BY <4>1, <3>1, <1>7 DEF Sound, Aimed, Has
    <3> QED
      BY <3>1, <3>2, <2>1, <2>2, <1>3, <1>t DEF Parsers
  <2>6. \A q, r \in Doc : Has(n, "parse", q) /\ Has(n, "parse", r) /\ q # r =>
          tg[q] # tg[r]
    BY <2>1, <2>2, <2>3 DEF Parsers
  <2>7. \A q \in Doc : Has(n, "style", q) => n[<<"style", q>>] = 1 /\ q \in wt
    BY <2>1, <2>4 DEF Parsers
  <2>8. \A q \in wt : Has(n, "parse", q) /\ ("bad" \notin Sheets => Has(n, "style", q))
    BY <2>1, <2>2, <2>4, <1>t DEF Parsers
  <2> QED
    BY <2>5, <2>6, <2>7, <2>8 DEF Parsers
<1>13. Works(n, tg, fr, s2, im)
  BY <1>6, <1>8 DEF Sound, Works
<1>14. Layouts(n, tg, fr, s2, rf, ow \ {p}, st)
  <2>1. Layouts(js, tg, fr, sh, rf, ow, st)
    BY DEF Sound
  <2>2. rf # Nil => Has(n, "reflow", rf)
    BY <2>1, <1>4, <1>t DEF Layouts, Has
  <2>3. \A q \in ow : ~Has(n, "load", q)
    BY <2>1, <1>4, <1>t DEF Layouts, Has
  <2> QED
    BY <2>1, <2>2, <2>3, <1>8 DEF Layouts
<1> QED
  BY <1>9, <1>10, <1>11, <1>12, <1>13, <1>14 DEF Sound, n, s2

LEMMA ParseEndStep ==
  ASSUME IInv, NEW p \in Doc, ParseEnd(p)
  PROVE  IInv'
<1>1. /\ Parses(p)
      /\ shown' = [shown EXCEPT ![target[p]] = p]
      /\ owed' = owed \ {p}
      /\ UNCHANGED <<target, frames, wait, reflow, stopped>>
  BY DEF ParseEnd
<1>2. PICK s \in Found(p) :
        img' = Made(s) /\ jobs' = [Scheduled(s) EXCEPT ![<<"parse", p>>] = 0]
  BY DEF ParseEnd
<1>3. /\ Sound(Scheduled(s), target, frames, shown, Made(s), wait, reflow, owed,
               stopped)
      /\ \A k \in {"load", "parse", "style", "reflow"}, q \in Doc :
           Scheduled(s)[<<k, q>>] = jobs[<<k, q>>]
  BY <1>1, ScheduledSound
<1>4. Has(Scheduled(s), "parse", p) /\ p \notin wait
  BY <1>1, <1>3 DEF Parses, Called, Has
<1>5. Sound([Scheduled(s) EXCEPT ![<<"parse", p>>] = 0], target, frames,
            [shown EXCEPT ![target[p]] = p], Made(s), wait, reflow, owed \ {p},
            stopped)
  BY <1>3, <1>4, ShownSound
<1> QED
  BY <1>1, <1>2, <1>5 DEF IInv

-----------------------------------------------------------------------------
(***************************************************************************)
(* The user stops what goes on in a container.                             *)
(***************************************************************************)
LEMMA EscapeStep ==
  ASSUME IInv, NEW c \in Cont, Escape(c)
  PROVE  IInv'
<1> DEFINE parsed == ParsersFor(jobs, c)
           q == CHOOSE p \in parsed : TRUE
           n == Unscheduled(jobs, c)
<1>t. /\ jobs \in [Job -> Nat]
      /\ target \in [Doc -> Cont \cup {Nil}]
      /\ frames \in SUBSET Doc
      /\ shown \in [Cont -> Doc \cup {Nil}]
      /\ wait \in SUBSET Doc
      /\ reflow \in Doc \cup {Nil}
      /\ owed \in SUBSET Doc /\ stopped \in SUBSET Doc
  BY TypedNow
<1>0. \A j \in Job : j \in JobsFor(jobs, c) <=> jobs[j] > 0 /\ Hash(j) = c
  BY DEF JobsFor, Pending
<1>1. \A j \in Job : n[j] = IF target[DocArg(j)] = c THEN 0 ELSE jobs[j]
  BY <1>0, <1>t DEF Unscheduled, Hash
<1>2. n \in [Job -> Nat]
  BY <1>t DEF Unscheduled
<1>3. /\ parsed \subseteq Doc
      /\ \A p \in Doc : p \in parsed <=> Has(jobs, "parse", p) /\ target[p] = c
  BY <1>0, DocJob DEF ParsersFor, Has, Hash
<1>4. Forgotten(jobs, c) =
        IF reflow # Nil /\ Has(jobs, "reflow", reflow) /\ target[reflow] = c
        THEN Nil ELSE reflow
  BY <1>0, <1>t, DocJob DEF Forgotten, Has, Hash
<1>5. /\ jobs' = n
      /\ shown' = IF parsed = {} THEN shown ELSE [shown EXCEPT ![c] = q]
      /\ wait' = wait \ parsed
      /\ reflow' = Forgotten(jobs, c)
      /\ owed' = owed \ parsed
      /\ stopped' = IF Forgotten(jobs, c) = reflow THEN stopped
                    ELSE stopped \cup ({reflow} \ parsed)
      /\ UNCHANGED <<target, frames, img>>
  BY DEF Escape
<1>6. parsed # {} => q \in parsed
  OBVIOUS
<1> HIDE DEF parsed, q, n
<1>7. /\ shown' \in [Cont -> Doc \cup {Nil}]
      /\ \A d \in Cont : d # c => shown'[d] = shown[d]
      /\ parsed = {} => shown'[c] = shown[c]
      /\ parsed # {} => shown'[c] = q
  BY <1>3, <1>5, <1>6, <1>t
<1>8. c # Nil
  BY PageAssumption
<1>9. \A k \in {"load", "parse", "style", "reflow"}, p \in Doc :
        n[<<k, p>>] = IF target[p] = c THEN 0 ELSE jobs[<<k, p>>]
  BY <1>1, DocJob
<1>10. /\ Aimed(jobs, target, shown) /\ Loads(jobs, target, shown)
       /\ Parsers(jobs, target, shown, wait)
       /\ Works(jobs, target, frames, shown, img)
       /\ Layouts(jobs, target, frames, shown, reflow, owed, stopped)
  BY DEF IInv, Sound
<1>11. \A p \in Doc : target[p] # c =>
         (p \in AliveIn(n, target, shown') <=> p \in AliveIn(jobs, target, shown))
  <2> SUFFICES ASSUME NEW p \in Doc, target[p] # c
               PROVE  p \in AliveIn(n, target, shown')
                        <=> p \in AliveIn(jobs, target, shown)
    OBVIOUS
  <2>1. target[p] # Nil => shown'[target[p]] = shown[target[p]]
    BY <1>7, <1>t
  <2> QED
    BY <2>1, <1>9 DEF AliveIn, Has
<1>12. \A p \in Doc : target[p] = c /\ p \in AliveIn(n, target, shown') =>
         /\ shown'[c] = p
         /\ p \in AliveIn(jobs, target, shown)
         /\ parsed = {} \/ p \in parsed
  <2> SUFFICES ASSUME NEW p \in Doc, target[p] = c, p \in AliveIn(n, target, shown')
               PROVE  /\ shown'[c] = p
                      /\ p \in AliveIn(jobs, target, shown)
                      /\ parsed = {} \/ p \in parsed
    OBVIOUS
  <2>1. shown'[c] = p
    BY <1>9 DEF AliveIn, Has
  <2>2. CASE parsed = {}
    BY <2>1, <2>2, <1>7, <1>8 DEF AliveIn
  <2>3. CASE parsed # {}
    BY <2>1, <2>3, <1>3, <1>6, <1>7, <1>8 DEF AliveIn
  <2> QED
    BY <2>1, <2>2, <2>3
<1>13. \A j \in Job : n[j] > 0 => jobs[j] > 0 /\ target[DocArg(j)] # c
  BY <1>1, <1>t
<1>14. stopped' \in SUBSET Doc
  <2>1. Forgotten(jobs, c) # reflow => reflow \in Doc
    BY <1>4, <1>t
  <2> QED
    BY <2>1, <1>5, <1>t
<1>15. Typed(n, target, frames, shown', img, wait', reflow', owed', stopped')
  BY <1>2, <1>4, <1>5, <1>7, <1>14, <1>t DEF IInv, Sound, Typed
<1>16. Aimed(n, target, shown')
  <2>1. \A d \in Cont : shown'[d] # Nil => target[shown'[d]] = d
    BY <1>3, <1>6, <1>7, <1>10 DEF Aimed
  <2> QED
    BY <2>1, <1>10, <1>13 DEF Aimed
<1>17. Loads(n, target, shown')
  <2> SUFFICES ASSUME NEW p \in Doc, Has(n, "load", p)
               PROVE  n[<<"load", p>>] = 1 /\ p \notin AliveIn(n, target, shown')
    BY DEF Loads
  <2>1. target[p] # c /\ n[<<"load", p>>] = jobs[<<"load", p>>]
        /\ Has(jobs, "load", p)
    BY <1>9 DEF Has
  <2> QED
    BY <2>1, <1>10, <1>11 DEF Loads
<1>18. Parsers(n, target, shown', wait')
  <2>1. \A p \in Doc : target[p] = c => ~Has(n, "parse", p) /\ ~Has(n, "style", p)
    BY <1>9 DEF Has
  <2>2. \A p \in Doc : target[p] # c =>
          /\ n[<<"parse", p>>] = jobs[<<"parse", p>>]
          /\ n[<<"style", p>>] = jobs[<<"style", p>>]
          /\ (Has(n, "parse", p) <=> Has(jobs, "parse", p))
          /\ (Has(n, "style", p) <=> Has(jobs, "style", p))
    BY <1>9 DEF Has
  <2>3. ASSUME NEW p \in Doc, Has(n, "parse", p)
        PROVE  n[<<"parse", p>>] = 1 /\ shown'[target[p]] = Nil
    <3>1. target[p] # c /\ Has(jobs, "parse", p)
      BY <2>1, <2>2, <2>3
    <3>2. target[p] \in Cont
      BY <3>1, <1>10, <1>t, DocJob DEF Aimed, Has
    <3> QED
      BY <3>1, <3>2, <2>2, <1>7, <1>10 DEF Parsers
  <2>4. \A p, r \in Doc : Has(n, "parse", p) /\ Has(n, "parse", r) /\ p # r =>
          target[p] # target[r]
    BY <2>1, <2>2, <1>10 DEF Parsers
  <2>5. \A p \in Doc : Has(n, "style", p) => n[<<"style", p>>] = 1 /\ p \in wait'
    BY <2>1, <2>2, <1>3, <1>5, <1>10 DEF Parsers
  <2>6. ASSUME NEW p \in wait'
        PROVE  Has(n, "parse", p) /\ ("bad" \notin Sheets => Has(n, "style", p))
    <3>1. p \in wait /\ p \in Doc /\ p \notin parsed
      BY <1>5, <1>t
    <3>2. Has(jobs, "parse", p) /\ target[p] # c
      BY <3>1, <1>3, <1>10 DEF Parsers
    <3> QED
      BY <3>1, <3>2, <2>2, <1>10 DEF Parsers
  <2> QED
    BY <2>3, <2>4, <2>5, <2>6 DEF Parsers
<1>19. Works(n, target, frames, shown', img)
  <2>1. AliveIn(n, target, shown') \subseteq AliveIn(jobs, target, shown)
    BY <1>11, <1>12 DEF AliveIn
  <2>2. \A j \in Job : n[j] > 0 =>
          /\ j[1] # "load" => DocArg(j) \in AliveIn(n, target, shown')
          /\ j[1] \in {"image", "imgldr"} => img[j[2]] \in {"empty", "data"}
    BY <1>10, <1>11, <1>13, JobIs DEF Works
  <2> QED
    BY <2>1, <2>2, <1>10 DEF Works
<1>20. Layouts(n, target, frames, shown', reflow', owed', stopped')
  <2>1. ASSUME reflow' # Nil
        PROVE  reflow' \in frames /\ Has(n, "reflow", reflow')
    <3>1. reflow' = reflow /\ Has(jobs, "reflow", reflow) /\ reflow \in frames
          /\ target[reflow] # c /\ reflow \in Doc
      BY <2>1, <1>4, <1>5, <1>10, <1>t DEF Layouts
    <3> QED
      BY <3>1, <1>9 DEF Has
  <2>2. ASSUME NEW p \in owed'
        PROVE  /\ target[p] # Nil /\ ~Has(n, "load", p)
               /\ p \in AliveIn(n, target, shown') => reflow' = p \/ p \in stopped'
    <3>1. p \in owed /\ p \notin parsed /\ p \in Doc
      BY <1>5, <1>t
    <3>2. target[p] # Nil /\ ~Has(jobs, "load", p)
      BY <3>1, <1>10 DEF Layouts
    <3>3. ~Has(n, "load", p)
      BY <3>1, <3>2, <1>9 DEF Has
    <3>4. ASSUME p \in AliveIn(n, target, shown')
          PROVE  reflow' = p \/ p \in stopped'
      <4>1. p \in AliveIn(jobs, target, shown)
        BY <3>1, <3>4, <1>11, <1>12
      <4>2. reflow = p \/ p \in stopped
        BY <3>1, <4>1, <1>10 DEF Layouts
      <4>3. CASE p \in stopped
        BY <4>3, <1>5
      <4>4. CASE reflow = p /\ Forgotten(jobs, c) = reflow
        BY <4>4, <1>5
      <4>5. CASE reflow = p /\ Forgotten(jobs, c) # reflow
        BY <4>5, <3>1, <1>5
      <4> QED
        BY <4>2, <4>3, <4>4, <4>5
    <3> QED
      BY <3>2, <3>3, <3>4
  <2> QED
    BY <2>1, <2>2 DEF Layouts
<1> QED
  BY <1>5, <1>15, <1>16, <1>17, <1>18, <1>19, <1>20 DEF IInv, Sound

-----------------------------------------------------------------------------
(***************************************************************************)
(* The theorems.                                                           *)
(***************************************************************************)
LEMMA InitSound ==
  ASSUME Init
  PROVE  IInv
<1>1. Typed(jobs, target, frames, shown, img, wait, reflow, owed, stopped)
  BY DEF Init, Typed
<1>2. \A j \in Job : jobs[j] = 0
  BY DEF Init
<1>3. \A k \in {"load", "parse", "style", "reflow"}, p \in Doc : ~Has(jobs, k, p)
  BY <1>2, DocJob DEF Has
<1>4. AliveIn(jobs, target, shown) = {}
  BY DEF Init, AliveIn
<1>5. Aimed(jobs, target, shown)
  BY <1>2 DEF Init, Aimed
<1>6. Loads(jobs, target, shown)
  BY <1>3 DEF Loads
<1>7. Parsers(jobs, target, shown, wait)
  BY <1>3 DEF Init, Parsers
<1>8. Works(jobs, target, frames, shown, img)
  BY <1>2, <1>4 DEF Init, Works
<1>9. Layouts(jobs, target, frames, shown, reflow, owed, stopped)
  BY DEF Init, Layouts
<1> QED
  BY <1>1, <1>5, <1>6, <1>7, <1>8, <1>9 DEF IInv, Sound

LEMMA NextSound ==
  ASSUME IInv, [Next]_vars
  PROVE  IInv'
<1>1. ASSUME NEW p \in Doc, NEW c \in Cont, StartLoad(p, c) \/ History(p, c)
      PROVE  IInv'
  BY <1>1, StartLoadStep, HistoryStep
<1>2. CASE \E c \in Cont : Escape(c)
  BY <1>2, EscapeStep
<1>3. ASSUME NEW p \in Doc,
             \/ LoadDone(p) \/ ParseEnd(p) \/ ParseSheet(p) \/ ParseMore(p)
             \/ ResumeJob(p) \/ ReflowStale(p) \/ ReflowRun(p)
      PROVE  IInv'
  BY <1>3, LoadDoneStep, ParseEndStep, ParseSheetStep, ParseMoreStep,
     ResumeJobStep, ReflowStaleStep, ReflowRunStep
<1>4. ASSUME NEW i \in Img,
             \/ ImageJob(i) \/ ImageFetch(i) \/ ImageBad(i) \/ ImageLdr(i)
             \/ ImageLdrFails(i) \/ Reload(i)
      PROVE  IInv'
  BY <1>4, ImageJobStep, ImageFetchStep, ImageBadStep, ImageLdrStep,
     ImageLdrFailsStep, ReloadStep
<1>5. CASE UNCHANGED vars
  BY <1>5 DEF vars, IInv
<1> QED
  BY <1>1, <1>2, <1>3, <1>4, <1>5 DEF Next

\* Whatever the window, the user and the network do, no handler breaks the
\* invariant.
THEOREM Invariant == Spec => []IInv
<1>1. IInv /\ [Next]_vars => IInv'
  BY NextSound
<1> QED
  BY <1>1, InitSound, PTL DEF Spec

LEMMA InvariantLive ==
  ASSUME IInv, "bad" \notin Sheets
  PROVE  Live
<1>t. /\ jobs \in [Job -> Nat]
      /\ target \in [Doc -> Cont \cup {Nil}]
      /\ wait \in SUBSET Doc
      /\ reflow \in Doc \cup {Nil}
  BY TypedNow
<1>1. Alive = AliveIn(jobs, target, shown)
  BY DEF Alive, AliveIn, Has, Called
<1>2. /\ Aimed(jobs, target, shown)
      /\ Parsers(jobs, target, shown, wait)
      /\ Works(jobs, target, frames, shown, img)
      /\ Layouts(jobs, target, frames, shown, reflow, owed, stopped)
  BY DEF IInv, Sound
<1>3. JobsLive
  <2>1. ASSUME NEW j \in Pending(jobs)
        PROVE  /\ j[1] # "load" => DocArg(j) \in Alive
               /\ j[1] = "style" => Called(<<"parse", j[2]>>)
               /\ j[1] \in {"image", "imgldr"} => img[j[2]] \in {"empty", "data"}
    <3>1. j \in Job /\ jobs[j] > 0
      BY DEF Pending
    <3>2. ASSUME j[1] = "style"
          PROVE  Called(<<"parse", j[2]>>)
      <4>1. j[2] \in Doc /\ j = <<"style", j[2]>>
        BY <3>1, <3>2, JobIs
      <4>2. Has(jobs, "style", j[2])
        BY <3>1, <4>1 DEF Has
      <4> QED
        BY <4>1, <4>2, <1>2 DEF Parsers, Has, Called
    <3> QED
      BY <3>1, <3>2, <1>1, <1>2 DEF Works
  <2> QED
    BY <2>1, <1>1, <1>2 DEF JobsLive, Works
<1>4. ReflowParked
  BY <1>2 DEF ReflowParked, Layouts, Has, Called
<1>5. WaitServed
  BY <1>2 DEF WaitServed, Parsers, Has, Called
<1>6. ParserAlone
  <2> SUFFICES ASSUME NEW c \in Cont
               PROVE  /\ Cardinality(ParsersFor(jobs, c)) <= 1
                      /\ ParsersFor(jobs, c) # {} => shown[c] = Nil
                      /\ \A p \in ParsersFor(jobs, c) : jobs[<<"parse", p>>] = 1
    BY DEF ParserAlone
  <2>1. \A p \in ParsersFor(jobs, c) : p \in Doc /\ Has(jobs, "parse", p) /\ target[p] = c
    BY DocJob DEF ParsersFor, JobsFor, Pending, Hash, Has
  <2>2. \A p, q \in ParsersFor(jobs, c) : p = q
    BY <2>1, <1>2 DEF Parsers
  <2>3. Cardinality(ParsersFor(jobs, c)) <= 1
    BY <2>2, AtMostOne
  <2> QED
    BY <2>1, <2>3, <1>2 DEF Parsers
<1> QED
  BY <1>3, <1>4, <1>5, <1>6 DEF Live

\* If every style sheet is one that a protocol can load, then no job works for
\* what has been deleted or forgotten, the layout that is remembered will be
\* made, one parser at a time works for a container, and a parser that waits
\* will be told that it may go on.
THEOREM JobsWork == "bad" \notin Sheets => (Spec => []Live)
<1> SUFFICES ASSUME "bad" \notin Sheets
             PROVE  Spec => []Live
  OBVIOUS
<1>1. IInv => Live
  BY InvariantLive
<1> QED
  BY <1>1, Invariant, PTL

\* A document whose images do not have the sizes it was laid out for is the
\* one that is remembered for a layout, if it is shown, unless the user stopped
\* it: a layout that is owed is not forgotten.
THEOREM LayoutsMade == Spec => []LayoutOwed
<1>1. IInv => LayoutOwed
  <2> SUFFICES ASSUME IInv, NEW c \in Cont, shown[c] \in owed
               PROVE  reflow = shown[c] \/ shown[c] \in stopped
    BY DEF LayoutOwed
  <2>1. shown[c] \in Doc
    BY TypedNow
  <2>2. target[shown[c]] = c /\ c # Nil
    BY <2>1, PageAssumption DEF IInv, Sound, Aimed
  <2>3. shown[c] \in AliveIn(jobs, target, shown)
    BY <2>1, <2>2 DEF AliveIn
  <2> QED
    BY <2>3 DEF IInv, Sound, Layouts
<1> QED
  BY <1>1, Invariant, PTL

-----------------------------------------------------------------------------
(***************************************************************************)
(* What a window counts is what the jobs for its pane have to end.         *)
(***************************************************************************)

\* The jobs of documents in c, what they end, and the documents that load
Of(js, tg, c) == {j \in Job : js[j] > 0 /\ tg[DocArg(j)] = c}

Weights(js) == [j \in Job |-> js[j] * EndsOf(j)]

Ends(js, tg, c) == Total(Weights(js), Of(js, tg, c))

IsLoad(j) == j[1] \in {"load", "parse"}

Loadings(js, tg, c) == Cardinality({j \in Of(js, tg, c) : IsLoad(j)})

Counted(js, tg, act, ldg) ==
  /\ IsFiniteSet(Pending(js))
  /\ act \in [Cont -> Nat] /\ ldg \in [Cont -> Nat]
  /\ \A c \in Cont : act[c] = Ends(js, tg, c) /\ ldg[c] = Loadings(js, tg, c)

\* No image has two jobs: or delete_image() would end one activity for two.
OneEach(js) == \A i \in Img : js[<<"image", i>>] + js[<<"imgldr", i>>] <= 1

CInv == IInv /\ OneEach(jobs) /\ Counted(jobs, target, activity, loading)

LEMMA EndsOfNat ==
  ASSUME NEW j \in Job
  PROVE  EndsOf(j) \in {0, 1, 2}
BY DEF Job, EndsOf

LEMMA WeightsNat ==
  ASSUME NEW js \in [Job -> Nat]
  PROVE  Weights(js) \in [Job -> Nat]
<1>1. \A j \in Job : js[j] * EndsOf(j) \in Nat
  BY EndsOfNat
<1> QED
  BY <1>1 DEF Weights

LEMMA OfFinite ==
  ASSUME NEW js, IsFiniteSet(Pending(js)), NEW tg, NEW c
  PROVE  IsFiniteSet(Of(js, tg, c)) /\ IsFiniteSet({j \in Of(js, tg, c) : IsLoad(j)})
<1>1. Of(js, tg, c) \subseteq Pending(js)
      /\ {j \in Of(js, tg, c) : IsLoad(j)} \subseteq Pending(js)
  BY DEF Of, Pending
<1> QED
  BY <1>1, FS_Subset

LEMMA CountsNat ==
  ASSUME NEW js \in [Job -> Nat], IsFiniteSet(Pending(js)), NEW tg, NEW c
  PROVE  Ends(js, tg, c) \in Nat /\ Loadings(js, tg, c) \in Nat
<1>1. IsFiniteSet(Of(js, tg, c)) /\ IsFiniteSet({j \in Of(js, tg, c) : IsLoad(j)})
  BY OfFinite
<1>2. \A j \in Of(js, tg, c) : Weights(js)[j] \in Nat
  BY WeightsNat DEF Of
<1>3. Total(Weights(js), Of(js, tg, c)) \in Nat
  BY ONLY <1>1, <1>2, TotalStep
<1> QED
  BY <1>1, <1>3, FS_CardinalityType DEF Ends, Loadings

\* The sums of the model are sums of functions.
LEMMA EndsTotal ==
  ASSUME NEW js \in [Job -> Nat], IsFiniteSet(Pending(js)), NEW c
  PROVE  /\ EndsFor(js, c) = Ends(js, target, c)
         /\ LoadsFor(js, c) = Loadings(js, target, c)
<1> DEFINE S == Of(js, target, c)
           g == Weights(js)
           E(F) == F = [s \in SUBSET S |->
                          IF s = {} THEN 0
                          ELSE js[AnyOf(s)] * EndsOf(AnyOf(s)) + F[s \ {AnyOf(s)}]]
           G == CHOOSE F : E(F)
<1>0. JobsFor(js, c) = S
  BY DEF JobsFor, Pending, Hash, Of
<1>1. EndsFor(js, c) = G[S]
  BY <1>0 DEF EndsFor, MapThenSumSet, MapThenFoldSet, AnyOf
<1>2. \A x \in S : g[x] = js[x] * EndsOf(x) /\ g[x] \in Nat
  BY WeightsNat DEF Weights, Of
<1>3. IsFiniteSet(S)
  BY OfFinite
<1>a. LoadsFor(js, c) = Loadings(js, target, c)
  BY <1>0 DEF LoadsFor, Loadings, IsLoad
<1>b. S = Of(js, target, c) /\ g = Weights(js)
  OBVIOUS
<1> HIDE DEF g, S
<1>4. ASSUME NEW F
      PROVE  E(F) <=> Sums(F, g, S)
  <2>1. \A s \in SUBSET S : s # {} => AnyOf(s) \in S
    BY AnyOfIn
  <2>2. \A s \in SUBSET S : s # {} => js[AnyOf(s)] * EndsOf(AnyOf(s)) = g[AnyOf(s)]
    BY <1>2, <2>1
  <2>3. [s \in SUBSET S |-> IF s = {} THEN 0
                            ELSE js[AnyOf(s)] * EndsOf(AnyOf(s)) + F[s \ {AnyOf(s)}]]
      = [s \in SUBSET S |-> IF s = {} THEN 0
                            ELSE g[AnyOf(s)] + F[s \ {AnyOf(s)}]]
    BY <2>2
  <2> QED
    BY <2>3 DEF Sums
<1>5. \E F : E(F)
  BY <1>2, <1>3, <1>4, SumsExist
<1>6. Sums(G, g, S)
  BY <1>4, <1>5
<1> HIDE DEF G
<1>7. G[S] = Total(g, S)
  BY <1>2, <1>3, <1>6, TotalIs
<1> QED
  BY <1>1, <1>7, <1>a, <1>b DEF Ends

\* There is another number of one job x.
LEMMA OneJobChanged ==
  ASSUME NEW js \in [Job -> Nat], NEW n \in [Job -> Nat], NEW tg, NEW x \in Job,
         IsFiniteSet(Pending(js)),
         \A j \in Job : j # x => n[j] = js[j]
  PROVE  /\ IsFiniteSet(Pending(n))
         /\ \A c : tg[DocArg(x)] # c => /\ Ends(n, tg, c) = Ends(js, tg, c)
                                        /\ Loadings(n, tg, c) = Loadings(js, tg, c)
         /\ \A c : tg[DocArg(x)] = c =>
              /\ Ends(n, tg, c) + js[x] * EndsOf(x) = Ends(js, tg, c) + n[x] * EndsOf(x)
              /\ Loadings(n, tg, c) + (IF js[x] > 0 /\ IsLoad(x) THEN 1 ELSE 0)
                   = Loadings(js, tg, c) + (IF n[x] > 0 /\ IsLoad(x) THEN 1 ELSE 0)
<1>1. IsFiniteSet(Pending(n))
  <2>1. Pending(n) \subseteq Pending(js) \cup {x}
    BY DEF Pending
  <2>2. IsFiniteSet(Pending(js) \cup {x})
    BY FS_AddElement
  <2> QED
    BY <2>1, <2>2, FS_Subset
<1>2. ASSUME NEW c
      PROVE  /\ IsFiniteSet(Of(js, tg, c)) /\ IsFiniteSet(Of(n, tg, c))
             /\ Of(js, tg, c) \ {x} = Of(n, tg, c) \ {x}
             /\ x \in Of(js, tg, c) <=> (js[x] > 0 /\ tg[DocArg(x)] = c)
             /\ x \in Of(n, tg, c) <=> (n[x] > 0 /\ tg[DocArg(x)] = c)
             /\ \A y \in Of(js, tg, c) : Weights(js)[y] \in Nat
             /\ \A y \in Of(n, tg, c) : Weights(n)[y] \in Nat
             /\ \A y \in Of(js, tg, c) \ {x} : Weights(js)[y] = Weights(n)[y]
  <2>1. IsFiniteSet(Of(js, tg, c)) /\ IsFiniteSet(Of(n, tg, c))
    BY <1>1, OfFinite
  <2>2. Weights(js) \in [Job -> Nat] /\ Weights(n) \in [Job -> Nat]
    BY WeightsNat
  <2>3. \A y \in Job : y # x => Weights(js)[y] = Weights(n)[y]
    BY DEF Weights
  <2> QED
    BY <2>1, <2>2, <2>3 DEF Of
<1>3. Weights(js)[x] = js[x] * EndsOf(x) /\ Weights(n)[x] = n[x] * EndsOf(x)
  BY DEF Weights
<1>4. /\ js[x] \in Nat /\ n[x] \in Nat /\ EndsOf(x) \in {0, 1, 2}
      /\ js[x] = 0 => js[x] * EndsOf(x) = 0
      /\ n[x] = 0 => n[x] * EndsOf(x) = 0
  BY EndsOfNat
<1>5. ASSUME NEW c
      PROVE  /\ Total(Weights(js), Of(js, tg, c)) \in Nat
             /\ Total(Weights(n), Of(n, tg, c)) \in Nat
             /\ Total(Weights(n), Of(n, tg, c))
                  + (IF x \in Of(js, tg, c) THEN Weights(js)[x] ELSE 0)
                  = Total(Weights(js), Of(js, tg, c))
                    + (IF x \in Of(n, tg, c) THEN Weights(n)[x] ELSE 0)
  <2> DEFINE S == Of(js, tg, c)
             T == Of(n, tg, c)
             g == Weights(js)
             h == Weights(n)
  <2>1. /\ IsFiniteSet(S) /\ IsFiniteSet(T) /\ S \ {x} = T \ {x}
        /\ \A y \in S : g[y] \in Nat
        /\ \A y \in T : h[y] \in Nat
        /\ \A y \in S \ {x} : g[y] = h[y]
    BY <1>2
  <2> HIDE DEF S, T, g, h
  <2>2. /\ Total(g, S) \in Nat /\ Total(h, T) \in Nat
        /\ Total(h, T) + (IF x \in S THEN g[x] ELSE 0)
             = Total(g, S) + (IF x \in T THEN h[x] ELSE 0)
    BY ONLY <2>1, TotalChanged
  <2> QED
    BY <2>2 DEF S, T, g, h
<1>6. ASSUME NEW c
      PROVE  /\ Loadings(js, tg, c) \in Nat /\ Loadings(n, tg, c) \in Nat
             /\ Loadings(n, tg, c)
                  + (IF js[x] > 0 /\ tg[DocArg(x)] = c /\ IsLoad(x) THEN 1 ELSE 0)
                  = Loadings(js, tg, c)
                    + (IF n[x] > 0 /\ tg[DocArg(x)] = c /\ IsLoad(x) THEN 1 ELSE 0)
  <2> DEFINE S == {j \in Of(js, tg, c) : IsLoad(j)}
             T == {j \in Of(n, tg, c) : IsLoad(j)}
  <2>1. IsFiniteSet(S) /\ IsFiniteSet(T)
    BY <1>1, OfFinite
  <2>2. S \ {x} = T \ {x}
    BY <1>2
  <2>3. (x \in S <=> js[x] > 0 /\ tg[DocArg(x)] = c /\ IsLoad(x))
        /\ (x \in T <=> n[x] > 0 /\ tg[DocArg(x)] = c /\ IsLoad(x))
    BY <1>2
  <2>4. Loadings(js, tg, c) = Cardinality(S) /\ Loadings(n, tg, c) = Cardinality(T)
    BY DEF Loadings
  <2> HIDE DEF S, T
  <2>5. /\ Cardinality(S) \in Nat /\ Cardinality(T) \in Nat
        /\ Cardinality(T) + (IF x \in S THEN 1 ELSE 0)
             = Cardinality(S) + (IF x \in T THEN 1 ELSE 0)
    BY ONLY <2>1, <2>2, CountChanged
  <2> QED
    BY <2>3, <2>4, <2>5
<1>7. ASSUME NEW c, tg[DocArg(x)] # c
      PROVE  Ends(n, tg, c) = Ends(js, tg, c) /\ Loadings(n, tg, c) = Loadings(js, tg, c)
  <2>1. x \notin Of(js, tg, c) /\ x \notin Of(n, tg, c)
    BY <1>2, <1>7
  <2> QED
    BY <2>1, <1>5, <1>6, <1>7 DEF Ends
<1>8. ASSUME NEW c, tg[DocArg(x)] = c
      PROVE  /\ Ends(n, tg, c) + js[x] * EndsOf(x) = Ends(js, tg, c) + n[x] * EndsOf(x)
             /\ Loadings(n, tg, c) + (IF js[x] > 0 /\ IsLoad(x) THEN 1 ELSE 0)
                  = Loadings(js, tg, c) + (IF n[x] > 0 /\ IsLoad(x) THEN 1 ELSE 0)
  <2>1. (IF x \in Of(js, tg, c) THEN Weights(js)[x] ELSE 0) = js[x] * EndsOf(x)
    <3>1. x \in Of(js, tg, c) <=> js[x] > 0
      BY <1>2, <1>8
    <3> QED
      BY <3>1, <1>3, <1>4
  <2>2. (IF x \in Of(n, tg, c) THEN Weights(n)[x] ELSE 0) = n[x] * EndsOf(x)
    <3>1. x \in Of(n, tg, c) <=> n[x] > 0
      BY <1>2, <1>8
    <3> QED
      BY <3>1, <1>3, <1>4
  <2>3. Ends(n, tg, c) + js[x] * EndsOf(x) = Ends(js, tg, c) + n[x] * EndsOf(x)
    BY <2>1, <2>2, <1>5 DEF Ends
  <2> QED
    BY <2>3, <1>6, <1>8
<1> QED
  BY <1>1, <1>7, <1>8

\* As many jobs image_job as images
LEMMA ImageJobs ==
  ASSUME NEW D, IsFiniteSet(D)
  PROVE  /\ IsFiniteSet({<<"image", i>> : i \in D})
         /\ Cardinality({<<"image", i>> : i \in D}) = Cardinality(D)
<1> DEFINE Z == {<<"image", i>> : i \in D}
           f == [i \in D |-> <<"image", i>>]
<1>1. f \in Bijection(D, Z)
  <2>1. f \in [D -> Z]
    OBVIOUS
  <2>2. \A i, k \in D : f[i] = f[k] => i = k
    OBVIOUS
  <2>3. \A z \in Z : \E i \in D : f[i] = z
    OBVIOUS
  <2> HIDE DEF f, Z
  <2> QED
    BY <2>1, <2>2, <2>3 DEF Bijection, Injection, Surjection, IsInjective
<1> HIDE DEF f, Z
<1>2. ExistsBijection(D, Z)
  BY <1>1 DEF ExistsBijection
<1>3. IsFiniteSet(Z) /\ Cardinality(Z) = Cardinality(D)
  BY <1>2, FS_Bijection
<1> QED
  BY <1>3 DEF Z

\* The same when a window is told what the change of one job means for it:
\* e activities and l loads.
LEMMA OneJobCounted ==
  ASSUME NEW js \in [Job -> Nat], NEW n \in [Job -> Nat], NEW tg, NEW x \in Job,
         \A j \in Job : j # x => n[j] = js[j],
         NEW act, NEW ldg, Counted(js, tg, act, ldg),
         NEW d \in Cont, tg[DocArg(x)] = d,
         NEW act2 \in [Cont -> Nat], NEW ldg2 \in [Cont -> Nat],
         \A c \in Cont : c # d => act2[c] = act[c] /\ ldg2[c] = ldg[c],
         act2[d] + js[x] * EndsOf(x) = act[d] + n[x] * EndsOf(x),
         ldg2[d] + (IF js[x] > 0 /\ IsLoad(x) THEN 1 ELSE 0)
           = ldg[d] + (IF n[x] > 0 /\ IsLoad(x) THEN 1 ELSE 0)
  PROVE  Counted(n, tg, act2, ldg2)
<1>1. IsFiniteSet(Pending(js)) /\ act[d] = Ends(js, tg, d) /\ ldg[d] = Loadings(js, tg, d)
  BY DEF Counted
<1>2. /\ IsFiniteSet(Pending(n))
      /\ \A c : tg[DocArg(x)] # c => /\ Ends(n, tg, c) = Ends(js, tg, c)
                                     /\ Loadings(n, tg, c) = Loadings(js, tg, c)
      /\ Ends(n, tg, d) + js[x] * EndsOf(x) = Ends(js, tg, d) + n[x] * EndsOf(x)
      /\ Loadings(n, tg, d) + (IF js[x] > 0 /\ IsLoad(x) THEN 1 ELSE 0)
           = Loadings(js, tg, d) + (IF n[x] > 0 /\ IsLoad(x) THEN 1 ELSE 0)
  BY <1>1, OneJobChanged
<1>3. /\ Ends(n, tg, d) \in Nat /\ Loadings(n, tg, d) \in Nat
      /\ Ends(js, tg, d) \in Nat /\ Loadings(js, tg, d) \in Nat
  BY <1>1, <1>2, CountsNat
<1>4. act2[d] = Ends(n, tg, d) /\ ldg2[d] = Loadings(n, tg, d)
  <2> DEFINE u == js[x] * EndsOf(x)
             v == n[x] * EndsOf(x)
             b == IF js[x] > 0 /\ IsLoad(x) THEN 1 ELSE 0
             e == IF n[x] > 0 /\ IsLoad(x) THEN 1 ELSE 0
  <2>1. u \in Nat /\ v \in Nat /\ b \in Nat /\ e \in Nat
    BY EndsOfNat
  <2>2. /\ act2[d] + u = Ends(js, tg, d) + v
        /\ Ends(n, tg, d) + u = Ends(js, tg, d) + v
        /\ ldg2[d] + b = Loadings(js, tg, d) + e
        /\ Loadings(n, tg, d) + b = Loadings(js, tg, d) + e
    BY <1>1, <1>2
  <2>3. act2[d] \in Nat /\ ldg2[d] \in Nat
    OBVIOUS
  <2> HIDE DEF u, v, b, e
  <2> QED
    BY <1>3, <2>1, <2>2, <2>3
<1>5. \A c \in Cont : c # d => act2[c] = Ends(n, tg, c) /\ ldg2[c] = Loadings(n, tg, c)
  BY <1>2 DEF Counted
<1> QED
  BY <1>2, <1>4, <1>5 DEF Counted

\* Who was asked for only now has no jobs.
LEMMA TargetCounted ==
  ASSUME NEW js, NEW tg, NEW sh, Aimed(js, tg, sh), NEW p \in Doc, NEW c, NEW t,
         Asked(tg, p, c, t), tg \in [Doc -> Cont \cup {Nil}]
  PROVE  \A d \in Cont : /\ Ends(js, t, d) = Ends(js, tg, d)
                         /\ Loadings(js, t, d) = Loadings(js, tg, d)
<1>1. \A j \in Job : js[j] > 0 => t[DocArg(j)] = tg[DocArg(j)]
  BY JobIs DEF Aimed, Asked
<1>2. \A d \in Cont : Of(js, t, d) = Of(js, tg, d)
  BY <1>1 DEF Of
<1> QED
  BY <1>2 DEF Ends, Loadings

\* containr_clear() ends what the jobs for the container had begun.
LEMMA ClearedCounted ==
  ASSUME NEW js,
         Sound(js, target, frames, shown, img, wait, reflow, owed, stopped),
         OneEach(js), IsFiniteSet(Pending(js)),
         NEW c \in Cont
  PROVE  LET x == Cleared(js, c)
         IN  /\ x.ends = Ends(js, target, c) /\ x.loads = Loadings(js, target, c)
             /\ x.ends \in Nat /\ x.loads \in Nat
             /\ IsFiniteSet(Pending(x.jobs))
             /\ OneEach(x.jobs)
             /\ Ends(x.jobs, target, c) = 0 /\ Loadings(x.jobs, target, c) = 0
             /\ \A d \in Cont : d # c =>
                  /\ Ends(x.jobs, target, d) = Ends(js, target, d)
                  /\ Loadings(x.jobs, target, d) = Loadings(js, target, d)
<1> DEFINE x == Cleared(js, c)
           rest == Without(js, c)
           Z == {<<"image", i>> : i \in Cut(js, c)}
           S == Of(js, target, c)
           g == Weights(js)
           h == Weights(rest)
<1>t. /\ js \in [Job -> Nat] /\ target \in [Doc -> Cont \cup {Nil}]
      /\ shown \in [Cont -> Doc \cup {Nil}]
      /\ Typed(js, target, frames, shown, img, wait, reflow, owed, stopped)
      /\ Aimed(js, target, shown)
  BY DEF Sound, Typed
<1>1. /\ x.ends = Cardinality(Cut(js, c)) + EndsFor(rest, c)
      /\ x.loads = LoadsFor(rest, c)
  BY DEF Cleared
<1>2. /\ x.jobs \in [Job -> Nat]
      /\ \A j \in Job : x.jobs[j] = IF Hash(j) = c THEN 0 ELSE js[j]
  BY <1>t, ClearedJobs
<1>3. rest \in [Job -> Nat] /\ Pending(rest) \subseteq Pending(js)
  BY <1>t DEF Without, Pending
<1>4. IsFiniteSet(Pending(rest))
  BY <1>3, FS_Subset
\* the images with a job that is removed
<1>5. Cut(js, c) \subseteq Img /\ \A i \in Cut(js, c) : /\ <<"image", i>> \in Job
                                                        /\ <<"image", i>> \in S
                                                        /\ js[<<"image", i>>] = 1
  <2> SUFFICES ASSUME NEW i \in Cut(js, c)
               PROVE  /\ i \in Img /\ <<"image", i>> \in Job
                      /\ <<"image", i>> \in S /\ js[<<"image", i>>] = 1
    OBVIOUS
  <2>1. i \in Img /\ DocOf[i] = shown[c] /\ js[<<"image", i>>] > 0
    BY DEF Cut, ImagesOf
  <2>2. <<"image", i>> \in Job /\ DocArg(<<"image", i>>) = shown[c]
        /\ shown[c] \in Doc /\ <<"imgldr", i>> \in Job
    BY <2>1, ImgJob
  <2>3. target[shown[c]] = c
    BY <1>t, <2>2, PageAssumption DEF Aimed
  <2>4. js[<<"image", i>>] = 1
    <3>1. js[<<"image", i>>] \in Nat /\ js[<<"imgldr", i>>] \in Nat
      BY <1>t, <2>2
    <3>2. js[<<"image", i>>] + js[<<"imgldr", i>>] <= 1
      BY <2>1 DEF OneEach
    <3> QED
      BY <2>1, <3>1, <3>2
  <2> QED
    BY <2>1, <2>2, <2>3, <2>4 DEF Of
<1>6. Z \subseteq S /\ Of(rest, target, c) = S \ Z
  <2>1. Z \subseteq S
    BY <1>5
  <2>2. ASSUME NEW j \in Job
        PROVE  j \in Of(rest, target, c) <=> j \in S /\ j \notin Z
    <3>1. CASE j \in Z
      <4>1. PICK i \in Cut(js, c) : j = <<"image", i>>
        BY <3>1
      <4>2. rest[j] = 0
        BY <4>1 DEF Without, Cut
      <4> QED
        BY <3>1, <4>2 DEF Of
    <3>2. CASE j \notin Z /\ js[j] > 0
      <4>1. \A i \in ImagesOf(shown[c]) : img[i] = "empty" => j # <<"image", i>>
        BY <3>2 DEF Cut
      <4>2. rest[j] = js[j]
        BY <4>1 DEF Without
      <4> QED
        BY <3>2, <4>2 DEF Of
    <3>3. CASE ~(js[j] > 0)
      <4>1. ~(rest[j] > 0)
        BY <3>3 DEF Without
      <4> QED
        BY <3>3, <4>1 DEF Of
    <3> QED
      BY <3>1, <3>2, <3>3
  <2> QED
    BY <2>1, <2>2 DEF Of
<1>7. \A j \in S \ Z : g[j] = h[j] /\ g[j] \in Nat
  <2>1. \A j \in Job : g[j] = js[j] * EndsOf(j) /\ h[j] = rest[j] * EndsOf(j)
    BY DEF Weights
  <2>2. ASSUME NEW j \in S \ Z
        PROVE  rest[j] = js[j] /\ j \in Job
    <3>1. j \in Job /\ js[j] > 0
      BY DEF Of
    <3>2. \A i \in ImagesOf(shown[c]) : img[i] = "empty" => j # <<"image", i>>
      BY <2>2, <3>1 DEF Cut
    <3> QED
      BY <3>1, <3>2 DEF Without
  <2>3. g \in [Job -> Nat]
    BY <1>t, WeightsNat
  <2> HIDE DEF g, h, S, Z, rest
  <2> QED
    BY <2>1, <2>2, <2>3
<1>8. \A j \in S : g[j] \in Nat
  <2>1. g \in [Job -> Nat]
    BY <1>t, WeightsNat
  <2> QED
    BY <2>1 DEF Of
<1>9. IsFiniteSet(S) /\ IsFiniteSet(Z) /\ IsFiniteSet(S \ Z)
  <2>1. IsFiniteSet(S)
    BY OfFinite
  <2> HIDE DEF S, Z
  <2> QED
    BY <2>1, <1>6, FS_Subset
<1>10. \A z \in Z : g[z] = 1
  BY <1>5 DEF Weights, EndsOf
<1>11. IsFiniteSet(Cut(js, c))
  <2>1. Cut(js, c) \subseteq {i \in Img : DocOf[i] = shown[c]}
    BY DEF Cut, ImagesOf
  <2>2. IsFiniteSet({i \in Img : DocOf[i] = shown[c]})
    <3>1. CASE shown[c] \in Doc
      BY <3>1, ImagesAssumption
    <3>2. CASE shown[c] \notin Doc
      <4>1. {i \in Img : DocOf[i] = shown[c]} = {}
        BY <3>2, PageAssumption
      <4> QED
        BY <4>1, FS_EmptySet
    <3> QED
      BY <3>1, <3>2
  <2> QED
    BY <2>1, <2>2, FS_Subset
<1>12. Cardinality(Z) = Cardinality(Cut(js, c)) /\ Cardinality(Cut(js, c)) \in Nat
  BY <1>11, ImageJobs, FS_CardinalityType
<1>a. /\ Total(g, Z) = Cardinality(Z)
      /\ Total(g, S \ Z) = Total(g, S) - Total(g, Z)
      /\ Total(h, S \ Z) = Total(g, S \ Z)
      /\ Total(g, S) \in Nat
  <2> HIDE DEF g, h, S, Z
  <2>1. Total(g, Z) = Cardinality(Z)
    BY <1>9, <1>10, TotalOfOnes
  <2>2. Total(g, S \ Z) = Total(g, S) - Total(g, Z)
    BY <1>6, <1>8, <1>9, TotalOfMore
  <2>3. Total(g, S \ Z) = Total(h, S \ Z)
    BY ONLY <1>7, <1>9, TotalSame
  <2>4. Total(g, S) \in Nat
    BY ONLY <1>8, <1>9, TotalStep
  <2> QED
    BY <2>1, <2>2, <2>3, <2>4
<1>13. x.ends = Ends(js, target, c) /\ x.ends \in Nat
  <2>1. EndsFor(rest, c) = Total(h, S \ Z)
    BY <1>3, <1>4, <1>6, EndsTotal DEF Ends
  <2>2. Ends(js, target, c) = Total(g, S)
    BY DEF Ends
  <2> HIDE DEF g, h, S, Z, x, rest
  <2> QED
    BY <2>1, <2>2, <1>1, <1>12, <1>a
<1>14. x.loads = Loadings(js, target, c) /\ x.loads \in Nat
  <2>1. LoadsFor(rest, c) = Loadings(rest, target, c)
    BY <1>3, <1>4, EndsTotal
  <2>2. \A z \in Z : ~IsLoad(z)
    BY DEF IsLoad
  <2>3. {j \in S \ Z : IsLoad(j)} = {j \in S : IsLoad(j)}
    BY <2>2
  <2>4. Loadings(rest, target, c) = Loadings(js, target, c)
    BY <1>6, <2>3 DEF Loadings
  <2>5. Loadings(js, target, c) \in Nat
    BY <1>t, CountsNat
  <2> QED
    BY <2>1, <2>4, <2>5, <1>1
<1> HIDE DEF g, h, S, Z, rest, x
<1>15. \A j \in Job : x.jobs[j] > 0 <=> js[j] > 0 /\ Hash(j) # c
  BY <1>2
<1>16. IsFiniteSet(Pending(x.jobs))
  <2>1. Pending(x.jobs) \subseteq Pending(js)
    BY <1>15 DEF Pending
  <2> QED
    BY <2>1, FS_Subset
<1>17. OneEach(x.jobs)
  <2> SUFFICES ASSUME NEW i \in Img
               PROVE  x.jobs[<<"image", i>>] + x.jobs[<<"imgldr", i>>] <= 1
    BY DEF OneEach
  <2>1. <<"image", i>> \in Job /\ <<"imgldr", i>> \in Job
    BY ImgJob
  <2>2. js[<<"image", i>>] + js[<<"imgldr", i>>] <= 1
    BY DEF OneEach
  <2>3. x.jobs[<<"image", i>>] \in {0, js[<<"image", i>>]}
        /\ x.jobs[<<"imgldr", i>>] \in {0, js[<<"imgldr", i>>]}
    BY <1>2, <2>1
  <2>4. js[<<"image", i>>] \in Nat /\ js[<<"imgldr", i>>] \in Nat
    BY <1>t, <2>1
  <2> QED
    BY <2>2, <2>3, <2>4
<1>18. Ends(x.jobs, target, c) = 0 /\ Loadings(x.jobs, target, c) = 0
  <2>1. Of(x.jobs, target, c) = {}
    BY <1>15 DEF Of, Hash
  <2>2. Total(Weights(x.jobs), {}) = 0
    BY FS_EmptySet, TotalStep
  <2> QED
    BY <2>1, <2>2, FS_EmptySet DEF Ends, Loadings
<1>19. ASSUME NEW d \in Cont, d # c
       PROVE  /\ Ends(x.jobs, target, d) = Ends(js, target, d)
              /\ Loadings(x.jobs, target, d) = Loadings(js, target, d)
  <2>1. Of(x.jobs, target, d) = Of(js, target, d)
    BY <1>15, <1>19 DEF Of, Hash
  <2>2. \A j \in Of(js, target, d) : Weights(js)[j] \in Nat
                                     /\ Weights(js)[j] = Weights(x.jobs)[j]
    <3>1. Weights(js) \in [Job -> Nat]
      BY <1>t, WeightsNat
    <3>2. \A j \in Of(js, target, d) : j \in Job /\ x.jobs[j] = js[j]
      BY <1>2, <1>19 DEF Of, Hash
    <3>3. \A j \in Job : x.jobs[j] = js[j] => Weights(js)[j] = Weights(x.jobs)[j]
      BY DEF Weights
    <3> QED
      BY <3>1, <3>2, <3>3
  <2>3. IsFiniteSet(Of(js, target, d))
    BY OfFinite
  <2>4. Total(Weights(js), Of(js, target, d)) = Total(Weights(x.jobs), Of(js, target, d))
    BY ONLY <2>2, <2>3, TotalSame
  <2> QED
    BY <2>1, <2>4 DEF Ends, Loadings
<1> QED
  BY <1>13, <1>14, <1>16, <1>17, <1>18, <1>19 DEF x

LEMMA EndsOfIs ==
  ASSUME NEW a
  PROVE  /\ EndsOf(<<"load", a>>) = 2 /\ EndsOf(<<"parse", a>>) = 2
         /\ EndsOf(<<"imgldr", a>>) = 2 /\ EndsOf(<<"style", a>>) = 1
         /\ EndsOf(<<"image", a>>) = 1 /\ EndsOf(<<"reflow", a>>) = 0
         /\ IsLoad(<<"load", a>>) /\ IsLoad(<<"parse", a>>)
         /\ ~IsLoad(<<"imgldr", a>>) /\ ~IsLoad(<<"style", a>>)
         /\ ~IsLoad(<<"image", a>>) /\ ~IsLoad(<<"reflow", a>>)
BY DEF EndsOf, IsLoad

LEMMA OneEachSame ==
  ASSUME NEW js, NEW n, OneEach(js), NEW k \in {"load", "parse", "style", "reflow"},
         NEW p \in Doc, \A j \in Job : j # <<k, p>> => n[j] = js[j]
  PROVE  OneEach(n)
<1> SUFFICES ASSUME NEW i \in Img
             PROVE  n[<<"image", i>>] + n[<<"imgldr", i>>] <= 1
  BY DEF OneEach
<1>1. <<"image", i>> \in Job /\ <<"imgldr", i>> \in Job
  BY ImgJob
<1>2. <<"image", i>> # <<k, p>> /\ <<"imgldr", i>> # <<k, p>>
  OBVIOUS
<1> QED
  BY <1>1, <1>2 DEF OneEach

\* A window counts for a container that is cleared what is begun after that.
LEMMA AfterCleared ==
  ASSUME NEW js,
         Sound(js, target, frames, shown, img, wait, reflow, owed, stopped),
         OneEach(js), IsFiniteSet(Pending(js)),
         NEW c \in Cont, NEW p \in Doc, NEW k \in {"load", "parse"},
         \/ target' = target /\ target[p] = c
         \/ Asked(target, p, c, target'),
         jobs' = Put(Cleared(js, c).jobs, <<k, p>>),
         activity' \in [Cont -> Nat], loading' \in [Cont -> Nat],
         \A d \in Cont : d # c => /\ activity'[d] = Ends(js, target, d)
                                  /\ loading'[d] = Loadings(js, target, d),
         activity'[c] = 2, loading'[c] = 1
  PROVE  OneEach(jobs') /\ Counted(jobs', target', activity', loading')
<1> DEFINE x == Cleared(js, c).jobs
           sh == [shown EXCEPT ![c] = Nil]
           act == [activity' EXCEPT ![c] = 0]
           ldg == [loading' EXCEPT ![c] = 0]
<1>t. target \in [Doc -> Cont \cup {Nil}]
  BY DEF Sound, Typed
<1>0. <<k, p>> \in Job /\ DocArg(<<k, p>>) = p
  BY DocJob
<1>1. /\ IsFiniteSet(Pending(x))
      /\ OneEach(x)
      /\ Ends(x, target, c) = 0 /\ Loadings(x, target, c) = 0
      /\ \A d \in Cont : d # c => /\ Ends(x, target, d) = Ends(js, target, d)
                                  /\ Loadings(x, target, d) = Loadings(js, target, d)
  BY ClearedCounted
<1>2. /\ x \in [Job -> Nat] /\ Aimed(x, target, sh) /\ NoneFor(x, target, c)
      /\ Sound(x, target, Cleared(js, c).frames, sh, Cleared(js, c).img,
               Cleared(js, c).wait, Cleared(js, c).reflow, owed, stopped)
  <2>1. Sound(x, target, Cleared(js, c).frames, sh, Cleared(js, c).img,
              Cleared(js, c).wait, Cleared(js, c).reflow, owed, stopped)
        /\ NoneFor(x, target, c)
    BY ClearedSound
  <2> QED
    BY <2>1 DEF Sound, Typed
<1>3. /\ act \in [Cont -> Nat] /\ ldg \in [Cont -> Nat]
      /\ act[c] = 0 /\ ldg[c] = 0
      /\ \A d \in Cont : d # c => act[d] = activity'[d] /\ ldg[d] = loading'[d]
  OBVIOUS
<1> HIDE DEF x, sh, act, ldg
<1>4. \A d \in Cont : /\ Ends(x, target', d) = Ends(x, target, d)
                      /\ Loadings(x, target', d) = Loadings(x, target, d)
  <2>1. CASE target' = target
    BY <2>1
  <2>2. CASE Asked(target, p, c, target')
    BY ONLY <1>t, <1>2, <2>2, p \in Doc, TargetCounted
  <2> QED
    BY <2>1, <2>2
<1>5. Counted(x, target', act, ldg)
  BY <1>1, <1>3, <1>4 DEF Counted
<1>6. target'[p] = c /\ x[<<k, p>>] = 0
  <2>1. target'[p] = c
    BY <1>t DEF Asked
  <2>2. ~(x[<<k, p>>] > 0)
    <3>1. CASE target' = target
      BY <3>1, <2>1, <1>0, <1>2 DEF NoneFor
    <3>2. CASE Asked(target, p, c, target')
      BY <3>2, <1>0, <1>2, PageAssumption DEF Asked, Aimed
    <3> QED
      BY <3>1, <3>2
  <2> QED
    BY <2>1, <2>2, <1>0, <1>2
<1>7. /\ jobs' \in [Job -> Nat]
      /\ \A j \in Job : jobs'[j] = IF j = <<k, p>> THEN x[j] + 1 ELSE x[j]
  <2> DEFINE y == <<k, p>>
  <2>1. jobs' = Put(x, y)
    BY DEF x
  <2>2. y \in Job /\ x \in [Job -> Nat]
    BY <1>0, <1>2
  <2> HIDE DEF y
  <2>3. /\ jobs' \in [Job -> Nat]
        /\ \A j \in Job : jobs'[j] = IF j = y THEN x[j] + 1 ELSE x[j]
    BY ONLY <2>1, <2>2, PutIs
  <2> QED
    BY <2>3 DEF y
<1>8. jobs'[<<k, p>>] = 1
  BY <1>0, <1>6, <1>7
<1>9. EndsOf(<<k, p>>) = 2 /\ IsLoad(<<k, p>>)
  BY EndsOfIs
<1>10. \A j \in Job : j # <<k, p>> => jobs'[j] = x[j]
  BY <1>7
<1>11. OneEach(jobs')
  BY <1>1, <1>10, OneEachSame
<1>12. Counted(jobs', target', activity', loading')
  <2> DEFINE y == <<k, p>>
             a2 == activity'
             l2 == loading'
             n == jobs'
             t == target'
  <2>1. /\ x \in [Job -> Nat] /\ n \in [Job -> Nat] /\ y \in Job
        /\ \A j \in Job : j # y => n[j] = x[j]
        /\ Counted(x, t, act, ldg)
        /\ c \in Cont /\ t[DocArg(y)] = c
        /\ a2 \in [Cont -> Nat] /\ l2 \in [Cont -> Nat]
        /\ \A d \in Cont : d # c => a2[d] = act[d] /\ l2[d] = ldg[d]
    BY <1>0, <1>2, <1>3, <1>5, <1>6, <1>7, <1>10
  <2>2. /\ a2[c] + x[y] * EndsOf(y) = act[c] + n[y] * EndsOf(y)
        /\ l2[c] + (IF x[y] > 0 /\ IsLoad(y) THEN 1 ELSE 0)
             = ldg[c] + (IF n[y] > 0 /\ IsLoad(y) THEN 1 ELSE 0)
    BY <1>3, <1>6, <1>8, <1>9
  <2> HIDE DEF y, a2, l2, n, t
  <2>3. Counted(n, t, a2, l2)
    BY ONLY <2>1, <2>2, OneJobCounted
  <2> QED
    BY <2>3 DEF n, t, a2, l2
<1> QED
  BY <1>11, <1>12

CNext == OneEach(jobs') /\ Counted(jobs', target', activity', loading')

LEMMA CountedNow ==
  ASSUME CInv
  PROVE  /\ activity \in [Cont -> Nat] /\ loading \in [Cont -> Nat]
         /\ \A c \in Cont : /\ activity[c] = Ends(jobs, target, c)
                            /\ loading[c] = Loadings(jobs, target, c)
         /\ IsFiniteSet(Pending(jobs)) /\ OneEach(jobs) /\ IInv
         /\ Counted(jobs, target, activity, loading)
         /\ Sound(jobs, target, frames, shown, img, wait, reflow, owed, stopped)
BY DEF CInv, Counted, IInv

LEMMA HistoryCounted ==
  ASSUME CInv, NEW p \in Doc, NEW c \in Cont, History(p, c)
  PROVE  CNext
<1> DEFINE x == Cleared(jobs, c)
           k == IF p \in Intern THEN "parse" ELSE "load"
<1>1. /\ Asked(target, p, c, target')
      /\ jobs' = Put(x.jobs, <<k, p>>)
      /\ activity' = [activity EXCEPT ![c] = Ended(@, x.ends) + 2]
      /\ loading' = [loading EXCEPT ![c] = Ended(@, x.loads) + 1]
  BY DEF History, Asked
<1>2. x.ends = activity[c] /\ x.loads = loading[c]
      /\ x.ends \in Nat /\ x.loads \in Nat
  BY CountedNow, ClearedCounted
<1>3. Ended(activity[c], x.ends) = 0 /\ Ended(loading[c], x.loads) = 0
  BY <1>2 DEF Ended
<1>4. /\ activity' \in [Cont -> Nat] /\ loading' \in [Cont -> Nat]
      /\ activity'[c] = 2 /\ loading'[c] = 1
      /\ \A d \in Cont : d # c => /\ activity'[d] = Ends(jobs, target, d)
                                  /\ loading'[d] = Loadings(jobs, target, d)
  <2> HIDE DEF x, k
  <2> QED
    BY <1>1, <1>3, CountedNow
<1>5. k \in {"load", "parse"}
  OBVIOUS
<1> HIDE DEF k
<1> QED
  BY <1>1, <1>4, <1>5, CountedNow, AfterCleared DEF CNext

\* new_parser() in a call that has begun what the parser ends, or that was a
\* loader's
LEMMA NewParserCounted ==
  ASSUME NEW js,
         Sound(js, target, frames, shown, img, wait, reflow, owed, stopped),
         OneEach(js), IsFiniteSet(Pending(js)),
         NEW c \in Cont, NEW p \in Doc, NEW begun \in Nat, NEW loads \in Nat,
         \/ target' = target /\ target[p] = c
         \/ Asked(target, p, c, target'),
         NewParser(p, c, js, begun, loads),
         activity \in [Cont -> Nat], loading \in [Cont -> Nat],
         \A d \in Cont : d # c => /\ activity[d] = Ends(js, target, d)
                                  /\ loading[d] = Loadings(js, target, d),
         activity[c] + begun = Ends(js, target, c) + 2,
         loading[c] + loads = Loadings(js, target, c) + 1
  PROVE  CNext
<1> DEFINE x == Cleared(js, c)
<1>1. /\ jobs' = Put(x.jobs, <<"parse", p>>)
      /\ activity' = [activity EXCEPT ![c] = Ended(@ + begun, x.ends)]
      /\ loading' = [loading EXCEPT ![c] = Ended(@ + loads, x.loads)]
  BY DEF NewParser
<1>2. /\ activity[c] + begun = x.ends + 2 /\ loading[c] + loads = x.loads + 1
      /\ x.ends \in Nat /\ x.loads \in Nat
  BY ClearedCounted
<1>3. /\ Ended(activity[c] + begun, x.ends) = 2
      /\ Ended(loading[c] + loads, x.loads) = 1
  BY <1>2 DEF Ended
<1>4. /\ activity' \in [Cont -> Nat] /\ loading' \in [Cont -> Nat]
      /\ activity'[c] = 2 /\ loading'[c] = 1
      /\ \A d \in Cont : d # c => /\ activity'[d] = Ends(js, target, d)
                                  /\ loading'[d] = Loadings(js, target, d)
  <2> HIDE DEF x
  <2> QED
    BY <1>1, <1>3
<1> QED
  BY <1>1, <1>4, AfterCleared DEF CNext

LEMMA LoadDoneCounted ==
  ASSUME CInv, NEW p \in Doc, LoadDone(p)
  PROVE  CNext
<1> DEFINE y == <<"load", p>>
           n == Taken(y)
           c == target[p]
<1>1. /\ y \in Job /\ DocArg(y) = p /\ Called(y)
      /\ NewParser(p, c, n, 0, 0) /\ target' = target
  BY DocJob DEF LoadDone
<1>2. Sound(n, target, frames, shown, img, wait, reflow, owed, stopped)
      /\ c \in Cont /\ jobs[y] = 1
  BY <1>1, CountedNow, LoadTaken DEF IInv, Sound, Loads, Has, Called
<1>3. /\ n \in [Job -> Nat]
      /\ \A j \in Job : n[j] = IF j = y THEN jobs[j] - 1 ELSE jobs[j]
  BY <1>1, CountedNow, TypedNow, TakenIs
<1>t. jobs \in [Job -> Nat]
  BY CountedNow, TypedNow
<1>4. EndsOf(y) = 2 /\ IsLoad(y)
  BY EndsOfIs
<1>5. OneEach(n)
  <2>1. \A j \in Job : j # <<"load", p>> => n[j] = jobs[j]
    BY <1>3
  <2> HIDE DEF n
  <2> QED
    BY <2>1, CountedNow, OneEachSame
<1> HIDE DEF n, y, c
<1>6. n[y] = 0
  BY <1>1, <1>2, <1>3
<1>7. \A j \in Job : j # y => n[j] = jobs[j]
  BY <1>3
<1>8. /\ IsFiniteSet(Pending(n))
      /\ \A d : target[DocArg(y)] # d => /\ Ends(n, target, d) = Ends(jobs, target, d)
                                         /\ Loadings(n, target, d) = Loadings(jobs, target, d)
      /\ \A d : target[DocArg(y)] = d =>
           /\ Ends(n, target, d) + jobs[y] * EndsOf(y)
                = Ends(jobs, target, d) + n[y] * EndsOf(y)
           /\ Loadings(n, target, d) + (IF jobs[y] > 0 /\ IsLoad(y) THEN 1 ELSE 0)
                = Loadings(jobs, target, d) + (IF n[y] > 0 /\ IsLoad(y) THEN 1 ELSE 0)
  <2>1. IsFiniteSet(Pending(jobs))
    BY CountedNow
  <2> QED
    BY ONLY <1>1, <1>3, <1>t, <1>7, <2>1, OneJobChanged
<1>9. target[DocArg(y)] = c
  BY <1>1 DEF c
<1>10. Ends(n, target, c) \in Nat /\ Loadings(n, target, c) \in Nat
  BY <1>3, <1>8, CountsNat
<1>11. /\ activity[c] + 0 = Ends(n, target, c) + 2
       /\ loading[c] + 0 = Loadings(n, target, c) + 1
       /\ \A d \in Cont : d # c => /\ activity[d] = Ends(n, target, d)
                                   /\ loading[d] = Loadings(n, target, d)
  <2>1. /\ Ends(n, target, c) + 2 = Ends(jobs, target, c)
        /\ Loadings(n, target, c) + 1 = Loadings(jobs, target, c)
    <3>1. Ends(jobs, target, c) \in Nat /\ Loadings(jobs, target, c) \in Nat
      BY <1>t, CountedNow, CountsNat
    <3> QED
      BY <3>1, <1>2, <1>4, <1>6, <1>8, <1>9, <1>10
  <2> QED
    BY <2>1, <1>2, <1>8, <1>9, CountedNow
<1>12. target' = target /\ target[p] = c
  BY <1>1 DEF c
<1> QED
  BY <1>1, <1>2, <1>5, <1>8, <1>11, <1>12, CountedNow, NewParserCounted

LEMMA StartLoadCounted ==
  ASSUME CInv, NEW p \in Doc, NEW c \in Cont, StartLoad(p, c)
  PROVE  CNext
<1>t. jobs \in [Job -> Nat] /\ target \in [Doc -> Cont \cup {Nil}]
  BY CountedNow, TypedNow
<1>1. Asked(target, p, c, target')
  BY DEF StartLoad, Asked
<1>2. CASE p \in Intern
  <2>1. NewParser(p, c, jobs, 2, 1)
    BY <1>2 DEF StartLoad
  <2>2. 2 \in Nat /\ 1 \in Nat
    OBVIOUS
  <2> QED
    BY <1>1, <2>1, <2>2, CountedNow, NewParserCounted
<1>3. CASE p \notin Intern
  <2> DEFINE y == <<"load", p>>
  <2>1. /\ jobs' = Put(jobs, y)
        /\ activity' = [activity EXCEPT ![c] = @ + 2]
        /\ loading' = [loading EXCEPT ![c] = @ + 1]
    BY <1>3 DEF StartLoad
  <2>2. y \in Job /\ DocArg(y) = p /\ EndsOf(y) = 2 /\ IsLoad(y)
    BY DocJob, EndsOfIs
  <2>3. /\ jobs' \in [Job -> Nat]
        /\ \A j \in Job : jobs'[j] = IF j = y THEN jobs[j] + 1 ELSE jobs[j]
    BY <1>t, <2>1, <2>2, PutIs
  <2>4. OneEach(jobs')
    <3>1. \A j \in Job : j # <<"load", p>> => jobs'[j] = jobs[j]
      BY <2>3
    <3> QED
      BY <3>1, CountedNow, OneEachSame
  <2> HIDE DEF y
  <2>5. jobs[y] = 0
    <3>1. Aimed(jobs, target, shown)
      BY DEF CInv, IInv, Sound
    <3> QED
      BY <3>1, <1>1, <1>t, <2>2 DEF Aimed, Asked
  <2>6. /\ Counted(jobs, target', activity, loading)
        /\ activity \in [Cont -> Nat] /\ loading \in [Cont -> Nat]
    <3>1. \A d \in Cont : /\ Ends(jobs, target', d) = Ends(jobs, target, d)
                          /\ Loadings(jobs, target', d) = Loadings(jobs, target, d)
      <4>1. Aimed(jobs, target, shown)
        BY DEF CInv, IInv, Sound
      <4> QED
        BY ONLY <1>1, <1>t, <4>1, p \in Doc, TargetCounted
    <3> QED
      BY <3>1, CountedNow DEF Counted
  <2> DEFINE a2 == activity'
             l2 == loading'
             n == jobs'
             t == target'
  <2>7. /\ jobs \in [Job -> Nat] /\ n \in [Job -> Nat] /\ y \in Job
        /\ \A j \in Job : j # y => n[j] = jobs[j]
        /\ Counted(jobs, t, activity, loading)
        /\ c \in Cont /\ t[DocArg(y)] = c
        /\ a2 \in [Cont -> Nat] /\ l2 \in [Cont -> Nat]
        /\ \A d \in Cont : d # c => a2[d] = activity[d] /\ l2[d] = loading[d]
    BY <1>1, <1>t, <2>1, <2>2, <2>3, <2>6 DEF Asked
  <2>8. /\ a2[c] + jobs[y] * EndsOf(y) = activity[c] + n[y] * EndsOf(y)
        /\ l2[c] + (IF jobs[y] > 0 /\ IsLoad(y) THEN 1 ELSE 0)
             = loading[c] + (IF n[y] > 0 /\ IsLoad(y) THEN 1 ELSE 0)
    <3>1. n[y] = 1
      BY <2>2, <2>3, <2>5
    <3> QED
      BY <3>1, <2>1, <2>2, <2>5, <2>6
  <2> HIDE DEF a2, l2, n, t
  <2>9. Counted(n, t, a2, l2)
    BY ONLY <2>7, <2>8, OneJobCounted
  <2> QED
    BY <2>4, <2>9 DEF n, t, a2, l2, CNext
<1> QED
  BY <1>2, <1>3

LEMMA EscapeCounted ==
  ASSUME CInv, NEW c \in Cont, Escape(c)
  PROVE  CNext
<1> DEFINE n == Unscheduled(jobs, c)
<1>t. jobs \in [Job -> Nat] /\ target \in [Doc -> Cont \cup {Nil}]
  BY CountedNow, TypedNow
<1>1. /\ jobs' = n /\ target' = target
      /\ activity' = [activity EXCEPT ![c] = Ended(@, EndsFor(jobs, c))]
      /\ loading' = [loading EXCEPT ![c] = Ended(@, LoadsFor(jobs, c))]
  BY DEF Escape
<1>2. EndsFor(jobs, c) = activity[c] /\ LoadsFor(jobs, c) = loading[c]
  BY <1>t, CountedNow, EndsTotal
<1>3. /\ activity' \in [Cont -> Nat] /\ loading' \in [Cont -> Nat]
      /\ activity'[c] = 0 /\ loading'[c] = 0
      /\ \A d \in Cont : d # c => activity'[d] = activity[d] /\ loading'[d] = loading[d]
  <2>1. Ended(activity[c], EndsFor(jobs, c)) = 0 /\ Ended(loading[c], LoadsFor(jobs, c)) = 0
    BY <1>2, CountedNow DEF Ended
  <2> QED
    BY <1>1, <2>1, CountedNow
<1>4. \A j \in Job : n[j] = IF jobs[j] > 0 /\ target[DocArg(j)] = c THEN 0 ELSE jobs[j]
  BY DEF Unscheduled, JobsFor, Pending, Hash
<1> HIDE DEF n
<1>5. IsFiniteSet(Pending(n))
  <2>1. Pending(n) \subseteq Pending(jobs)
    BY <1>4 DEF Pending
  <2> QED
    BY <2>1, CountedNow, FS_Subset
<1>6. OneEach(n)
  <2> SUFFICES ASSUME NEW i \in Img
               PROVE  n[<<"image", i>>] + n[<<"imgldr", i>>] <= 1
    BY DEF OneEach
  <2>1. <<"image", i>> \in Job /\ <<"imgldr", i>> \in Job
    BY ImgJob
  <2>2. jobs[<<"image", i>>] + jobs[<<"imgldr", i>>] <= 1
    BY CountedNow DEF OneEach
  <2>3. n[<<"image", i>>] \in {0, jobs[<<"image", i>>]}
        /\ n[<<"imgldr", i>>] \in {0, jobs[<<"imgldr", i>>]}
    BY <1>4, <2>1
  <2>4. jobs[<<"image", i>>] \in Nat /\ jobs[<<"imgldr", i>>] \in Nat
    BY <1>t, <2>1
  <2> QED
    BY <2>2, <2>3, <2>4
<1>7. Ends(n, target, c) = 0 /\ Loadings(n, target, c) = 0
  <2>1. Of(n, target, c) = {}
    BY <1>4 DEF Of
  <2>2. Total(Weights(n), {}) = 0
    BY FS_EmptySet, TotalStep
  <2> QED
    BY <2>1, <2>2, FS_EmptySet DEF Ends, Loadings
<1>8. ASSUME NEW d \in Cont, d # c
      PROVE  /\ Ends(n, target, d) = Ends(jobs, target, d)
             /\ Loadings(n, target, d) = Loadings(jobs, target, d)
  <2>1. Of(n, target, d) = Of(jobs, target, d)
    BY <1>4, <1>8 DEF Of
  <2>2. \A j \in Of(jobs, target, d) : Weights(jobs)[j] \in Nat
                                       /\ Weights(jobs)[j] = Weights(n)[j]
    <3>1. Weights(jobs) \in [Job -> Nat]
      BY <1>t, WeightsNat
    <3>2. \A j \in Of(jobs, target, d) : j \in Job /\ n[j] = jobs[j]
      BY <1>4, <1>8 DEF Of
    <3>3. \A j \in Job : n[j] = jobs[j] => Weights(jobs)[j] = Weights(n)[j]
      BY DEF Weights
    <3> QED
      BY <3>1, <3>2, <3>3
  <2>3. IsFiniteSet(Of(jobs, target, d))
    BY CountedNow, OfFinite
  <2>4. Total(Weights(jobs), Of(jobs, target, d)) = Total(Weights(n), Of(jobs, target, d))
    BY ONLY <2>2, <2>3, TotalSame
  <2> QED
    BY <2>1, <2>4 DEF Ends, Loadings
<1>9. Counted(n, target, activity', loading')
  BY <1>3, <1>5, <1>7, <1>8, CountedNow DEF Counted
<1> QED
  BY <1>1, <1>6, <1>9 DEF CNext

LEMMA EndedIs ==
  ASSUME NEW a \in Nat, NEW e \in Nat, e <= a
  PROVE  Ended(a, e) = a - e
BY DEF Ended

\* One more job that is not a document's loader or parser, ...
LEMMA PutCounted ==
  ASSUME NEW js \in [Job -> Nat], NEW tg, NEW act, NEW ldg, Counted(js, tg, act, ldg),
         NEW x \in Job, ~IsLoad(x), NEW d \in Cont, tg[DocArg(x)] = d,
         NEW act2, act2 = [act EXCEPT ![d] = act[d] + EndsOf(x)]
  PROVE  Counted(Put(js, x), tg, act2, ldg)
<1> DEFINE n == Put(js, x)
<1>1. /\ n \in [Job -> Nat]
      /\ \A j \in Job : n[j] = IF j = x THEN js[j] + 1 ELSE js[j]
  BY PutIs
<1>2. act \in [Cont -> Nat] /\ ldg \in [Cont -> Nat]
  BY DEF Counted
<1>3. EndsOf(x) \in {0, 1, 2}
  BY EndsOfNat
<1>4. /\ act2 \in [Cont -> Nat] /\ act2[d] = act[d] + EndsOf(x)
      /\ \A c \in Cont : c # d => act2[c] = act[c] /\ ldg[c] = ldg[c]
  BY <1>2, <1>3
<1> HIDE DEF n
<1>5. \A j \in Job : j # x => n[j] = js[j]
  BY <1>1
<1>6. act2[d] + js[x] * EndsOf(x) = act[d] + n[x] * EndsOf(x)
  <2>1. n[x] = js[x] + 1 /\ js[x] \in Nat /\ act[d] \in Nat
    BY <1>1, <1>2
  <2> QED
    BY <2>1, <1>3, <1>4
<1>7. ldg[d] + (IF js[x] > 0 /\ IsLoad(x) THEN 1 ELSE 0)
        = ldg[d] + (IF n[x] > 0 /\ IsLoad(x) THEN 1 ELSE 0)
  OBVIOUS
<1>8. Counted(n, tg, act2, ldg)
  <2>1. /\ js \in [Job -> Nat] /\ x \in Job /\ d \in Cont /\ tg[DocArg(x)] = d
        /\ Counted(js, tg, act, ldg)
    OBVIOUS
  <2> QED
    BY ONLY <2>1, <1>1, <1>2, <1>4, <1>5, <1>6, <1>7, OneJobCounted
<1> QED
  BY <1>8 DEF n

\* ... and one less
LEMMA TakenCounted ==
  ASSUME CInv, NEW x \in Job, ~IsLoad(x), Called(x),
         NEW d \in Cont, target[DocArg(x)] = d
  PROVE  /\ activity[d] - EndsOf(x) \in Nat /\ EndsOf(x) \in Nat
         /\ Counted(Taken(x), target, [activity EXCEPT ![d] = activity[d] - EndsOf(x)],
                    loading)
<1> DEFINE n == Taken(x)
           act2 == [activity EXCEPT ![d] = activity[d] - EndsOf(x)]
<1>t. jobs \in [Job -> Nat] /\ activity \in [Cont -> Nat] /\ loading \in [Cont -> Nat]
      /\ IsFiniteSet(Pending(jobs)) /\ Counted(jobs, target, activity, loading)
      /\ activity[d] = Ends(jobs, target, d)
  BY CountedNow, TypedNow
<1>1. /\ n \in [Job -> Nat]
      /\ \A j \in Job : n[j] = IF j = x THEN jobs[j] - 1 ELSE jobs[j]
  BY <1>t, TakenIs
<1>2. EndsOf(x) \in {0, 1, 2}
  BY EndsOfNat
<1> HIDE DEF n
<1>3. \A j \in Job : j # x => n[j] = jobs[j]
  BY <1>1
<1>4. IsFiniteSet(Pending(n))
      /\ Ends(n, target, d) + jobs[x] * EndsOf(x) = Ends(jobs, target, d) + n[x] * EndsOf(x)
  BY <1>t, <1>1, <1>3, OneJobChanged
<1>5. Ends(n, target, d) \in Nat
  BY <1>1, <1>4, CountsNat
<1>6. n[x] = jobs[x] - 1 /\ jobs[x] \in Nat /\ n[x] \in Nat /\ activity[d] \in Nat
  BY <1>1, <1>t
<1>7. activity[d] - EndsOf(x) = Ends(n, target, d)
  BY <1>2, <1>4, <1>5, <1>6, <1>t
<1>8. /\ act2 \in [Cont -> Nat] /\ act2[d] = activity[d] - EndsOf(x)
      /\ \A c \in Cont : c # d => act2[c] = activity[c] /\ loading[c] = loading[c]
  BY <1>5, <1>7, <1>t
<1> HIDE DEF act2
<1>9. act2[d] + jobs[x] * EndsOf(x) = activity[d] + n[x] * EndsOf(x)
  BY <1>2, <1>6, <1>8
<1>10. loading[d] + (IF jobs[x] > 0 /\ IsLoad(x) THEN 1 ELSE 0)
         = loading[d] + (IF n[x] > 0 /\ IsLoad(x) THEN 1 ELSE 0)
  OBVIOUS
<1>11. Counted(n, target, act2, loading)
  BY <1>t, <1>1, <1>3, <1>8, <1>9, <1>10, OneJobCounted
<1> QED
  BY <1>2, <1>5, <1>7, <1>11 DEF n, act2

LEMMA TakenOneEach ==
  ASSUME CInv, NEW x \in Job, Called(x)
  PROVE  OneEach(Taken(x))
<1> DEFINE n == Taken(x)
<1>t. jobs \in [Job -> Nat] /\ OneEach(jobs)
  BY CountedNow, TypedNow
<1>1. /\ n \in [Job -> Nat]
      /\ \A j \in Job : n[j] = IF j = x THEN jobs[j] - 1 ELSE jobs[j]
  BY <1>t, TakenIs
<1> HIDE DEF n
<1>2. \A j \in Job : n[j] <= jobs[j] /\ n[j] \in Nat /\ jobs[j] \in Nat
  BY <1>1, <1>t
<1>3. OneEach(n)
  <2> SUFFICES ASSUME NEW i \in Img
               PROVE  n[<<"image", i>>] + n[<<"imgldr", i>>] <= 1
    BY DEF OneEach
  <2>1. <<"image", i>> \in Job /\ <<"imgldr", i>> \in Job
    BY ImgJob
  <2>2. jobs[<<"image", i>>] + jobs[<<"imgldr", i>>] <= 1
    BY <1>t DEF OneEach
  <2> QED
    BY <2>1, <2>2, <1>2
<1> QED
  BY <1>3 DEF n

\* The container of a document that is there
LEMMA AliveTarget ==
  ASSUME CInv, NEW p \in AliveIn(jobs, target, shown)
  PROVE  p \in Doc /\ target[p] \in Cont
<1>1. target \in [Doc -> Cont \cup {Nil}]
  BY CountedNow, TypedNow
<1> QED
  BY <1>1 DEF AliveIn

\* A job of an image is called: its container, and what the window has counted
LEMMA ImageTaken ==
  ASSUME CInv, NEW k \in {"image", "imgldr"}, NEW i \in Img, Called(<<k, i>>)
  PROVE  LET x == <<k, i>>
             d == target[DocOf[i]]
         IN  /\ x \in Job /\ DocArg(x) = DocOf[i] /\ ~IsLoad(x)
             /\ DocOf[i] \in Doc /\ d \in Cont
             /\ EndsOf(x) = IF k = "image" THEN 1 ELSE 2
             /\ activity[d] - EndsOf(x) \in Nat /\ activity[d] \in Nat
             /\ Counted(Taken(x), target,
                        [activity EXCEPT ![d] = activity[d] - EndsOf(x)], loading)
             /\ OneEach(Taken(x)) /\ Taken(x) \in [Job -> Nat]
<1> DEFINE x == <<k, i>>
           d == target[DocOf[i]]
<1>1. x \in Job /\ DocArg(x) = DocOf[i] /\ DocOf[i] \in Doc
  BY ImgJob
<1>2. EndsOf(x) = (IF k = "image" THEN 1 ELSE 2) /\ ~IsLoad(x)
  BY EndsOfIs
<1>3. d \in Cont
  <2>1. DocOf[i] \in AliveIn(jobs, target, shown)
    BY ImageWorks, CountedNow DEF Called
  <2> QED
    BY <2>1, AliveTarget
<1>4. Called(x) /\ target[DocArg(x)] = d
  BY <1>1
<1>a. activity[d] \in Nat
  BY <1>3, CountedNow
<1>b. Taken(x) \in [Job -> Nat]
  BY <1>1, <1>4, CountedNow, TypedNow, TakenIs
<1> HIDE DEF x, d
<1>5. /\ activity[d] - EndsOf(x) \in Nat
      /\ Counted(Taken(x), target, [activity EXCEPT ![d] = activity[d] - EndsOf(x)],
                 loading)
  BY <1>1, <1>2, <1>3, <1>4, TakenCounted
<1>6. OneEach(Taken(x))
  BY <1>1, <1>4, TakenOneEach
<1> QED
  BY <1>1, <1>2, <1>3, <1>5, <1>6, <1>a, <1>b DEF x, d

\* A layout is nothing that a window counts.
LEMMA DeferCounted ==
  ASSUME NEW js \in [Job -> Nat], NEW act, OneEach(js),
         Counted(js, target, act, loading),
         NEW p \in Doc, target[p] \in Cont, Defer(p, js)
  PROVE  OneEach(jobs') /\ Counted(jobs', target, act, loading)
<1> DEFINE y == <<"reflow", p>>
           d == target[p]
<1>1. jobs' = js \/ jobs' = Put(js, y)
  BY DEF Defer
<1>2. y \in Job /\ DocArg(y) = p /\ EndsOf(y) = 0 /\ ~IsLoad(y)
  BY DocJob, EndsOfIs
<1>3. act = [act EXCEPT ![d] = act[d] + EndsOf(y)]
  <2>1. act \in [Cont -> Nat]
    BY DEF Counted
  <2>2. act[d] + EndsOf(y) = act[d]
    BY <1>2, <2>1
  <2> HIDE DEF d, y
  <2> QED
    BY <2>1, <2>2
<1>4. \A j \in Job : j # <<"reflow", p>> => Put(js, y)[j] = js[j]
  BY <1>2, PutIs
<1>5. target[DocArg(y)] = d /\ d \in Cont
  BY <1>2
<1> HIDE DEF d
<1>6. OneEach(Put(js, y))
  BY <1>4, OneEachSame
<1> HIDE DEF y
<1>7. Counted(Put(js, y), target, act, loading)
  BY <1>2, <1>3, <1>5, PutCounted
<1> QED
  BY <1>1, <1>6, <1>7

LEMMA ImageDoneCounted ==
  ASSUME CInv, NEW k \in {"image", "imgldr"}, NEW i \in Img, Called(<<k, i>>),
         NEW e, e = IF k = "image" THEN 1 ELSE 2, ImageDone(i, Taken(<<k, i>>), e)
  PROVE  CNext
<1> DEFINE x == <<k, i>>
           n == Taken(x)
           p == DocOf[i]
           d == target[p]
<1>1. /\ x \in Job /\ p \in Doc /\ d \in Cont
      /\ EndsOf(x) = e /\ activity[d] - e \in Nat /\ activity[d] \in Nat
      /\ Counted(n, target, [activity EXCEPT ![d] = activity[d] - e], loading)
      /\ OneEach(n) /\ n \in [Job -> Nat]
  BY ImageTaken
<1>2. /\ activity' = [activity EXCEPT ![d] = Ended(@, e)]
      /\ target' = target /\ loading' = loading
      /\ jobs' = n \/ Defer(p, n)
  BY DEF ImageDone
<1> HIDE DEF x, n, p, d
<1>3. activity' = [activity EXCEPT ![d] = activity[d] - e]
  <2>1. Ended(activity[d], e) = activity[d] - e
    <3>1. e \in Nat /\ e <= activity[d]
      BY <1>1
    <3> QED
      BY <3>1, <1>1, EndedIs
  <2> QED
    BY <1>2, <2>1
<1>4. Counted(n, target, activity', loading)
  BY <1>1, <1>3
<1>5. target[p] \in Cont
  BY <1>1 DEF d
<1>6. OneEach(jobs') /\ Counted(jobs', target, activity', loading)
  BY <1>1, <1>2, <1>4, <1>5, DeferCounted
<1> QED
  BY <1>2, <1>6 DEF CNext

LEMMA ImageJobCounted ==
  ASSUME CInv, NEW i \in Img, ImageJob(i) \/ ImageLdr(i)
  PROVE  CNext
<1>1. CASE ImageJob(i)
  BY <1>1, ImageDoneCounted DEF ImageJob
<1>2. CASE ImageLdr(i)
  BY <1>2, ImageDoneCounted DEF ImageLdr
<1> QED
  BY <1>1, <1>2

LEMMA ImageFailsCounted ==
  ASSUME CInv, NEW i \in Img, ImageBad(i) \/ ImageLdrFails(i)
  PROVE  CNext
<1> DEFINE k == IF ImageBad(i) THEN "image" ELSE "imgldr"
           x == <<k, i>>
           d == target[DocOf[i]]
<1>1. /\ Called(x) /\ jobs' = Taken(x) /\ target' = target /\ loading' = loading
      /\ \/ k = "image" /\ activity' = [activity EXCEPT ![d] = Ended(@ + 1, 2)]
         \/ k = "imgldr" /\ activity' = [activity EXCEPT ![d] = Ended(@, 2)]
  BY DEF ImageBad, ImageLdrFails
<1>2. /\ EndsOf(x) = IF k = "image" THEN 1 ELSE 2
      /\ d \in Cont /\ activity[d] - EndsOf(x) \in Nat /\ activity[d] \in Nat
      /\ Counted(Taken(x), target, [activity EXCEPT ![d] = activity[d] - EndsOf(x)],
                 loading)
      /\ OneEach(Taken(x))
  BY <1>1, ImageTaken
<1> HIDE DEF x, d, k
<1>3. activity' = [activity EXCEPT ![d] = activity[d] - EndsOf(x)]
  <2>1. CASE k = "image" /\ activity' = [activity EXCEPT ![d] = Ended(@ + 1, 2)]
    <3>1. Ended(activity[d] + 1, 2) = activity[d] - EndsOf(x)
      BY <1>2, <2>1 DEF Ended
    <3> QED
      BY <2>1, <3>1
  <2>2. CASE k = "imgldr" /\ activity' = [activity EXCEPT ![d] = Ended(@, 2)]
    <3>1. Ended(activity[d], 2) = activity[d] - EndsOf(x)
      BY <1>2, <2>2 DEF Ended
    <3> QED
      BY <2>2, <3>1
  <2> QED
    BY <1>1, <2>1, <2>2
<1> QED
  BY <1>1, <1>2, <1>3 DEF CNext

LEMMA ImageFetchCounted ==
  ASSUME CInv, NEW i \in Img, ImageFetch(i)
  PROVE  CNext
<1> DEFINE x == <<"image", i>>
           y == <<"imgldr", i>>
           n == Taken(x)
           d == target[DocOf[i]]
           act == [activity EXCEPT ![d] = activity[d] - EndsOf(x)]
<1>1. /\ Called(x) /\ jobs' = Put(n, y) /\ target' = target /\ loading' = loading
      /\ activity' = [activity EXCEPT ![d] = @ + 1]
  BY DEF ImageFetch
<1>2. /\ x \in Job /\ DocArg(x) = DocOf[i]
      /\ EndsOf(x) = 1 /\ d \in Cont
      /\ activity[d] - EndsOf(x) \in Nat /\ activity[d] \in Nat
      /\ Counted(n, target, act, loading) /\ n \in [Job -> Nat]
  BY <1>1, ImageTaken
<1>3. y \in Job /\ DocArg(y) = DocOf[i] /\ EndsOf(y) = 2 /\ ~IsLoad(y) /\ x # y
  BY ImgJob, EndsOfIs
<1>4. OneEach(Put(n, y))
  <2>t. jobs \in [Job -> Nat] /\ OneEach(jobs)
    BY CountedNow, TypedNow
  <2>1. \A j \in Job : n[j] = IF j = x THEN jobs[j] - 1 ELSE jobs[j]
    BY <2>t, <1>1, <1>2, TakenIs
  <2> HIDE DEF n
  <2>2. \A j \in Job : Put(n, y)[j] = IF j = y THEN n[j] + 1 ELSE n[j]
    BY <1>2, <1>3, PutIs
  <2>3. \A k \in {"image", "imgldr"}, h \in Img : h # i =>
          <<k, h>> \in Job /\ Put(n, y)[<<k, h>>] = jobs[<<k, h>>]
    <3> SUFFICES ASSUME NEW k \in {"image", "imgldr"}, NEW h \in Img, h # i
                 PROVE  <<k, h>> \in Job /\ Put(n, y)[<<k, h>>] = jobs[<<k, h>>]
      OBVIOUS
    <3>1. <<k, h>> \in Job
      BY ImgJob
    <3>2. <<k, h>> # x /\ <<k, h>> # y
      OBVIOUS
    <3> QED
      BY <3>1, <3>2, <2>1, <2>2
  <2> SUFFICES ASSUME NEW h \in Img
               PROVE  Put(n, y)[<<"image", h>>] + Put(n, y)[<<"imgldr", h>>] <= 1
    BY DEF OneEach
  <2>4. CASE h # i
    BY <2>t, <2>3, <2>4 DEF OneEach
  <2>5. CASE h = i
    <3>1. Put(n, y)[x] = jobs[x] - 1 /\ Put(n, y)[y] = jobs[y] + 1
      BY <1>2, <1>3, <2>1, <2>2
    <3>2. jobs[x] + jobs[y] <= 1 /\ jobs[x] \in Nat /\ jobs[y] \in Nat
      BY <1>2, <1>3, <2>t DEF OneEach
    <3>3. Put(n, y)[x] + Put(n, y)[y] <= 1
      BY <3>1, <3>2
    <3> QED
      BY <2>5, <3>3
  <2> QED
    BY <2>4, <2>5
<1>5. activity \in [Cont -> Nat]
  BY CountedNow
<1> HIDE DEF x, y, n, d
<1>6. activity' = [act EXCEPT ![d] = act[d] + EndsOf(y)]
  <2>1. act[d] = activity[d] - 1
    BY <1>2, <1>5
  <2>2. act[d] + EndsOf(y) = activity[d] + 1
    BY <2>1, <1>2, <1>3
  <2>3. act \in [Cont -> Nat]
    BY <1>2, <1>5
  <2> QED
    BY <2>2, <2>3, <1>1, <1>2, <1>5
<1>7. target[DocArg(y)] = d
  BY <1>3 DEF d
<1> HIDE DEF act
<1>8. Counted(Put(n, y), target, activity', loading)
  BY ONLY <1>2, <1>3, <1>6, <1>7, PutCounted
<1> QED
  BY <1>1, <1>4, <1>8 DEF CNext

\* One more job for an image that has none, while only ~ReloadBusy is allowed
LEMMA ReloadCounted ==
  ASSUME CInv, ~ReloadBusy, NEW i \in Img, Reload(i)
  PROVE  CNext
<1> DEFINE x == <<"image", i>>
           y == <<"imgldr", i>>
           d == target[DocOf[i]]
<1>1. /\ img[i] \in {"empty", "data"} /\ ~Called(x) /\ ~Called(y)
      /\ jobs' = Put(jobs, x) /\ target' = target /\ loading' = loading
      /\ activity' = [activity EXCEPT ![d] = @ + 1]
  BY DEF Reload
<1>2. x \in Job /\ DocArg(x) = DocOf[i] /\ EndsOf(x) = 1 /\ ~IsLoad(x)
      /\ y \in Job /\ x # y /\ DocOf[i] \in Doc
  BY ImgJob, EndsOfIs
<1>t. jobs \in [Job -> Nat] /\ OneEach(jobs) /\ activity \in [Cont -> Nat]
      /\ target \in [Doc -> Cont \cup {Nil}]
      /\ Counted(jobs, target, activity, loading)
  BY CountedNow, TypedNow
<1>3. d \in Cont
  BY <1>1, <1>2, <1>t DEF CInv, IInv, Sound, Works
<1>4. OneEach(Put(jobs, x))
  <2>1. \A j \in Job : Put(jobs, x)[j] = IF j = x THEN jobs[j] + 1 ELSE jobs[j]
    BY <1>2, <1>t, PutIs
  <2> SUFFICES ASSUME NEW h \in Img
               PROVE  Put(jobs, x)[<<"image", h>>] + Put(jobs, x)[<<"imgldr", h>>] <= 1
    BY DEF OneEach
  <2>2. CASE h # i
    <3>1. <<"image", h>> \in Job /\ <<"imgldr", h>> \in Job
      BY ImgJob
    <3>2. <<"image", h>> # x /\ <<"imgldr", h>> # x
      BY <2>2
    <3> QED
      BY <3>1, <3>2, <2>1, <1>t DEF OneEach
  <2>3. CASE h = i
    <3>1. jobs[x] = 0 /\ jobs[y] = 0
      BY <1>1, <1>2, <1>t DEF Called
    <3>2. Put(jobs, x)[x] = 1 /\ Put(jobs, x)[y] = 0
      BY <3>1, <1>2, <2>1
    <3>3. Put(jobs, x)[x] + Put(jobs, x)[y] <= 1
      BY <3>2
    <3> QED
      BY <2>3, <3>3
  <2> QED
    BY <2>2, <2>3
<1>5. target[DocArg(x)] = d
  BY <1>2
<1> HIDE DEF x, y, d
<1>6. activity' = [activity EXCEPT ![d] = activity[d] + EndsOf(x)]
  BY <1>1, <1>2
<1>7. Counted(Put(jobs, x), target, activity', loading)
  BY ONLY <1>2, <1>3, <1>5, <1>6, <1>t, PutCounted
<1> QED
  BY <1>1, <1>4, <1>7 DEF CNext

LEMMA ReflowCounted ==
  ASSUME CInv, NEW p \in Doc, ReflowStale(p) \/ ReflowRun(p)
  PROVE  CNext
<1> DEFINE x == <<"reflow", p>>
           d == target[p]
<1>1. /\ Called(x) /\ jobs' = Taken(x)
      /\ target' = target /\ activity' = activity /\ loading' = loading
  BY DEF ReflowStale, ReflowRun
<1>2. x \in Job /\ DocArg(x) = p /\ EndsOf(x) = 0 /\ ~IsLoad(x)
  BY DocJob, EndsOfIs
<1>t. target \in [Doc -> Cont \cup {Nil}] /\ activity \in [Cont -> Nat]
  BY CountedNow, TypedNow
<1>3. d \in Cont /\ target[DocArg(x)] = d
  BY <1>1, <1>2, <1>t DEF CInv, IInv, Sound, Aimed, Called
<1> HIDE DEF x, d
<1>4. Counted(Taken(x), target, [activity EXCEPT ![d] = activity[d] - EndsOf(x)], loading)
  BY <1>1, <1>2, <1>3, TakenCounted
<1>5. [activity EXCEPT ![d] = activity[d] - EndsOf(x)] = activity
  <2>1. activity[d] - EndsOf(x) = activity[d]
    BY <1>2, <1>3, <1>t
  <2> QED
    BY <2>1, <1>t
<1>6. OneEach(Taken(x))
  BY <1>1, <1>2, TakenOneEach
<1> QED
  BY <1>1, <1>4, <1>5, <1>6 DEF CNext

LEMMA ResumeJobCounted ==
  ASSUME CInv, NEW p \in Doc, ResumeJob(p)
  PROVE  CNext
<1> DEFINE x == <<"style", p>>
           d == target[p]
<1>1. /\ Called(x) /\ jobs' = Taken(x) /\ target' = target /\ loading' = loading
      /\ activity' = [activity EXCEPT ![d] = Ended(@, 1)]
  BY DEF ResumeJob
<1>2. x \in Job /\ DocArg(x) = p /\ EndsOf(x) = 1 /\ ~IsLoad(x)
  BY DocJob, EndsOfIs
<1>t. target \in [Doc -> Cont \cup {Nil}] /\ activity \in [Cont -> Nat]
  BY CountedNow, TypedNow
<1>3. d \in Cont /\ target[DocArg(x)] = d
  BY <1>1, <1>2, <1>t DEF CInv, IInv, Sound, Aimed, Called
<1> HIDE DEF x, d
<1>4. /\ activity[d] - EndsOf(x) \in Nat
      /\ Counted(Taken(x), target, [activity EXCEPT ![d] = activity[d] - EndsOf(x)],
                 loading)
  BY <1>1, <1>2, <1>3, TakenCounted
<1>5. activity' = [activity EXCEPT ![d] = activity[d] - EndsOf(x)]
  <2>1. Ended(activity[d], 1) = activity[d] - EndsOf(x)
    BY <1>2, <1>3, <1>4, <1>t DEF Ended
  <2> QED
    BY <1>1, <2>1
<1>6. OneEach(Taken(x))
  BY <1>1, <1>2, TakenOneEach
<1> QED
  BY <1>1, <1>4, <1>5, <1>6 DEF CNext

\* What a call of the parser has begun for the images s
LEMMA ScheduledCounted ==
  ASSUME CInv, NEW p \in Doc, Parses(p), NEW s \in Found(p)
  PROVE  /\ target[p] \in Cont
         /\ Begun(p, s) \in Nat
         /\ Scheduled(s) \in [Job -> Nat] /\ OneEach(Scheduled(s))
         /\ Counted(Scheduled(s), target,
                    [activity EXCEPT ![target[p]] = Begun(p, s)], loading)
<1> DEFINE n == Scheduled(s)
           Z == {<<"image", i>> : i \in Due(s)}
           g == Weights(jobs)
           h == Weights(n)
           d == target[p]
           S == Of(jobs, target, d)
<1>t. /\ jobs \in [Job -> Nat] /\ target \in [Doc -> Cont \cup {Nil}]
      /\ activity \in [Cont -> Nat] /\ loading \in [Cont -> Nat]
      /\ IsFiniteSet(Pending(jobs)) /\ OneEach(jobs) /\ IInv
  BY CountedNow, TypedNow
<1>0. d \in Cont
  BY <1>t, DocJob DEF IInv, Sound, Aimed, Parses, Called
<1>1. \A i \in Due(s) : /\ i \in Img /\ DocOf[i] = p
                        /\ <<"image", i>> \in Job /\ <<"imgldr", i>> \in Job
                        /\ DocArg(<<"image", i>>) = p
                        /\ jobs[<<"image", i>>] = 0 /\ jobs[<<"imgldr", i>>] = 0
  <2> TAKE i \in Due(s)
  <2>1. i \in Img /\ DocOf[i] = p /\ img[i] = "none"
    BY DEF Due, Found, Unborn
  <2>2. /\ <<"image", i>> \in Job /\ <<"imgldr", i>> \in Job
        /\ DocArg(<<"image", i>>) = p
    BY <2>1, ImgJob
  <2>3. ~(jobs[<<"image", i>>] > 0) /\ ~(jobs[<<"imgldr", i>>] > 0)
    BY <2>1, <1>t, ImageWorks
  <2> QED
    BY <2>1, <2>2, <2>3, <1>t
<1>2. IsFiniteSet(Due(s)) /\ Cardinality(Due(s)) \in Nat
  <2>1. Due(s) \subseteq {i \in Img : DocOf[i] = p}
    BY <1>1
  <2> QED
    BY <2>1, ImagesAssumption, FS_Subset, FS_CardinalityType
<1>3. IsFiniteSet(Z) /\ Cardinality(Z) = Cardinality(Due(s))
  BY <1>2, ImageJobs
<1>4. /\ n \in [Job -> Nat]
      /\ \A j \in Job : n[j] = IF j \in Z THEN 1 ELSE jobs[j]
  BY <1>t DEF Scheduled
<1>5. /\ Z \subseteq Job
      /\ \A z \in Z : jobs[z] = 0 /\ n[z] = 1 /\ EndsOf(z) = 1 /\ ~IsLoad(z)
                      /\ target[DocArg(z)] = d
  <2>1. ASSUME NEW i \in Due(s)
        PROVE  LET z == <<"image", i>>
               IN  /\ z \in Job /\ jobs[z] = 0
                   /\ EndsOf(z) = 1 /\ ~IsLoad(z) /\ target[DocArg(z)] = d
    BY <1>1, EndsOfIs
  <2>2. \A z \in Z : \E i \in Due(s) : z = <<"image", i>>
    OBVIOUS
  <2> HIDE DEF Z
  <2>3. \A z \in Z : /\ z \in Job /\ jobs[z] = 0
                      /\ EndsOf(z) = 1 /\ ~IsLoad(z) /\ target[DocArg(z)] = d
    BY <2>1, <2>2
  <2> QED
    BY <1>4, <2>3
<1>6. IsFiniteSet(Pending(n))
  <2>1. Pending(n) \subseteq Pending(jobs) \cup Z
    BY <1>4 DEF Pending
  <2>2. IsFiniteSet(Pending(jobs) \cup Z)
    BY <1>t, <1>3, FS_Union
  <2> QED
    BY <2>1, <2>2, FS_Subset
<1>7. OneEach(n)
  <2> SUFFICES ASSUME NEW i \in Img
               PROVE  n[<<"image", i>>] + n[<<"imgldr", i>>] <= 1
    BY DEF OneEach
  <2>1. <<"image", i>> \in Job /\ <<"imgldr", i>> \in Job
    BY ImgJob
  <2>2. <<"imgldr", i>> \notin Z
    OBVIOUS
  <2>3. <<"image", i>> \in Z => i \in Due(s)
    OBVIOUS
  <2> HIDE DEF Z, n
  <2>4. CASE <<"image", i>> \in Z
    BY <2>1, <2>2, <2>3, <2>4, <1>1, <1>4
  <2>5. CASE <<"image", i>> \notin Z
    BY <2>1, <2>2, <2>5, <1>4, <1>t DEF OneEach
  <2> QED
    BY <2>4, <2>5
<1> HIDE DEF n, Z, g, h
<1>8. S \cap Z = {} /\ Of(n, target, d) = S \cup Z
  BY <1>4, <1>5 DEF Of
<1>9. (\A j \in S \cup Z : g[j] \in Nat /\ h[j] \in Nat)
      /\ (\A j \in S : g[j] = h[j]) /\ (\A z \in Z : h[z] = 1)
  <2>1. g \in [Job -> Nat] /\ h \in [Job -> Nat]
    BY <1>4, <1>t, WeightsNat DEF g, h
  <2>2. \A j \in Job : g[j] = jobs[j] * EndsOf(j) /\ h[j] = n[j] * EndsOf(j)
    BY DEF g, h, Weights
  <2>3. S \subseteq Job
    BY DEF Of
  <2>4. \A j \in S : n[j] = jobs[j]
    BY <2>3, <1>4, <1>8
  <2> HIDE DEF S
  <2> QED
    BY <2>1, <2>2, <2>3, <2>4, <1>5
<1>10. IsFiniteSet(S)
  BY <1>t, OfFinite
<1>11. Ends(n, target, d) = Begun(p, s) /\ Begun(p, s) \in Nat
  <2>1. Ends(n, target, d) = Total(h, S \cup Z)
    BY <1>8 DEF Ends, h
  <2>2. activity[d] = Total(g, S) /\ activity[d] \in Nat
    BY <1>0, CountedNow DEF Ends, g
  <2> HIDE DEF S
  <2>3. Total(h, S \cup Z) = Total(h, S) + Total(h, Z)
    BY ONLY <1>3, <1>8, <1>9, <1>10, TotalOfTwo
  <2>4. Total(g, S) = Total(h, S)
    <3>1. \A j \in S : g[j] \in Nat /\ g[j] = h[j]
      BY <1>9
    <3> QED
      BY ONLY <3>1, <1>10, TotalSame
  <2>5. Total(h, Z) = Cardinality(Z)
    BY ONLY <1>3, <1>9, TotalOfOnes
  <2>6. Begun(p, s) = activity[d] + Cardinality(Due(s))
    BY DEF Begun
  <2> QED
    BY <2>1, <2>2, <2>3, <2>4, <2>5, <2>6, <1>2, <1>3
<1>12. Loadings(n, target, d) = Loadings(jobs, target, d)
  <2>1. {j \in S \cup Z : IsLoad(j)} = {j \in S : IsLoad(j)}
    BY <1>5
  <2> QED
    BY <2>1, <1>8 DEF Loadings
<1>13. ASSUME NEW c \in Cont, c # d
       PROVE  /\ Ends(n, target, c) = Ends(jobs, target, c)
              /\ Loadings(n, target, c) = Loadings(jobs, target, c)
  <2>1. Of(n, target, c) = Of(jobs, target, c)
    BY <1>4, <1>5, <1>13 DEF Of
  <2>2. \A j \in Of(jobs, target, c) : Weights(jobs)[j] \in Nat
                                       /\ Weights(jobs)[j] = Weights(n)[j]
    <3>1. Weights(jobs) \in [Job -> Nat]
      BY <1>t, WeightsNat
    <3>2. \A j \in Of(jobs, target, c) : j \in Job /\ n[j] = jobs[j]
      BY <1>4, <1>5, <1>13 DEF Of
    <3>3. \A j \in Job : n[j] = jobs[j] => Weights(jobs)[j] = Weights(n)[j]
      BY DEF Weights
    <3> QED
      BY <3>1, <3>2, <3>3
  <2>3. IsFiniteSet(Of(jobs, target, c))
    BY <1>t, OfFinite
  <2>4. Total(Weights(jobs), Of(jobs, target, c)) = Total(Weights(n), Of(jobs, target, c))
    BY ONLY <2>2, <2>3, TotalSame
  <2> QED
    BY <2>1, <2>4 DEF Ends, Loadings
<1> DEFINE act == [activity EXCEPT ![d] = Begun(p, s)]
<1>14. /\ act \in [Cont -> Nat] /\ act[d] = Begun(p, s)
       /\ \A c \in Cont : c # d => act[c] = activity[c]
  BY <1>t, <1>0, <1>11
<1> HIDE DEF act, d, S
<1>15. \A c \in Cont : act[c] = Ends(n, target, c) /\ loading[c] = Loadings(n, target, c)
  BY <1>11, <1>12, <1>13, <1>14, CountedNow
<1>16. Counted(n, target, act, loading)
  BY <1>t, <1>6, <1>14, <1>15 DEF Counted
<1> QED
  BY <1>0, <1>4, <1>7, <1>11, <1>16 DEF n, act, d

LEMMA ParseMoreCounted ==
  ASSUME CInv, NEW p \in Doc, ParseMore(p)
  PROVE  CNext
<1>1. Parses(p) /\ target' = target /\ loading' = loading
  BY DEF ParseMore
<1>2. PICK s \in Found(p) :
        /\ jobs' = Scheduled(s)
        /\ activity' = [activity EXCEPT ![target[p]] = Begun(p, s)]
  BY DEF ParseMore
<1>3. /\ OneEach(Scheduled(s))
      /\ Counted(Scheduled(s), target,
                 [activity EXCEPT ![target[p]] = Begun(p, s)], loading)
  BY <1>1, ScheduledCounted
<1> QED
  BY <1>1, <1>2, <1>3 DEF CNext

LEMMA ParseSheetCounted ==
  ASSUME CInv, NEW p \in Doc, ParseSheet(p)
  PROVE  CNext
<1> DEFINE x == <<"style", p>>
           d == target[p]
<1>1. Parses(p) /\ target' = target /\ loading' = loading
  BY DEF ParseSheet
<1>2. PICK s \in Found(p), sheet \in Sheets :
        IF sheet = "net"
        THEN /\ jobs' = Put(Scheduled(s), x)
             /\ activity' = [activity EXCEPT ![d] = Begun(p, s) + 1]
        ELSE /\ jobs' = Scheduled(s)
             /\ activity' = [activity EXCEPT ![d] = Ended(Begun(p, s) + 1, 1)]
  BY DEF ParseSheet
<1> DEFINE n == Scheduled(s)
           b == Begun(p, s)
           act == [activity EXCEPT ![d] = b]
<1>3. /\ d \in Cont /\ b \in Nat /\ n \in [Job -> Nat] /\ OneEach(n)
      /\ Counted(n, target, act, loading)
  BY <1>1, ScheduledCounted
<1>4. /\ x \in Job /\ DocArg(x) = p /\ EndsOf(x) = 1 /\ ~IsLoad(x)
      /\ target[DocArg(x)] = d
  BY DocJob, EndsOfIs
<1>t. activity \in [Cont -> Nat]
  BY CountedNow
<1>5. \/ jobs' = Put(n, x) /\ activity' = [activity EXCEPT ![d] = b + 1]
      \/ jobs' = n /\ activity' = [activity EXCEPT ![d] = Ended(b + 1, 1)]
  BY <1>2
<1>6. \A j \in Job : j # <<"style", p>> => Put(n, x)[j] = n[j]
  <2> HIDE DEF n
  <2> QED
    BY <1>3, <1>4, PutIs
<1> HIDE DEF n, b, d
<1>7. OneEach(Put(n, x))
  BY <1>3, <1>6, OneEachSame
<1> HIDE DEF x
<1>8. CASE jobs' = Put(n, x) /\ activity' = [activity EXCEPT ![d] = b + 1]
  <2>1. act[d] + EndsOf(x) = b + 1
    BY <1>3, <1>4, <1>t
  <2>2. activity' = [act EXCEPT ![d] = act[d] + EndsOf(x)]
    BY <1>8, <1>t, <1>3, <2>1
  <2> HIDE DEF act
  <2>3. Counted(Put(n, x), target, activity', loading)
    BY ONLY <1>3, <1>4, <2>2, PutCounted
  <2> QED
    BY <2>3, <1>1, <1>7, <1>8 DEF CNext
<1>9. CASE jobs' = n /\ activity' = [activity EXCEPT ![d] = Ended(b + 1, 1)]
  <2>1. Ended(b + 1, 1) = b
    BY <1>3 DEF Ended
  <2>2. activity' = act
    BY <2>1, <1>9
  <2> QED
    BY <2>2, <1>1, <1>3, <1>9 DEF CNext
<1> QED
  BY <1>5, <1>8, <1>9

\* The end of a text ends what the loader of the document had begun.
LEMMA ParseEndCounted ==
  ASSUME CInv, NEW p \in Doc, ParseEnd(p)
  PROVE  CNext
<1> DEFINE x == <<"parse", p>>
           d == target[p]
<1>1. /\ Parses(p) /\ target' = target
      /\ loading' = [loading EXCEPT ![d] = Ended(@, 1)]
  BY DEF ParseEnd
<1>2. PICK s \in Found(p) :
        /\ jobs' = [Scheduled(s) EXCEPT ![x] = 0]
        /\ activity' = [activity EXCEPT ![d] = Ended(Begun(p, s), 2)]
  BY DEF ParseEnd
<1> DEFINE js == Scheduled(s)
           n == [js EXCEPT ![x] = 0]
           b == Begun(p, s)
           act == [activity EXCEPT ![d] = b]
<1>3. /\ d \in Cont /\ b \in Nat /\ js \in [Job -> Nat] /\ OneEach(js)
      /\ Counted(js, target, act, loading)
  BY <1>1, ScheduledCounted
<1>t. activity \in [Cont -> Nat] /\ loading \in [Cont -> Nat] /\ IInv
  BY CountedNow
<1>4. /\ x \in Job /\ DocArg(x) = p /\ EndsOf(x) = 2 /\ IsLoad(x)
      /\ target[DocArg(x)] = d
  BY DocJob, EndsOfIs
<1>5. js[x] = 1
  <2>1. js[x] = jobs[x]
    BY <1>1, <1>t, ScheduledSound
  <2>2. jobs[x] = 1
    BY <1>1, <1>t DEF Parses, Called, IInv, Sound, Parsers, Has
  <2> QED
    BY <2>1, <2>2
<1>a. activity' = [activity EXCEPT ![d] = Ended(b, 2)]
  BY <1>2
<1> HIDE DEF js, b, d
<1>6. /\ n \in [Job -> Nat] /\ n[x] = 0
      /\ \A j \in Job : j # x => n[j] = js[j]
  <2> HIDE DEF x
  <2> QED
    BY <1>3, <1>4
<1>7. OneEach(n)
  <2> HIDE DEF n
  <2> QED
    BY <1>3, <1>6, OneEachSame
<1> HIDE DEF x, n
<1>8. IsFiniteSet(Pending(js)) /\ act[d] = Ends(js, target, d)
      /\ loading[d] = Loadings(js, target, d) /\ act[d] = b
  BY <1>3, <1>t DEF Counted
<1>9. /\ IsFiniteSet(Pending(n))
      /\ Ends(n, target, d) + js[x] * EndsOf(x) = Ends(js, target, d) + n[x] * EndsOf(x)
      /\ Loadings(n, target, d) + (IF js[x] > 0 /\ IsLoad(x) THEN 1 ELSE 0)
           = Loadings(js, target, d) + (IF n[x] > 0 /\ IsLoad(x) THEN 1 ELSE 0)
  BY <1>3, <1>4, <1>6, <1>8, OneJobChanged
<1>10. Ends(n, target, d) \in Nat /\ Loadings(n, target, d) \in Nat
  BY <1>6, <1>9, CountsNat
<1>11. Ended(b, 2) = Ends(n, target, d) /\ Ended(b, 2) + 2 = b
  <2>1. Ends(n, target, d) + 1 * 2 = b + 0 * 2
    BY <1>4, <1>5, <1>6, <1>8, <1>9
  <2> QED
    BY <2>1, <1>3, <1>10 DEF Ended
<1>12. Ended(loading[d], 1) = Loadings(n, target, d) /\ Ended(loading[d], 1) + 1 = loading[d]
  <2>1. Loadings(n, target, d) + 1 = loading[d] + 0
    BY <1>4, <1>5, <1>6, <1>8, <1>9
  <2>2. loading[d] \in Nat
    BY <1>t, <1>3
  <2> QED
    BY <2>1, <2>2, <1>10 DEF Ended
<1> DEFINE a2 == activity'
           l2 == loading'
<1>13. /\ a2 \in [Cont -> Nat] /\ l2 \in [Cont -> Nat]
       /\ \A c \in Cont : c # d => a2[c] = act[c] /\ l2[c] = loading[c]
       /\ a2[d] = Ended(b, 2) /\ l2[d] = Ended(loading[d], 1)
  <2>1. Ended(b, 2) \in Nat /\ Ended(loading[d], 1) \in Nat
    BY <1>10, <1>11, <1>12
  <2> QED
    BY <1>1, <1>3, <1>a, <1>t, <2>1
<1> HIDE DEF act, a2, l2
<1>14. /\ a2[d] + js[x] * EndsOf(x) = act[d] + n[x] * EndsOf(x)
       /\ l2[d] + (IF js[x] > 0 /\ IsLoad(x) THEN 1 ELSE 0)
            = loading[d] + (IF n[x] > 0 /\ IsLoad(x) THEN 1 ELSE 0)
  <2>1. /\ a2[d] + 1 * 2 = b + 0 * 2
        /\ l2[d] + 1 = loading[d] + 0
    <3>1. b \in Nat /\ loading[d] \in Nat
      BY <1>3, <1>t
    <3>2. a2[d] + 2 = b /\ l2[d] + 1 = loading[d]
      BY <1>11, <1>12, <1>13
    <3> QED
      BY <3>1, <3>2
  <2> QED
    BY <2>1, <1>4, <1>5, <1>6, <1>8
<1>15. Counted(n, target, a2, l2)
  BY ONLY <1>3, <1>4, <1>6, <1>13, <1>14, OneJobCounted
<1>16. jobs' = n
  BY <1>2 DEF n, js
<1> QED
  BY <1>1, <1>7, <1>15, <1>16 DEF CNext, a2, l2

LEMMA InitCounted ==
  ASSUME Init
  PROVE  CInv
<1>1. /\ jobs = [j \in Job |-> 0]
      /\ activity = [c \in Cont |-> 0] /\ loading = [c \in Cont |-> 0]
  BY DEF Init
<1>2. OneEach(jobs)
  <2> SUFFICES ASSUME NEW i \in Img
               PROVE  jobs[<<"image", i>>] + jobs[<<"imgldr", i>>] <= 1
    BY DEF OneEach
  <2>1. <<"image", i>> \in Job /\ <<"imgldr", i>> \in Job
    BY ImgJob
  <2>2. jobs[<<"image", i>>] = 0 /\ jobs[<<"imgldr", i>>] = 0
    BY <1>1, <2>1
  <2> QED
    BY <2>2
<1>3. Pending(jobs) = {} /\ \A c \in Cont : Of(jobs, target, c) = {}
  BY <1>1 DEF Pending, Of
<1>4. IsFiniteSet({}) /\ Cardinality({}) = 0
  BY FS_EmptySet
<1>5. \A c \in Cont : Ends(jobs, target, c) = 0 /\ Loadings(jobs, target, c) = 0
  <2> TAKE c \in Cont
  <2>1. Total(Weights(jobs), {}) = 0
    BY TotalStep, FS_EmptySet
  <2>2. {j \in {} : IsLoad(j)} = {}
    OBVIOUS
  <2> QED
    BY <2>1, <2>2, <1>3, <1>4 DEF Ends, Loadings
<1>6. Counted(jobs, target, activity, loading)
  BY <1>1, <1>3, <1>4, <1>5 DEF Counted
<1> QED
  BY <1>2, <1>6, InitSound DEF CInv

LEMMA NextCounted ==
  ASSUME ~ReloadBusy, CInv, [Next]_vars
  PROVE  CInv'
<1>1. IInv'
  BY NextSound, CountedNow
<1>2. CNext
  <2>1. ASSUME NEW p \in Doc, NEW c \in Cont, StartLoad(p, c) \/ History(p, c)
        PROVE  CNext
    BY <2>1, StartLoadCounted, HistoryCounted
  <2>2. CASE \E c \in Cont : Escape(c)
    BY <2>2, EscapeCounted
  <2>3. ASSUME NEW p \in Doc,
               \/ LoadDone(p) \/ ParseEnd(p) \/ ParseSheet(p) \/ ParseMore(p)
               \/ ResumeJob(p) \/ ReflowStale(p) \/ ReflowRun(p)
        PROVE  CNext
    BY <2>3, LoadDoneCounted, ParseEndCounted, ParseSheetCounted,
       ParseMoreCounted, ResumeJobCounted, ReflowCounted
  <2>4. ASSUME NEW i \in Img,
               \/ ImageJob(i) \/ ImageFetch(i) \/ ImageBad(i) \/ ImageLdr(i)
               \/ ImageLdrFails(i) \/ Reload(i)
        PROVE  CNext
    BY <2>4, ImageJobCounted, ImageFetchCounted, ImageFailsCounted, ReloadCounted
  <2>5. CASE UNCHANGED vars
    BY <2>5, CountedNow DEF vars, CNext
  <2> QED
    BY <2>1, <2>2, <2>3, <2>4, <2>5 DEF Next
<1> QED
  BY <1>1, <1>2 DEF CInv, CNext

\* If an image is reloaded only when nothing is under way for it, then a window
\* counts as begun, and as being loaded, what the jobs for its pane have to
\* end: the window is never told of an end twice, and none is missing.
THEOREM CountsRight == ~ReloadBusy => (Spec => []Balanced)
<1> SUFFICES ASSUME ~ReloadBusy
             PROVE  Spec => []Balanced
  OBVIOUS
<1>1. CInv /\ [Next]_vars => CInv'
  BY NextCounted
<1>2. CInv => Balanced
  <2> SUFFICES ASSUME CInv
               PROVE  Balanced
    OBVIOUS
  <2>1. TypeOK
    BY CountedNow, TypedNow DEF TypeOK
  <2>2. \A c \in Cont : /\ EndsFor(jobs, c) = Ends(jobs, target, c)
                        /\ LoadsFor(jobs, c) = Loadings(jobs, target, c)
    BY CountedNow, TypedNow, EndsTotal
  <2> QED
    BY <2>1, <2>2, CountedNow DEF Balanced
<1> QED
  BY <1>1, <1>2, InitCounted, PTL DEF Spec

=============================================================================
