--------------------------- MODULE FetchTheorems ---------------------------
(***************************************************************************)
(* Loaders, their jobs, their connections and their reservations, for any  *)
(* number of loaders, locations, containers and connections.               *)
(*                                                                         *)
(* The statements of Fetch count jobs and loaders.  The invariant that is  *)
(* inductive says the same of single jobs, and what every job may rely on  *)
(* when it is called.                                                      *)
(***************************************************************************)
EXTENDS Fetch, BasicTheorems

-----------------------------------------------------------------------------
(***************************************************************************)
(* The inductive invariant, of the set Q of the jobs, the loaders ls and   *)
(* the cache d.                                                            *)
(***************************************************************************)

\* Every loader has a job, and only one; every job has a loader.
Serving(Q, ls) ==
  /\ \A l \in Loader : ls[l] # Nil => \E f \in Func : <<f, l>> \in Q
  /\ \A l \in Loader : \A f, g \in Func :
       <<f, l>> \in Q /\ <<g, l>> \in Q => f = g
  /\ \A l \in Loader : \A f \in Func : <<f, l>> \in Q => ls[l] # Nil

\* A body that was complete, but found no memory
Missing(f, r) == f = "receive" /\ ~r.rdLeft /\ ~r.Data

\* The loader with the record r, whose job calls f, has the location u
\* reserved.
Reserves(f, r, u) ==
  /\ f \in {"chunked", "receive"}
  /\ ~r.PostBuf
  /\ ~Missing(f, r)
  /\ r.Location = u

\* Neither does the memory run out, nor is a POST answered by anything but
\* text: such an answer fills the item that another loader has reserved.
Careful == "memory" \notin Faults /\ Posts \subseteq Texts

\* What the function f relies on in the record r of its loader l: a
\* connection is there only to be read from, a body of known size lies in
\* the memory that was allocated for it, and only other bodies come in chunks.
Reliable(f, l, r) ==
  /\ r.rdSocket => f \in {"chunked", "receive"}
  /\ f = "receive" /\ r.body = "sized" => r.Data
  /\ f = "chunked" => r.body # "sized"
  /\ r.PostBuf => l \in Posts
  /\ Careful => ~Missing(f, r)

Sound(Q, ls) ==
  \A l \in Loader : \A f \in Func : <<f, l>> \in Q => Reliable(f, l, ls[l])

NothingLeftOver(Q, ls, d) ==
  \A u \in Url : d[u] = "busy" =>
    \E l \in Loader : \E f \in Func : <<f, l>> \in Q /\ Reserves(f, ls[l], u)

\* Who has reserved a location has it, and has it alone.
Alone(Q, ls, d) ==
  \A u \in Url : \A l \in Loader : \A f \in Func :
    <<f, l>> \in Q /\ Reserves(f, ls[l], u) =>
      /\ d[u] = "busy"
      /\ \A m \in Loader : \A g \in Func :
           <<g, m>> \in Q /\ Reserves(g, ls[m], u) => m = l

Items == [Url -> {"none", "busy", "local"}]

Good(Q, ls, d) ==
  /\ Q \subseteq Job
  /\ ls \in [Loader -> LoaderRecord \cup {Nil}]
  /\ d \in Items
  /\ Serving(Q, ls)
  /\ Sound(Q, ls)
  /\ NothingLeftOver(Q, ls, d)
  /\ Careful => Alone(Q, ls, d)

IInv ==
  /\ TypeOK
  /\ IsInjective(queue)
  /\ \A l \in Loader : ldr[l] # Nil => l \in born
  /\ Good(ToSet(queue), ldr, disk)

-----------------------------------------------------------------------------
(***************************************************************************)
(* What becomes of the list of jobs.                                       *)
(***************************************************************************)

LEMMA PartsOfJob ==
  /\ \A j \in Job : /\ j[1] \in Func /\ j[2] \in Loader
                     /\ j = <<j[1], j[2]>>
  /\ \A f \in Func : \A l \in Loader : <<f, l>> \in Job /\ <<f, l>>[2] = l
BY DEF Job

LEMMA InsertedJob ==
  ASSUME NEW q \in Seq(Job), IsInjective(q), NEW pr \in [Job -> Nat],
         NEW j \in Job, j \notin ToSet(q), NEW order \in BOOLEAN
  PROVE  /\ SortIn(q, pr, j, order) \in Seq(Job)
         /\ IsInjective(SortIn(q, pr, j, order))
         /\ ToSet(SortIn(q, pr, j, order)) = ToSet(q) \cup {j}
<1>1. pr \in [Job -> Int]
  OBVIOUS
<1>2. /\ SortIn(q, pr, j, order) \in Seq(Job)
      /\ ToSet(SortIn(q, pr, j, order)) = ToSet(q) \cup {j}
  BY <1>1, SortInElements
<1>3. IsInjective(SortIn(q, pr, j, order))
  BY <1>1, SortInInjective
<1> QED
  BY <1>2, <1>3

\* The job that is called, and those behind it.
LEMMA CalledJob ==
  ASSUME TypeOK, IsInjective(queue),
         NEW f \in Func, NEW l \in Loader, Called(f, l)
  PROVE  /\ <<f, l>> \in Job
         /\ <<f, l>> \in ToSet(queue)
         /\ Tail(queue) \in Seq(Job)
         /\ IsInjective(Tail(queue))
         /\ ToSet(Tail(queue)) = ToSet(queue) \ {<<f, l>>}
<1>1. queue \in Seq(Job) /\ queue # <<>> /\ Head(queue) = <<f, l>>
  BY DEF Called, TypeOK
<1> QED
  BY <1>1, HeadAndTail DEF Job

LEMMA KeptQueue ==
  ASSUME TypeOK, IsInjective(queue),
         NEW f \in Func, NEW l \in Loader, Called(f, l),
         \/ Keep(<<f, l>>)
         \/ \E order \in BOOLEAN : Age(<<f, l>>, order)
  PROVE  /\ queue' \in Seq(Job)
         /\ prio' \in [Job -> Nat]
         /\ IsInjective(queue')
         /\ ToSet(queue') = ToSet(queue)
<1> DEFINE j == <<f, l>>
<1>1. /\ j \in Job /\ j \in ToSet(queue)
      /\ Tail(queue) \in Seq(Job)
      /\ IsInjective(Tail(queue))
      /\ ToSet(Tail(queue)) = ToSet(queue) \ {j}
  BY CalledJob
<1> HIDE DEF j
<1>2. j \notin ToSet(Tail(queue))
  BY <1>1
<1>3. CASE Keep(j)
  <2>1. prio \in [Job -> Nat] /\ prio' = prio
    BY <1>3 DEF Keep, Inserted, TypeOK
  <2>2. queue' = SortIn(Tail(queue), prio, j, TRUE)
    BY <1>3 DEF Keep, Inserted
  <2>3. /\ queue' \in Seq(Job)
        /\ IsInjective(queue')
        /\ ToSet(queue') = ToSet(Tail(queue)) \cup {j}
    BY <1>1, <1>2, <2>1, <2>2, InsertedJob
  <2> QED
    BY <1>1, <2>1, <2>3
<1>4. ASSUME NEW order \in BOOLEAN, Age(j, order)
      PROVE  /\ queue' \in Seq(Job)
             /\ prio' \in [Job -> Nat]
             /\ IsInjective(queue')
             /\ ToSet(queue') = ToSet(queue)
  <2> DEFINE pr == [prio EXCEPT ![j] = Aged(@)]
  <2>1. pr \in [Job -> Nat]
    <3>1. prio \in [Job -> Nat] /\ Aged(prio[j]) \in Nat
      BY <1>1 DEF Aged, TypeOK
    <3> QED
      BY <3>1
  <2>2. queue' = SortIn(Tail(queue), pr, j, order) /\ prio' = pr
    BY <1>4 DEF Age
  <2> HIDE DEF pr
  <2> DEFINE s == SortIn(Tail(queue), pr, j, order)
  <2>3. s \in Seq(Job) /\ IsInjective(s) /\ ToSet(s) = ToSet(Tail(queue)) \cup {j}
    <3>1. CASE order = TRUE
      BY <1>1, <1>2, <2>1, <3>1, InsertedJob
    <3>2. CASE order = FALSE
      BY <1>1, <1>2, <2>1, <3>2, InsertedJob
    <3> QED
      BY <3>1, <3>2
  <2> HIDE DEF s
  <2> QED
    BY <1>1, <2>1, <2>2, <2>3 DEF s
<1> QED
  BY <1>3, <1>4 DEF j

LEMMA FollowedQueue ==
  ASSUME TypeOK, IsInjective(queue),
         NEW f \in Func, NEW l \in Loader, Called(f, l),
         NEW g \in Func, g = f \/ <<g, l>> \notin ToSet(queue),
         NEW p \in Nat, Follow(<<f, l>>, <<g, l>>, p)
  PROVE  /\ queue' \in Seq(Job)
         /\ prio' \in [Job -> Nat]
         /\ IsInjective(queue')
         /\ ToSet(queue') = (ToSet(queue) \ {<<f, l>>}) \cup {<<g, l>>}
<1> DEFINE pr == [prio EXCEPT ![<<f, l>>] = 0, ![<<g, l>>] = p]
<1>1. /\ Tail(queue) \in Seq(Job)
      /\ IsInjective(Tail(queue))
      /\ ToSet(Tail(queue)) = ToSet(queue) \ {<<f, l>>}
  BY CalledJob
<1>2. <<g, l>> \in Job /\ <<g, l>> \notin ToSet(Tail(queue))
  BY <1>1 DEF Job
<1>3. pr \in [Job -> Nat]
  BY DEF TypeOK
<1>4. queue' = SortIn(Tail(queue), pr, <<g, l>>, TRUE) /\ prio' = pr
  BY DEF Follow, Inserted
<1> HIDE DEF pr
<1> QED
  BY <1>1, <1>2, <1>3, <1>4, InsertedJob

LEMMA DoneQueue ==
  ASSUME TypeOK, IsInjective(queue),
         NEW f \in Func, NEW l \in Loader, Called(f, l), Done(<<f, l>>)
  PROVE  /\ queue' \in Seq(Job)
         /\ prio' \in [Job -> Nat]
         /\ IsInjective(queue')
         /\ ToSet(queue') = ToSet(queue) \ {<<f, l>>}
BY CalledJob DEF Done, TypeOK

-----------------------------------------------------------------------------
(***************************************************************************)
(* What becomes of the loaders and of the cache.                           *)
(***************************************************************************)

\* The cache may be d when the job of a loader with the record r0 that called
\* f, and found the cache d0, leaves the record r to a job that calls g.
Lawful(f, r0, d0, g, r, d) ==
  /\ \A u \in Url : d[u] = "busy" =>
       Reserves(g, r, u) \/ (d0[u] = "busy" /\ ~Reserves(f, r0, u))
  /\ Careful => \A u \in Url :
       /\ Reserves(g, r, u) => /\ d[u] = "busy"
                               /\ Reserves(f, r0, u) \/ d0[u] # "busy"
       /\ d0[u] = "busy" /\ d[u] # "busy" => Reserves(f, r0, u)

LEMMA Replaced ==
  ASSUME NEW Q, NEW ls, NEW d0, Good(Q, ls, d0),
         NEW l \in Loader, NEW f \in Func, <<f, l>> \in Q, NEW g \in Func,
         NEW r \in LoaderRecord, NEW d \in Items,
         Reliable(g, l, r), Lawful(f, ls[l], d0, g, r, d)
  PROVE  Good((Q \ {<<f, l>>}) \cup {<<g, l>>}, [ls EXCEPT ![l] = r], d)
<1> DEFINE R  == (Q \ {<<f, l>>}) \cup {<<g, l>>}
           lt == [ls EXCEPT ![l] = r]
<1>1. /\ Q \subseteq Job
      /\ ls \in [Loader -> LoaderRecord \cup {Nil}]
      /\ d0 \in Items
      /\ Serving(Q, ls) /\ Sound(Q, ls) /\ NothingLeftOver(Q, ls, d0)
      /\ Careful => Alone(Q, ls, d0)
  BY DEF Good
<1>2. R \subseteq Job
  BY <1>1 DEF Job
<1>3. /\ lt \in [Loader -> LoaderRecord \cup {Nil}]
      /\ lt[l] = r /\ r # Nil
      /\ \A m \in Loader : m # l => lt[m] = ls[m]
  BY <1>1, NilAssumption
<1>4. ASSUME NEW m \in Loader, NEW h \in Func
      PROVE  <<h, m>> \in R <=> IF m = l THEN h = g ELSE <<h, m>> \in Q
  <2>1. CASE m = l
    <3>1. <<h, l>> \in Q => h = f
      BY <1>1 DEF Serving
    <3> QED
      BY <2>1, <3>1
  <2>2. CASE m # l
    BY <2>2
  <2> QED
    BY <2>1, <2>2
<1> HIDE DEF R, lt
<1>5. Serving(R, lt)
  BY <1>1, <1>3, <1>4 DEF Serving
<1>6. Sound(R, lt)
  BY <1>1, <1>3, <1>4 DEF Sound
<1>7. NothingLeftOver(R, lt, d)
  <2> SUFFICES ASSUME NEW u \in Url, d[u] = "busy"
               PROVE  \E m \in Loader : \E h \in Func :
                        <<h, m>> \in R /\ Reserves(h, lt[m], u)
    BY DEF NothingLeftOver
  <2>1. CASE Reserves(g, r, u)
    BY <1>3, <1>4, <2>1
  <2>2. CASE d0[u] = "busy" /\ ~Reserves(f, ls[l], u)
    <3>1. PICK m \in Loader, h \in Func :
                 <<h, m>> \in Q /\ Reserves(h, ls[m], u)
      BY <1>1, <2>2 DEF NothingLeftOver
    <3>2. m # l
      BY <1>1, <2>2, <3>1 DEF Serving
    <3> QED
      BY <1>3, <1>4, <3>1, <3>2
  <2> QED
    BY <2>1, <2>2 DEF Lawful
<1>8. ASSUME Careful
      PROVE  Alone(R, lt, d)
  <2> SUFFICES ASSUME NEW u \in Url, NEW m \in Loader, NEW h \in Func,
                      <<h, m>> \in R, Reserves(h, lt[m], u)
               PROVE  /\ d[u] = "busy"
                      /\ \A n \in Loader : \A k \in Func :
                           <<k, n>> \in R /\ Reserves(k, lt[n], u) => n = m
    BY DEF Alone
  <2>1. Alone(Q, ls, d0)
    BY <1>1, <1>8
  <2>2. /\ Reserves(g, r, u) => /\ d[u] = "busy"
                                /\ Reserves(f, ls[l], u) \/ d0[u] # "busy"
        /\ d0[u] = "busy" /\ d[u] # "busy" => Reserves(f, ls[l], u)
    BY <1>8 DEF Lawful
  <2>3. ASSUME NEW n \in Loader, NEW k \in Func, n # l,
               <<k, n>> \in R, Reserves(k, lt[n], u)
        PROVE  /\ d0[u] = "busy" /\ d[u] = "busy"
               /\ ~Reserves(f, ls[l], u)
               /\ \A o \in Loader : \A j \in Func :
                    <<j, o>> \in Q /\ Reserves(j, ls[o], u) => o = n
    <3>1. <<k, n>> \in Q /\ Reserves(k, ls[n], u)
      BY <1>3, <1>4, <2>3
    <3>2. /\ d0[u] = "busy"
          /\ \A o \in Loader : \A j \in Func :
               <<j, o>> \in Q /\ Reserves(j, ls[o], u) => o = n
      BY <2>1, <3>1 DEF Alone
    <3> QED
      BY <2>2, <2>3, <3>2
  <2>4. CASE m = l
    <3>1. Reserves(g, r, u)
      BY <1>3, <1>4, <2>4
    <3> QED
      BY <2>2, <2>3, <2>4, <3>1
  <2>5. CASE m # l
    <3>1. /\ d0[u] = "busy" /\ d[u] = "busy"
          /\ ~Reserves(f, ls[l], u)
          /\ \A o \in Loader : \A j \in Func :
               <<j, o>> \in Q /\ Reserves(j, ls[o], u) => o = m
      BY <2>3, <2>5
    <3>2. ~Reserves(g, r, u)
      BY <2>2, <3>1
    <3> QED
      BY <1>3, <1>4, <3>1, <3>2
  <2> QED
    BY <2>4, <2>5
<1> QED
  BY <1>2, <1>3, <1>5, <1>6, <1>7, <1>8 DEF Good, R, lt

LEMMA Removed ==
  ASSUME NEW Q, NEW ls, NEW d0, Good(Q, ls, d0),
         NEW gone \in SUBSET Q, NEW d \in Items,
         \A u \in Url : d[u] = "busy" =>
           /\ d0[u] = "busy"
           /\ \A l \in Loader : \A f \in Func :
                <<f, l>> \in gone => ~Reserves(f, ls[l], u),
         Careful => \A u \in Url : d0[u] = "busy" /\ d[u] # "busy" =>
           \E l \in Loader : \E f \in Func :
             <<f, l>> \in gone /\ Reserves(f, ls[l], u)
  PROVE  Good(Q \ gone, Deleted(gone, ls), d)
<1> DEFINE R  == Q \ gone
           lt == Deleted(gone, ls)
<1>1. /\ Q \subseteq Job
      /\ ls \in [Loader -> LoaderRecord \cup {Nil}]
      /\ d0 \in Items
      /\ Serving(Q, ls) /\ Sound(Q, ls) /\ NothingLeftOver(Q, ls, d0)
      /\ Careful => Alone(Q, ls, d0)
  BY DEF Good
<1>2. lt \in [Loader -> LoaderRecord \cup {Nil}]
  BY <1>1 DEF Deleted
<1>3. ASSUME NEW m \in Loader
      PROVE  lt[m] = IF \E h \in Func : <<h, m>> \in gone THEN Nil ELSE ls[m]
  <2>1. (\E j \in gone : j[2] = m) <=> (\E h \in Func : <<h, m>> \in gone)
    <3>1. ASSUME NEW j \in gone, j[2] = m
          PROVE  \E h \in Func : <<h, m>> \in gone
      <4>1. j[1] \in Func /\ j = <<j[1], m>>
        BY <1>1, <3>1, PartsOfJob
      <4> QED
        BY <4>1
    <3>2. ASSUME NEW h \in Func, <<h, m>> \in gone
          PROVE  \E j \in gone : j[2] = m
      BY <3>2
    <3> QED
      BY <3>1, <3>2
  <2> QED
    BY <2>1 DEF Deleted
<1>4. ASSUME NEW m \in Loader, NEW h \in Func, <<h, m>> \in R
      PROVE  <<h, m>> \in Q /\ lt[m] = ls[m]
  <2>1. \A k \in Func : <<k, m>> \notin gone
    BY <1>1, <1>4 DEF Serving
  <2> QED
    BY <1>3, <1>4, <2>1
<1> HIDE DEF lt
<1>5. Serving(R, lt)
  <2>1. ASSUME NEW m \in Loader, lt[m] # Nil
        PROVE  \E h \in Func : <<h, m>> \in R
    BY <1>1, <1>3, <2>1 DEF Serving
  <2>2. ASSUME NEW m \in Loader, NEW h \in Func, NEW k \in Func,
               <<h, m>> \in R, <<k, m>> \in R
        PROVE  h = k
    BY <1>1, <2>2 DEF Serving
  <2>3. ASSUME NEW m \in Loader, NEW h \in Func, <<h, m>> \in R
        PROVE  lt[m] # Nil
    BY <1>1, <1>4, <2>3 DEF Serving
  <2> QED
    BY <2>1, <2>2, <2>3 DEF Serving
<1>6. Sound(R, lt)
  BY <1>1, <1>4 DEF Sound
<1>7. NothingLeftOver(R, lt, d)
  <2> SUFFICES ASSUME NEW u \in Url, d[u] = "busy"
               PROVE  \E m \in Loader : \E h \in Func :
                        <<h, m>> \in R /\ Reserves(h, lt[m], u)
    BY DEF NothingLeftOver
  <2>1. PICK m \in Loader, h \in Func : <<h, m>> \in Q /\ Reserves(h, ls[m], u)
    BY <1>1 DEF NothingLeftOver
  <2>2. <<h, m>> \in R
    BY <2>1
  <2> QED
    BY <1>4, <2>1, <2>2
<1>8. ASSUME Careful
      PROVE  Alone(R, lt, d)
  <2> SUFFICES ASSUME NEW u \in Url, NEW m \in Loader, NEW h \in Func,
                      <<h, m>> \in R, Reserves(h, lt[m], u)
               PROVE  /\ d[u] = "busy"
                      /\ \A n \in Loader : \A k \in Func :
                           <<k, n>> \in R /\ Reserves(k, lt[n], u) => n = m
    BY DEF Alone
  <2>1. <<h, m>> \in Q /\ Reserves(h, ls[m], u)
    BY <1>4
  <2>2. /\ d0[u] = "busy"
        /\ \A n \in Loader : \A k \in Func :
             <<k, n>> \in Q /\ Reserves(k, ls[n], u) => n = m
    BY <1>1, <1>8, <2>1 DEF Alone
  <2>3. d[u] = "busy"
    <3> SUFFICES ASSUME d[u] # "busy"
                 PROVE  FALSE
      OBVIOUS
    <3>1. PICK n \in Loader, k \in Func : <<k, n>> \in gone /\ Reserves(k, ls[n], u)
      BY <1>8, <2>2
    <3>2. n = m
      BY <2>2, <3>1
    <3>3. k = h
      BY <1>1, <2>1, <3>1, <3>2 DEF Serving
    <3> QED
      BY <3>1, <3>2, <3>3
  <2> QED
    BY <1>4, <2>2, <2>3
<1> QED
  BY <1>1, <1>2, <1>5, <1>6, <1>7, <1>8 DEF Good, lt

\* sched_clear() with the callbacks it calls.
LEMMA AbortedJobs ==
  ASSUME NEW Q, NEW ls, NEW d, Good(Q, ls, d), NEW gone \in SUBSET Q,
         \A l \in Loader : \A f \in Func : <<f, l>> \in gone => ls[l] = ldr[l]
  PROVE  Good(Q \ gone, Deleted(gone, ls), Aborted(gone, d))
<1> DEFINE dt == Aborted(gone, d)
<1>1. d \in Items /\ Q \subseteq Job /\ Sound(Q, ls)
  BY DEF Good
<1>2. dt \in Items
  BY <1>1 DEF Aborted, Items
<1>3. ASSUME NEW u \in Url, dt[u] = "busy"
      PROVE  /\ d[u] = "busy"
             /\ \A l \in Loader : \A f \in Func :
                  <<f, l>> \in gone => ~Reserves(f, ls[l], u)
  <2>1. /\ d[u] = "busy"
        /\ ~\E l \in Loader : /\ gone \cap Receiving(l) # {}
                              /\ Gets(l)
                              /\ ldr[l].Location = u
    BY <1>1, <1>3 DEF Aborted, Items
  <2>2. ASSUME NEW l \in Loader, NEW f \in Func,
               <<f, l>> \in gone, Reserves(f, ls[l], u)
        PROVE  FALSE
    <3>1. <<f, l>> \in gone \cap Receiving(l)
      BY <2>2 DEF Reserves, Receiving
    <3>2. Gets(l) /\ ldr[l].Location = u
      BY <2>2 DEF Reserves, Gets
    <3> QED
      BY <2>1, <3>1, <3>2
  <2> QED
    BY <2>1, <2>2
<1>4. ASSUME Careful, NEW u \in Url, d[u] = "busy", dt[u] # "busy"
      PROVE  \E l \in Loader : \E f \in Func :
               <<f, l>> \in gone /\ Reserves(f, ls[l], u)
  <2>1. PICK l \in Loader : /\ gone \cap Receiving(l) # {}
                            /\ Gets(l)
                            /\ ldr[l].Location = u
    BY <1>1, <1>4 DEF Aborted, Items
  <2>2. PICK f \in {"chunked", "receive"} : <<f, l>> \in gone
    BY <2>1 DEF Receiving
  <2>3. f \in Func
    BY DEF Func
  <2>4. ls[l] = ldr[l] /\ ~Missing(f, ls[l])
    BY <1>1, <1>4, <2>2, <2>3 DEF Sound, Reliable
  <2>5. Reserves(f, ls[l], u)
    BY <2>1, <2>4 DEF Reserves, Gets
  <2> QED
    BY <2>2, <2>3, <2>5
<1> HIDE DEF dt
<1> QED
  BY <1>2, <1>3, <1>4, Removed DEF dt

-----------------------------------------------------------------------------
(***************************************************************************)
(* The ways a call of a job ends.                                          *)
(***************************************************************************)

\* What is known of the job (f, l) that is called.
LEMMA CalledLoader ==
  ASSUME IInv, NEW f \in Func, NEW l \in Loader, Called(f, l)
  PROVE  /\ <<f, l>> \in ToSet(queue)
         /\ ldr[l] \in LoaderRecord
         /\ ldr[l] # Nil
         /\ Reliable(f, l, ldr[l])
         /\ disk \in Items
         /\ \A g \in Func : <<g, l>> \in ToSet(queue) <=> g = f
<1>1. <<f, l>> \in ToSet(queue)
  BY CalledJob DEF IInv
<1>2. ldr[l] # Nil /\ \A g \in Func : <<g, l>> \in ToSet(queue) => g = f
  BY <1>1 DEF IInv, Good, Serving
<1>3. ldr[l] \in LoaderRecord
  BY <1>2 DEF IInv, Good
<1>4. Reliable(f, l, ldr[l]) /\ disk \in Items
  BY <1>1 DEF IInv, Good, Sound
<1> QED
  BY <1>1, <1>2, <1>3, <1>4

\* It stays in the list, or another job takes its place.
LEMMA Moved ==
  ASSUME IInv, NEW f \in Func, NEW l \in Loader, Called(f, l),
         NEW g \in Func, NEW r \in LoaderRecord, NEW d \in Items,
         \/ g = f /\ Keep(<<f, l>>)
         \/ g = f /\ \E order \in BOOLEAN : Age(<<f, l>>, order)
         \/ g # f /\ \E p \in Nat : Follow(<<f, l>>, <<g, l>>, p),
         Reliable(g, l, r), Lawful(f, ldr[l], disk, g, r, d),
         ldr' = [ldr EXCEPT ![l] = r], disk' = d, born' = born
  PROVE  IInv'
<1>1. /\ <<f, l>> \in ToSet(queue)
      /\ \A h \in Func : <<h, l>> \in ToSet(queue) <=> h = f
      /\ ldr[l] # Nil
  BY CalledLoader
<1>2. TypeOK /\ IsInjective(queue)
  BY DEF IInv
<1>3. /\ queue' \in Seq(Job)
      /\ prio' \in [Job -> Nat]
      /\ IsInjective(queue')
      /\ ToSet(queue') = (ToSet(queue) \ {<<f, l>>}) \cup {<<g, l>>}
  <2>1. CASE g = f /\ (Keep(<<f, l>>) \/ \E order \in BOOLEAN : Age(<<f, l>>, order))
    <3>1. /\ queue' \in Seq(Job)
          /\ prio' \in [Job -> Nat]
          /\ IsInjective(queue')
          /\ ToSet(queue') = ToSet(queue)
      BY <1>2, <2>1, KeptQueue
    <3>2. ToSet(queue) = (ToSet(queue) \ {<<f, l>>}) \cup {<<g, l>>}
      BY <1>1, <2>1
    <3> QED
      BY <3>1, <3>2
  <2>2. CASE g # f /\ \E p \in Nat : Follow(<<f, l>>, <<g, l>>, p)
    <3>1. <<g, l>> \notin ToSet(queue)
      BY <1>1, <2>2
    <3>2. PICK p \in Nat : Follow(<<f, l>>, <<g, l>>, p)
      BY <2>2
    <3> QED
      BY <1>2, <3>1, <3>2, FollowedQueue
  <2> QED
    BY <2>1, <2>2
<1>4. Good(ToSet(queue'), ldr', disk')
  <2>1. Good(ToSet(queue), ldr, disk)
    BY DEF IInv
  <2>2. Good((ToSet(queue) \ {<<f, l>>}) \cup {<<g, l>>},
             [ldr EXCEPT ![l] = r], d)
    BY <1>1, <2>1, Replaced
  <2> QED
    BY <1>3, <2>2
<1>5. TypeOK'
  BY <1>2, <1>3, <1>4 DEF TypeOK, Good, Items
<1>6. \A m \in Loader : ldr'[m] # Nil => m \in born'
  BY <1>1, <1>2 DEF IInv, TypeOK
<1> QED
  BY <1>3, <1>4, <1>5, <1>6 DEF IInv

\* It is done, and its loader is deleted.
LEMMA Ended ==
  ASSUME IInv, NEW f \in Func \ {"chunked", "receive"}, NEW l \in Loader,
         Called(f, l), Done(<<f, l>>),
         ldr' = Deleted({<<f, l>>}, ldr), disk' = disk, born' = born
  PROVE  IInv'
<1>1. f \in Func /\ <<f, l>> \in ToSet(queue)
  BY CalledLoader
<1>2. TypeOK /\ IsInjective(queue) /\ Good(ToSet(queue), ldr, disk)
  BY DEF IInv
<1>3. /\ queue' \in Seq(Job)
      /\ prio' \in [Job -> Nat]
      /\ IsInjective(queue')
      /\ ToSet(queue') = ToSet(queue) \ {<<f, l>>}
  BY <1>1, <1>2, DoneQueue
<1>4. \A m \in Loader : \A g \in Func : \A u :
        <<g, m>> \in {<<f, l>>} => ~Reserves(g, ldr[m], u)
  BY DEF Reserves
<1>5. Good(ToSet(queue'), ldr', disk')
  <2>1. {<<f, l>>} \in SUBSET ToSet(queue) /\ disk \in Items
    BY <1>1, <1>2 DEF Good
  <2>2. Good(ToSet(queue) \ {<<f, l>>}, Deleted({<<f, l>>}, ldr), disk)
    BY <1>2, <1>4, <2>1, Removed
  <2> QED
    BY <1>3, <2>2
<1>6. TypeOK'
  BY <1>2, <1>3, <1>5 DEF TypeOK, Good, Items
<1>7. \A m \in Loader : ldr'[m] # Nil => m \in born'
  BY DEF IInv, Deleted
<1> QED
  BY <1>3, <1>5, <1>6, <1>7 DEF IInv

\* It starts the parser, which clears the container first.
LEMMA Parsed ==
  ASSUME IInv, NEW f \in Func \ {"parse"}, NEW l \in Loader, Called(f, l),
         NEW r \in LoaderRecord, NEW d \in Items,
         Reliable("parse", l, r), Lawful(f, ldr[l], disk, "parse", r, d),
         StartParser(f, l, [ldr EXCEPT ![l] = r], d), born' = born
  PROVE  IInv'
<1> DEFINE j    == <<"parse", l>>
           ls   == [ldr EXCEPT ![l] = r]
           tl   == Tail(queue)
           gone == JobsOf(tl, ldr[l].Target)
           pr   == [i \in Job |-> CASE i = <<"parse", l>> -> PRIO_FINISH
                                    [] i \in gone \cup {<<f, l>>} -> 0
                                    [] OTHER -> prio[i]]
           Q    == ToSet(queue)
           P    == (Q \ {<<f, l>>}) \cup {j}
<1>1. /\ f \in Func /\ "parse" \in Func
      /\ TypeOK /\ IsInjective(queue) /\ Good(Q, ldr, disk)
  BY DEF IInv, Func
<1>2. /\ <<f, l>> \in Q
      /\ \A g \in Func : <<g, l>> \in Q <=> g = f
      /\ ldr[l] # Nil
  BY <1>1, CalledLoader
<1>3. /\ tl \in Seq(Job)
      /\ IsInjective(tl)
      /\ ToSet(tl) = Q \ {<<f, l>>}
  BY <1>1, CalledJob
<1>4. /\ gone \in SUBSET (Q \ {<<f, l>>})
      /\ \A g \in Func : <<g, l>> \notin gone
  <2>1. gone \in SUBSET (Q \ {<<f, l>>})
    BY <1>3 DEF JobsOf
  <2> QED
    BY <1>2, <2>1
<1>5. j \in Job /\ j \notin gone /\ j \notin Q
  BY <1>1, <1>2, <1>4 DEF Job
<1>6. /\ queue' = SortIn(MoveOut(tl, gone), pr, j, TRUE)
      /\ prio' = pr
      /\ ldr' = Deleted(gone, ls)
      /\ disk' = Aborted(gone, d)
  BY DEF StartParser, Inserted
<1>7. pr \in [Job -> Nat]
  <2>1. PRIO_FINISH \in Nat
    BY FetchAssumption
  <2>2. prio \in [Job -> Nat]
    BY <1>1 DEF TypeOK
  <2> QED
    BY <2>1, <2>2
<1> HIDE DEF pr, gone, tl
<1>8. /\ MoveOut(tl, gone) \in Seq(Job)
      /\ ToSet(MoveOut(tl, gone)) = (Q \ {<<f, l>>}) \ gone
      /\ IsInjective(MoveOut(tl, gone))
  BY <1>3, MoveOutElements, MoveOutKeeps
<1>9. /\ queue' \in Seq(Job)
      /\ IsInjective(queue')
      /\ ToSet(queue') = ((Q \ {<<f, l>>}) \ gone) \cup {j}
  <2>1. j \notin ToSet(MoveOut(tl, gone))
    BY <1>5, <1>8
  <2> HIDE DEF j
  <2> QED
    BY <1>5, <1>6, <1>7, <1>8, <2>1, InsertedJob
<1>10. ToSet(queue') = P \ gone
  BY <1>5, <1>9
<1>11. Good(P, ls, d)
  BY <1>1, <1>2, Replaced
<1>12. Good(P \ gone, Deleted(gone, ls), Aborted(gone, d))
  <2>1. gone \in SUBSET P
    BY <1>4
  <2>2. \A m \in Loader : \A g \in Func : <<g, m>> \in gone => ls[m] = ldr[m]
    BY <1>1, <1>4 DEF TypeOK
  <2> HIDE DEF P, ls
  <2> QED
    BY <1>11, <2>1, <2>2, AbortedJobs
<1>13. Good(ToSet(queue'), ldr', disk')
  BY <1>6, <1>10, <1>12
<1>14. TypeOK'
  BY <1>1, <1>6, <1>7, <1>9, <1>13 DEF TypeOK, Good, Items
<1>15. \A m \in Loader : ldr'[m] # Nil => m \in born'
  <2>1. \A m \in Loader : ldr[m] # Nil => m \in born
    BY DEF IInv
  <2>2. \A m \in Loader : ls[m] # Nil => m \in born
    BY <1>1, <1>2, <2>1 DEF TypeOK
  <2> HIDE DEF ls
  <2> QED
    BY <1>6, <2>2 DEF Deleted
<1> QED
  BY <1>9, <1>13, <1>14, <1>15 DEF IInv

\* It has received everything: receive_job() from there on.
LEMMA Finished ==
  ASSUME IInv, NEW f \in {"header", "receive"}, NEW l \in Loader, Called(f, l),
         NEW r \in LoaderRecord, NEW d \in Items, Finish(f, l, r, d),
         r.Location = ldr[l].Location, r.PostBuf = ldr[l].PostBuf,
         \A u \in Url : u # r.Location => d[u] = disk[u],
         ~Gets(l) => d = disk,
         Gets(l) /\ ~r.Data /\ d[r.Location] = "busy" =>
           /\ disk[r.Location] = "busy"
           /\ ~Reserves(f, ldr[l], r.Location),
         Careful /\ Gets(l) /\ disk[r.Location] = "busy" =>
           Reserves(f, ldr[l], r.Location),
         born' = born
  PROVE  IInv'
<1> DEFINE loc == r.Location
<1>1. f \in Func /\ loc \in Url /\ d \in [Url -> {"none", "busy", "local"}]
  BY DEF Func, LoaderRecord, Items
<1>2. /\ ldr[l] \in LoaderRecord
      /\ Reliable(f, l, ldr[l])
      /\ disk \in Items
  BY <1>1, CalledLoader
<1>3. PICK now \in AssignedTo(l, r, d) :
        LET ls == [ldr EXCEPT ![l] =
                     [Closed(r) EXCEPT
                        !.Cached = now = "local" /\ d[loc] = "busy"]]
            dk == [d EXCEPT ![loc] = now]
        IN  IF l \in Pages
            THEN StartParser(f, l, ls, dk)
            ELSE /\ Follow(<<f, l>>, <<"succ", l>>, PRIO_SUCCESS)
                 /\ ldr' = ls
                 /\ disk' = dk
  BY DEF Finish
<1> DEFINE rt == [Closed(r) EXCEPT !.Cached = now = "local" /\ d[loc] = "busy"]
           dk == [d EXCEPT ![loc] = now]
<1>4. now \in {"none", "busy", "local"}
  BY <1>1 DEF AssignedTo
<1>5. /\ rt \in LoaderRecord
      /\ ~rt.rdSocket /\ rt.PostBuf = r.PostBuf
  BY DEF LoaderRecord, Closed
<1>6. /\ dk \in Items
      /\ dk[loc] = now
      /\ \A u \in Url : u # loc => dk[u] = disk[u]
  BY <1>1, <1>4 DEF Items
<1>7. ASSUME NEW g \in {"parse", "succ"}
      PROVE  Reliable(g, l, rt)
  BY <1>2, <1>5 DEF Reliable, Missing
<1>8. \A u \in Url : dk[u] = "busy" =>
        disk[u] = "busy" /\ ~Reserves(f, ldr[l], u)
  <2> SUFFICES ASSUME NEW u \in Url, dk[u] = "busy"
               PROVE  disk[u] = "busy" /\ ~Reserves(f, ldr[l], u)
    OBVIOUS
  <2>1. CASE u # loc
    BY <1>6, <2>1 DEF Reserves
  <2>2. CASE u = loc
    <3>1. now = "busy" /\ d[loc] = "busy" /\ ~(r.Data /\ Stored(l))
      BY <1>1, <1>6, <2>2 DEF AssignedTo
    <3>2. CASE Gets(l)
      BY <2>2, <3>1, <3>2 DEF Stored
    <3>3. CASE ~Gets(l)
      BY <2>2, <3>1, <3>3 DEF Gets, Reserves
    <3> QED
      BY <3>2, <3>3
  <2> QED
    BY <2>1, <2>2
<1>9. ASSUME Careful, NEW u \in Url, disk[u] = "busy", dk[u] # "busy"
      PROVE  Reserves(f, ldr[l], u)
  <2>1. u = loc
    BY <1>6, <1>9
  <2>2. CASE Gets(l)
    BY <1>9, <2>1, <2>2
  <2>3. CASE ~Gets(l)
    <3>1. l \in Posts
      BY <1>2, <2>3 DEF Gets, Reliable
    <3>2. ~Stored(l)
      BY <1>9, <2>3, <3>1 DEF Stored, Careful
    <3>3. now = d[loc] /\ d = disk
      BY <2>3, <3>2 DEF AssignedTo
    <3> QED
      BY <1>6, <1>9, <2>1, <3>3
  <2> QED
    BY <2>2, <2>3
<1>10. ASSUME NEW g \in {"parse", "succ"}
       PROVE  Lawful(f, ldr[l], disk, g, rt, dk)
  <2>1. \A u \in Url : ~Reserves(g, rt, u)
    BY DEF Reserves
  <2> HIDE DEF rt, dk
  <2> QED
    BY <1>8, <1>9, <2>1 DEF Lawful
<1> HIDE DEF rt, dk
<1>11. CASE l \in Pages
  <2>1. StartParser(f, l, [ldr EXCEPT ![l] = rt], dk)
    BY <1>3, <1>11 DEF rt, dk
  <2>2. f \in Func \ {"parse"}
    BY <1>1
  <2> QED
    BY <1>5, <1>6, <1>7, <1>10, <2>1, <2>2, Parsed
<1>12. CASE l \notin Pages
  <2>1. /\ Follow(<<f, l>>, <<"succ", l>>, PRIO_SUCCESS)
        /\ ldr' = [ldr EXCEPT ![l] = rt]
        /\ disk' = dk
    BY <1>3, <1>12 DEF rt, dk
  <2>2. "succ" \in Func /\ "succ" # f /\ PRIO_SUCCESS \in Nat
    BY FetchAssumption DEF Func
  <2> QED
    BY <1>1, <1>5, <1>6, <1>7, <1>10, <2>1, <2>2, Moved
<1> QED
  BY <1>11, <1>12

-----------------------------------------------------------------------------
(***************************************************************************)
(* Each action keeps the invariant.                                        *)
(***************************************************************************)

\* The location is reserved for the job that follows as it was before.
LEMMA LawfulSame ==
  ASSUME IInv, NEW f \in Func, NEW l \in Loader, Called(f, l),
         NEW g \in Func, NEW r,
         \A u \in Url : Reserves(g, r, u) <=> Reserves(f, ldr[l], u)
  PROVE  Lawful(f, ldr[l], disk, g, r, disk)
<1>1. <<f, l>> \in ToSet(queue)
  BY CalledLoader
<1>2. Careful => \A u \in Url : Reserves(f, ldr[l], u) => disk[u] = "busy"
  BY <1>1 DEF IInv, Good, Alone
<1> QED
  BY <1>2 DEF Lawful

\* A call of a job that changes neither the loader nor the cache.
LEMMA Waited ==
  ASSUME IInv, NEW f \in Func, NEW l \in Loader, Called(f, l),
         Keep(<<f, l>>) \/ \E order \in BOOLEAN : Age(<<f, l>>, order),
         UNCHANGED <<ldr, born, disk>>
  PROVE  IInv'
<1>1. /\ ldr[l] \in LoaderRecord
      /\ Reliable(f, l, ldr[l])
      /\ disk \in Items
      /\ <<f, l>> \in ToSet(queue)
  BY CalledLoader
<1>2. Lawful(f, ldr[l], disk, f, ldr[l], disk)
  BY LawfulSame
<1>3. ldr' = [ldr EXCEPT ![l] = ldr[l]]
  BY DEF IInv, TypeOK
<1> QED
  BY <1>1, <1>2, <1>3, Moved

\* A job that receives nothing takes the place of another, and the location
\* is not reserved for either.
LEMMA LawfulApart ==
  ASSUME NEW f \in Func \ {"chunked", "receive"}, NEW r0,
         NEW g \in Func \ {"chunked", "receive"}, NEW r, NEW d
  PROVE  Lawful(f, r0, d, g, r, d)
BY DEF Lawful, Reserves

LEMMA HeaderStep ==
  ASSUME IInv, NEW l \in Loader, HeaderJob(l)
  PROVE  IInv'
<1>1. Called("header", l) /\ "header" \in Func
  BY DEF HeaderJob, HeaderBusy, HeaderHit, HeaderFull, HeaderRetry, HeaderError,
         HeaderRedirect, HeaderWhole, HeaderBody, Connects, Func
<1>2. /\ ldr[l] \in LoaderRecord
      /\ Reliable("header", l, ldr[l])
      /\ disk \in Items
  BY <1>1, CalledLoader
<1>3. ~ldr[l].rdSocket /\ (ldr[l].PostBuf => l \in Posts)
  BY <1>2 DEF Reliable
<1>4. /\ FromFile(l) \in {<<"file", l>>, <<"succ", l>>}
      /\ FilePrio(l) \in Nat
  BY FetchAssumption DEF FromFile, FilePrio
<1>5. ASSUME NEW r \in LoaderRecord, ~r.rdSocket, r.PostBuf = ldr[l].PostBuf,
             ldr' = [ldr EXCEPT ![l] = r],
             UNCHANGED <<born, disk>>,
             \/ Keep(<<"header", l>>)
             \/ Follow(<<"header", l>>, FromFile(l), FilePrio(l))
      PROVE  IInv'
  <2>1. PICK g \in {"header", "file", "succ"} :
          \/ g = "header" /\ Keep(<<"header", l>>)
          \/ g # "header" /\ Follow(<<"header", l>>, <<g, l>>, FilePrio(l))
    BY <1>4, <1>5
  <2>2. g \in Func \ {"chunked", "receive"} /\ "header" \in Func \ {"chunked", "receive"}
    BY DEF Func
  <2>3. Reliable(g, l, r)
    BY <1>3, <1>5 DEF Reliable, Missing
  <2>4. Lawful("header", ldr[l], disk, g, r, disk)
    BY <2>2, LawfulApart
  <2> QED
    BY <1>1, <1>2, <1>4, <1>5, <2>1, <2>2, <2>3, <2>4, Moved
<1>6. CASE HeaderBusy(l) \/ HeaderFull(l)
  BY <1>1, <1>6, Waited DEF HeaderBusy, HeaderFull
<1>7. CASE HeaderHit(l)
  <2> DEFINE r == [ldr[l] EXCEPT !.Cached = TRUE]
  <2>1. r \in LoaderRecord /\ ~r.rdSocket /\ r.PostBuf = ldr[l].PostBuf
    BY <1>2, <1>3 DEF LoaderRecord
  <2>2. ldr' = [ldr EXCEPT ![l] = r]
    BY <1>7 DEF HeaderHit
  <2> HIDE DEF r
  <2> QED
    BY <1>5, <1>7, <2>1, <2>2 DEF HeaderHit
<1>8. CASE HeaderRetry(l)
  <2> DEFINE r == [ldr[l] EXCEPT !.Retry = @ - 1]
  <2>1. r \in LoaderRecord /\ ~r.rdSocket /\ r.PostBuf = ldr[l].PostBuf
    BY <1>2, <1>3, <1>8, FetchAssumption DEF LoaderRecord, HeaderRetry
  <2>2. ldr' = [ldr EXCEPT ![l] = r]
    BY <1>8 DEF HeaderRetry
  <2> HIDE DEF r
  <2> QED
    BY <1>5, <1>8, <2>1, <2>2 DEF HeaderRetry
<1>9. CASE HeaderError(l)
  <2>1. CASE l \in Pages
    <3> DEFINE r == [ldr[l] EXCEPT !.Data = TRUE]
    <3>1. r \in LoaderRecord /\ ~r.rdSocket /\ r.PostBuf = ldr[l].PostBuf
      BY <1>2, <1>3 DEF LoaderRecord
    <3>2. StartParser("header", l, [ldr EXCEPT ![l] = r], disk) /\ born' = born
      BY <1>9, <2>1 DEF HeaderError
    <3> HIDE DEF r
    <3>3. Reliable("parse", l, r)
      BY <1>3, <3>1 DEF Reliable, Missing
    <3>4. Lawful("header", ldr[l], disk, "parse", r, disk)
      BY LawfulApart DEF Func
    <3>5. "header" \in Func \ {"parse"}
      BY DEF Func
    <3> QED
      BY <1>1, <1>2, <3>1, <3>2, <3>3, <3>4, <3>5, Parsed
  <2>2. CASE l \notin Pages
    <3>1. "header" \in Func \ {"chunked", "receive"}
      BY DEF Func
    <3> QED
      BY <1>1, <1>9, <2>2, <3>1, Ended DEF HeaderError
  <2> QED
    BY <2>1, <2>2
<1>10. ASSUME NEW u \in Url, HeaderRedirect(l, u)
       PROVE  IInv'
  <2> DEFINE r == [ldr[l] EXCEPT !.Location = u, !.Cached = disk[u] = "local"]
  <2>1. r \in LoaderRecord /\ ~r.rdSocket /\ r.PostBuf = ldr[l].PostBuf
    BY <1>2, <1>3 DEF LoaderRecord
  <2>2. ldr' = [ldr EXCEPT ![l] = r]
    BY <1>10 DEF HeaderRedirect, IInv, TypeOK
  <2> HIDE DEF r
  <2> QED
    BY <1>5, <1>10, <2>1, <2>2 DEF HeaderRedirect
<1>11. CASE HeaderWhole(l)
  <2> DEFINE r == [ldr[l] EXCEPT !.body = "sized", !.Data = TRUE]
             d == Reserved(l)
  <2>1. /\ r \in LoaderRecord
        /\ r.Location = ldr[l].Location /\ r.Location \in Url
        /\ r.PostBuf = ldr[l].PostBuf
        /\ r.Data
    BY <1>2 DEF LoaderRecord, Body
  <2>2. /\ d \in Items
        /\ \A u \in Url : u # r.Location => d[u] = disk[u]
        /\ ~Gets(l) => d = disk
    BY <1>2, <2>1 DEF Reserved, Items
  <2>3. Finish("header", l, r, d) /\ born' = born
    BY <1>11 DEF HeaderWhole
  <2>4. Gets(l) => disk[r.Location] # "busy"
    BY <1>11, <2>1 DEF HeaderWhole, Connects, Says
  <2> HIDE DEF r, d
  <2> QED
    BY <1>1, <2>1, <2>2, <2>3, <2>4, Finished
<1>12. ASSUME NEW b \in Body, HeaderBody(l, b)
       PROVE  IInv'
  <2> DEFINE r == [ldr[l] EXCEPT !.rdSocket = TRUE, !.body = b,
                                 !.rdLeft = b = "sized", !.Data = b = "sized"]
             d == Reserved(l)
             g == IF b = "sized" THEN "receive" ELSE "chunked"
  <2>1. /\ r \in LoaderRecord
        /\ r.Location = ldr[l].Location /\ r.Location \in Url
        /\ r.PostBuf = ldr[l].PostBuf
        /\ r.body = b
        /\ r.Data = (b = "sized") /\ r.rdLeft = (b = "sized")
    BY <1>2 DEF LoaderRecord
  <2>2. /\ d \in Items
        /\ Gets(l) => d = [disk EXCEPT ![r.Location] = "busy"]
        /\ ~Gets(l) => d = disk
    BY <1>2, <2>1 DEF Reserved, Items
  <2>3. /\ ldr' = [ldr EXCEPT ![l] = r] /\ disk' = d /\ born' = born
        /\ Follow(<<"header", l>>, <<g, l>>, PRIO_RECIVE)
    BY <1>12 DEF HeaderBody, IInv, TypeOK
  <2>4. Gets(l) => disk[r.Location] # "busy"
    BY <1>12, <2>1 DEF HeaderBody, Connects, Says
  <2> HIDE DEF r, d
  <2>5. g \in Func /\ g # "header" /\ PRIO_RECIVE \in Nat
    BY FetchAssumption DEF Func
  <2>6. Reliable(g, l, r)
    BY <1>3, <2>1 DEF Reliable, Missing
  <2>7. Lawful("header", ldr[l], disk, g, r, d)
    <3>1. \A u \in Url : ~Reserves("header", ldr[l], u)
      BY DEF Reserves
    <3>2. \A u \in Url : Reserves(g, r, u) <=> Gets(l) /\ u = r.Location
      BY <2>1 DEF Reserves, Gets, Missing
    <3>3. CASE Gets(l)
      BY <1>2, <2>2, <2>4, <3>1, <3>2, <3>3 DEF Lawful, Items
    <3>4. CASE ~Gets(l)
      BY <2>2, <3>1, <3>2, <3>4 DEF Lawful
    <3> QED
      BY <3>3, <3>4
  <2> HIDE DEF g
  <2> QED
    BY <1>1, <2>1, <2>2, <2>3, <2>5, <2>6, <2>7, Moved
<1> QED
  BY <1>6, <1>7, <1>8, <1>9, <1>10, <1>11, <1>12 DEF HeaderJob

\* How chunked_job() leaves a record.
LEMMA ChunkedRecord ==
  ASSUME NEW r0 \in LoaderRecord, NEW r \in Chunked(r0)
  PROVE  /\ r \in LoaderRecord
         /\ r.Location = r0.Location /\ r.PostBuf = r0.PostBuf
         /\ r.body = r0.body /\ r.rdSocket = r0.rdSocket
         /\ Careful => r.rdLeft \/ r.Data
<1> DEFINE next == [r0 EXCEPT !.rdLeft = TRUE]
           full == [r0 EXCEPT !.rdLeft = FALSE, !.Data = TRUE]
           lost == [r0 EXCEPT !.rdLeft = FALSE, !.Data = FALSE]
<1>1. r \in {next, full, lost} /\ (Careful => r \in {next, full})
  BY DEF Chunked, NextBlock, Complete, Careful
<1>2. CASE r = next
  BY <1>2 DEF LoaderRecord
<1>3. CASE r = full
  BY <1>3 DEF LoaderRecord
<1>4. CASE r = lost /\ ~Careful
  BY <1>4 DEF LoaderRecord
<1> QED
  BY <1>1, <1>2, <1>3, <1>4

\* How the end of a block leaves a record.
LEMMA BlockEndRecord ==
  ASSUME NEW r0 \in LoaderRecord, NEW r \in BlockEnds(r0)
  PROVE  /\ r \in LoaderRecord
         /\ r.Location = r0.Location /\ r.PostBuf = r0.PostBuf
         /\ r.body = r0.body /\ r.Data = r0.Data
BY DEF BlockEnds, LoaderRecord

LEMMA ChunkedStep ==
  ASSUME IInv, NEW l \in Loader, ChunkedJob(l) \/ ChunkedWaits(l)
  PROVE  IInv'
<1>1. Called("chunked", l) /\ "chunked" \in Func /\ "receive" \in Func
  BY DEF ChunkedJob, ChunkedWaits, Func
<1>2. /\ ldr[l] \in LoaderRecord
      /\ Reliable("chunked", l, ldr[l])
      /\ disk \in Items
      /\ <<"chunked", l>> \in ToSet(queue)
  BY <1>1, CalledLoader
<1>3. CASE ChunkedWaits(l)
  BY <1>1, <1>3, Waited DEF ChunkedWaits
<1>4. CASE ChunkedJob(l)
  <2>1. PICK r \in Chunked(ldr[l]) :
          /\ ldr' = [ldr EXCEPT ![l] = r]
          /\ disk' = IF r.rdLeft THEN disk ELSE Held(l, r)
          /\ Follow(<<"chunked", l>>, <<"receive", l>>, prio[<<"chunked", l>>])
    BY <1>4 DEF ChunkedJob
  <2> DEFINE d == IF r.rdLeft THEN disk ELSE Held(l, r)
  <2>2. /\ r \in LoaderRecord
        /\ r.Location = ldr[l].Location /\ r.PostBuf = ldr[l].PostBuf
        /\ r.body = ldr[l].body
        /\ Careful => r.rdLeft \/ r.Data
    BY <1>2, ChunkedRecord
  <2>3. d \in Items
    BY <1>2 DEF Held, Items
  <2>4. Reliable("receive", l, r)
    BY <1>2, <2>2 DEF Reliable, Missing
  <2>5. prio[<<"chunked", l>>] \in Nat
    BY <1>1 DEF IInv, TypeOK, Job
  <2>6. Lawful("chunked", ldr[l], disk, "receive", r, d)
    <3>1. CASE r.rdLeft \/ r.Data
      <4>1. \A u \in Url : Reserves("receive", r, u)
                             <=> Reserves("chunked", ldr[l], u)
        BY <2>2, <3>1 DEF Reserves, Missing
      <4>2. d = disk
        BY <3>1 DEF Held
      <4> QED
        BY <1>1, <4>1, <4>2, LawfulSame
    <3>2. CASE ~r.rdLeft /\ ~r.Data
      <4>1. d = IF Gets(l) THEN [disk EXCEPT ![ldr[l].Location] = "none"]
                ELSE disk
        BY <2>2, <3>2 DEF Held
      <4>2. \A u \in Url : Reserves("chunked", ldr[l], u) =>
              Gets(l) /\ u = ldr[l].Location
        BY DEF Reserves, Gets
      <4>3. \A u \in Url : d[u] = "busy" =>
              disk[u] = "busy" /\ ~Reserves("chunked", ldr[l], u)
        BY <1>2, <4>1, <4>2 DEF Items
      <4>4. ~Careful
        BY <2>2, <3>2
      <4> HIDE DEF d
      <4> QED
        BY <4>3, <4>4 DEF Lawful
    <3> QED
      BY <3>1, <3>2
  <2>7. disk' = d /\ born' = born
    BY <1>4, <2>1 DEF ChunkedJob
  <2> HIDE DEF d
  <2>8. "receive" # "chunked"
    OBVIOUS
  <2> QED
    BY <1>1, <2>1, <2>2, <2>3, <2>4, <2>5, <2>6, <2>7, <2>8, Moved
<1> QED
  BY <1>3, <1>4

LEMMA ReceiveStep ==
  ASSUME IInv, NEW l \in Loader, ReceiveJob(l)
  PROVE  IInv'
<1> DEFINE loc == ldr[l].Location
<1>1. /\ Called("receive", l)
      /\ "receive" \in Func /\ "chunked" \in Func
  BY DEF ReceiveJob, ReceiveSome, ReceiveEnd, ReceiveLast, ReceiveNext,
         ReceiveHead, ReceiveComplete, Receives, Func
<1>2. /\ ldr[l] \in LoaderRecord
      /\ Reliable("receive", l, ldr[l])
      /\ disk \in Items
      /\ <<"receive", l>> \in ToSet(queue)
  BY <1>1, CalledLoader
<1>3. ASSUME ldr[l].rdLeft
      PROVE  Gets(l) => Reserves("receive", ldr[l], loc)
  BY <1>3 DEF Reserves, Missing, Gets
<1>4. ASSUME NEW order \in BOOLEAN, ReceiveSome(l, order)
      PROVE  IInv'
  BY <1>1, <1>4, Waited DEF ReceiveSome
<1>5. CASE ReceiveEnd(l)
  <2>1. PICK r \in BlockEnds(ldr[l]) : Finish("receive", l, r, disk)
    BY <1>5 DEF ReceiveEnd
  <2>2. /\ r \in LoaderRecord
        /\ r.Location = loc /\ r.PostBuf = ldr[l].PostBuf
        /\ r.Data = ldr[l].Data
    BY <1>2, BlockEndRecord
  <2>3. ldr[l].Data /\ ldr[l].rdLeft /\ born' = born
    BY <1>2, <1>5 DEF ReceiveEnd, Receives, Reliable
  <2> QED
    BY <1>1, <1>2, <1>3, <2>1, <2>2, <2>3, Finished
<1>6. CASE ReceiveLast(l)
  <2>1. PICK b \in BlockEnds(ldr[l]) : \E r \in Chunked(b) :
          ~r.rdLeft /\ Finish("receive", l, r, Held(l, r))
    BY <1>6 DEF ReceiveLast
  <2>2. PICK r \in Chunked(b) : ~r.rdLeft /\ Finish("receive", l, r, Held(l, r))
    BY <2>1
  <2> DEFINE d == Held(l, r)
  <2>3. /\ b \in LoaderRecord
        /\ b.Location = loc /\ b.PostBuf = ldr[l].PostBuf
    BY <1>2, BlockEndRecord
  <2>4. /\ r \in LoaderRecord
        /\ r.Location = loc /\ r.PostBuf = ldr[l].PostBuf
    BY <2>3, ChunkedRecord
  <2>5. /\ d \in Items
        /\ \A u \in Url : u # r.Location => d[u] = disk[u]
        /\ ~Gets(l) => d = disk
        /\ Gets(l) /\ ~r.Data => d[r.Location] # "busy"
    BY <1>2, <2>4 DEF Held, Items, LoaderRecord
  <2>6. ldr[l].rdLeft /\ born' = born
    BY <1>6 DEF ReceiveLast, Receives
  <2>7. Finish("receive", l, r, d)
    BY <2>2
  <2> HIDE DEF d
  <2> QED
    BY <1>1, <1>3, <2>4, <2>5, <2>6, <2>7, Finished
<1>7. CASE ReceiveNext(l)
  <2>1. PICK b \in BlockEnds(ldr[l]) : \E r \in Chunked(b) :
          r.rdLeft /\ ldr' = [ldr EXCEPT ![l] = r]
    BY <1>7 DEF ReceiveNext
  <2>2. PICK r \in Chunked(b) : r.rdLeft /\ ldr' = [ldr EXCEPT ![l] = r]
    BY <2>1
  <2>3. /\ b \in LoaderRecord
        /\ b.Location = loc /\ b.PostBuf = ldr[l].PostBuf
        /\ b.body = ldr[l].body
    BY <1>2, BlockEndRecord
  <2>4. /\ r \in LoaderRecord
        /\ r.Location = loc /\ r.PostBuf = ldr[l].PostBuf
        /\ r.body = ldr[l].body
    BY <2>3, ChunkedRecord
  <2>5. ldr[l].rdLeft /\ ldr[l].body # "sized"
    BY <1>7 DEF ReceiveNext, Receives
  <2>6. Reliable("receive", l, r)
    BY <1>2, <2>2, <2>4, <2>5 DEF Reliable, Missing
  <2>7. Lawful("receive", ldr[l], disk, "receive", r, disk)
    <3>1. \A u \in Url : Reserves("receive", r, u)
                           <=> Reserves("receive", ldr[l], u)
      BY <2>2, <2>4, <2>5 DEF Reserves, Missing
    <3> QED
      BY <1>1, <3>1, LawfulSame
  <2>8. /\ Age(<<"receive", l>>, TRUE)
        /\ disk' = disk /\ born' = born
    BY <1>7 DEF ReceiveNext
  <2> QED
    BY <1>1, <1>2, <2>2, <2>4, <2>6, <2>7, <2>8, Moved
<1>8. CASE ReceiveHead(l)
  <2>1. PICK r \in BlockEnds(ldr[l]) : ldr' = [ldr EXCEPT ![l] = r]
    BY <1>8 DEF ReceiveHead
  <2>2. /\ r \in LoaderRecord
        /\ r.Location = loc /\ r.PostBuf = ldr[l].PostBuf
        /\ r.body = ldr[l].body
    BY <1>2, BlockEndRecord
  <2>3. ldr[l].rdLeft /\ ldr[l].body = "chunks"
    BY <1>8 DEF ReceiveHead, Receives
  <2>4. Reliable("chunked", l, r)
    BY <1>2, <2>2, <2>3 DEF Reliable, Missing
  <2>5. Lawful("receive", ldr[l], disk, "chunked", r, disk)
    <3>1. \A u \in Url : Reserves("chunked", r, u)
                           <=> Reserves("receive", ldr[l], u)
      BY <2>2, <2>3 DEF Reserves, Missing
    <3> QED
      BY <1>1, <3>1, LawfulSame
  <2>6. /\ Follow(<<"receive", l>>, <<"chunked", l>>, prio[<<"receive", l>>])
        /\ disk' = disk /\ born' = born
    BY <1>8 DEF ReceiveHead
  <2>7. prio[<<"receive", l>>] \in Nat /\ "chunked" # "receive"
    BY <1>1 DEF IInv, TypeOK, Job
  <2> QED
    BY <1>1, <1>2, <2>1, <2>2, <2>4, <2>5, <2>6, <2>7, Moved
<1>9. CASE ReceiveComplete(l)
  <2>1. /\ Finish("receive", l, ldr[l], disk)
        /\ ~ldr[l].rdLeft /\ born' = born
    BY <1>9 DEF ReceiveComplete
  <2>2. ~ldr[l].Data => ~Reserves("receive", ldr[l], loc)
    BY <2>1 DEF Reserves, Missing
  <2>3. Careful /\ Gets(l) => Reserves("receive", ldr[l], loc)
    BY <1>2 DEF Reliable, Reserves, Gets
  <2> QED
    BY <1>1, <1>2, <2>1, <2>2, <2>3, Finished
<1> QED
  BY <1>4, <1>5, <1>6, <1>7, <1>8, <1>9 DEF ReceiveJob

\* loader_job(), the successors and the parser.
LEMMA OtherStep ==
  ASSUME IInv, NEW l \in Loader,
         LoaderJob(l) \/ Succ(l) \/ ParseEnd(l) \/ ParseMore(l)
  PROVE  IInv'
<1>1. CASE LoaderJob(l)
  <2> DEFINE r == [ldr[l] EXCEPT !.Data = TRUE]
  <2>1. /\ Called("file", l)
        /\ StartParser("file", l, [ldr EXCEPT ![l] = r], disk)
        /\ born' = born
    BY <1>1 DEF LoaderJob, IInv, TypeOK
  <2>2. "file" \in Func /\ "parse" \in Func
    BY DEF Func
  <2>3. /\ ldr[l] \in LoaderRecord
        /\ Reliable("file", l, ldr[l])
        /\ disk \in Items
    BY <2>1, <2>2, CalledLoader
  <2>4. r \in LoaderRecord /\ Reliable("parse", l, r)
    BY <2>3 DEF LoaderRecord, Reliable, Missing
  <2> HIDE DEF r
  <2>5. Lawful("file", ldr[l], disk, "parse", r, disk)
    BY <2>2, LawfulApart
  <2> QED
    BY <2>1, <2>2, <2>3, <2>4, <2>5, Parsed
<1>2. CASE Succ(l)
  <2>1. "succ" \in Func \ {"chunked", "receive"}
    BY DEF Func
  <2> QED
    BY <1>2, <2>1, Ended DEF Succ
<1>3. CASE ParseEnd(l)
  <2>1. "parse" \in Func \ {"chunked", "receive"}
    BY DEF Func
  <2> QED
    BY <1>3, <2>1, Ended DEF ParseEnd
<1>4. CASE ParseMore(l)
  <2>1. "parse" \in Func /\ FALSE \in BOOLEAN
    BY DEF Func
  <2> QED
    BY <1>4, <2>1, Waited DEF ParseMore
<1> QED
  BY <1>1, <1>2, <1>3, <1>4

LEMMA StartLoadStep ==
  ASSUME IInv, NEW l \in Loader, NEW u \in UrlsOf[l], NEW t \in TargetsOf[l],
         NEW post \in BOOLEAN, StartLoad(l, u, t, post)
  PROVE  IInv'
<1> DEFINE hit == ~post /\ disk[u] = "local"
           r   == New(u, t, post, hit)
           j   == IF hit THEN FromFile(l) ELSE <<"header", l>>
           p   == IF hit THEN FilePrio(l) ELSE PrioOf[l]
           pr  == [prio EXCEPT ![j] = p]
           Q   == ToSet(queue)
           ls  == [ldr EXCEPT ![l] = r]
<1>1. /\ TypeOK /\ IsInjective(queue) /\ Good(Q, ldr, disk)
      /\ \A m \in Loader : ldr[m] # Nil => m \in born
  BY DEF IInv
<1>2. /\ Q \subseteq Job
      /\ Serving(Q, ldr) /\ Sound(Q, ldr) /\ NothingLeftOver(Q, ldr, disk)
      /\ disk \in Items
      /\ Careful => Alone(Q, ldr, disk)
  BY <1>1 DEF Good
<1>3. ldr[l] = Nil /\ \A f \in Func : <<f, l>> \notin Q
  <2>1. ldr[l] = Nil
    BY <1>1 DEF StartLoad
  <2> QED
    BY <1>2, <2>1 DEF Serving
<1>4. PICK g \in {"header", "file", "succ"} : j = <<g, l>>
  BY DEF FromFile
<1>5. g \in Func /\ g \notin {"chunked", "receive"}
  BY DEF Func
<1>6. r \in LoaderRecord /\ ~r.rdSocket /\ (r.PostBuf => l \in Posts)
  BY FetchAssumption DEF New, LoaderRecord, StartLoad
<1>7. p \in Nat
  BY FetchAssumption DEF FilePrio
<1>8. pr \in [Job -> Nat]
  BY <1>1, <1>7 DEF TypeOK
<1>9. /\ born' = born \cup {l}
      /\ ldr' = ls
      /\ queue' = SortIn(queue, pr, j, TRUE)
      /\ prio' = pr
      /\ disk' = disk
  BY DEF StartLoad, Inserted
<1> HIDE DEF r, p, pr
<1>10. /\ queue' \in Seq(Job)
       /\ IsInjective(queue')
       /\ ToSet(queue') = Q \cup {<<g, l>>}
  <2>1. queue \in Seq(Job)
    BY <1>1 DEF TypeOK
  <2>2. j \in Job /\ j \notin Q
    BY <1>3, <1>4, <1>5 DEF Job
  <2>3. ToSet(queue') = Q \cup {j} /\ queue' \in Seq(Job) /\ IsInjective(queue')
    <3> HIDE DEF j
    <3> QED
      BY <1>1, <1>8, <1>9, <2>1, <2>2, InsertedJob
  <2> QED
    BY <1>4, <2>3
<1> DEFINE P == Q \cup {<<g, l>>}
<1>11. /\ ls \in [Loader -> LoaderRecord \cup {Nil}]
       /\ ls[l] = r /\ r # Nil
       /\ \A m \in Loader : m # l => ls[m] = ldr[m]
  BY <1>1, <1>6, NilAssumption DEF TypeOK
<1>12. ASSUME NEW m \in Loader, NEW h \in Func
       PROVE  <<h, m>> \in P <=> IF m = l THEN h = g ELSE <<h, m>> \in Q
  BY <1>3
<1>13. P \subseteq Job
  BY <1>2, <1>5 DEF Job
<1> HIDE DEF P, ls
<1>14. Serving(P, ls)
  BY <1>2, <1>5, <1>11, <1>12 DEF Serving
<1>15. Sound(P, ls)
  <2>1. Reliable(g, l, r)
    BY <1>5, <1>6 DEF Reliable, Missing
  <2> QED
    BY <1>2, <1>11, <1>12, <2>1 DEF Sound
<1>16. ASSUME NEW v \in Url, NEW m \in Loader, NEW h \in Func
       PROVE  <<h, m>> \in P /\ Reserves(h, ls[m], v)
                <=> <<h, m>> \in Q /\ Reserves(h, ldr[m], v)
  <2>1. ~Reserves(g, r, v)
    BY <1>5 DEF Reserves
  <2> QED
    BY <1>3, <1>11, <1>12, <2>1
<1>17. NothingLeftOver(P, ls, disk) /\ (Careful => Alone(P, ls, disk))
  <2>1. NothingLeftOver(P, ls, disk)
    BY <1>2, <1>16 DEF NothingLeftOver
  <2>2. ASSUME Careful
        PROVE  Alone(P, ls, disk)
    <3>1. Alone(Q, ldr, disk)
      BY <1>2, <2>2
    <3> HIDE DEF Q
    <3> SUFFICES ASSUME NEW v \in Url, NEW m \in Loader, NEW h \in Func,
                        <<h, m>> \in P, Reserves(h, ls[m], v)
                 PROVE  /\ disk[v] = "busy"
                        /\ \A n \in Loader : \A k \in Func :
                             <<k, n>> \in P /\ Reserves(k, ls[n], v) => n = m
      BY DEF Alone
    <3>2. <<h, m>> \in Q /\ Reserves(h, ldr[m], v)
      BY <1>16
    <3> QED
      BY <1>16, <3>1, <3>2, ZenonT(40) DEF Alone
  <2> QED
    BY <2>1, <2>2
<1>18. Good(ToSet(queue'), ldr', disk')
  <2>1. Good(P, ls, disk)
    BY <1>2, <1>11, <1>13, <1>14, <1>15, <1>17 DEF Good
  <2> QED
    BY <1>9, <1>10, <2>1 DEF P
<1>19. TypeOK'
  BY <1>1, <1>8, <1>9, <1>10, <1>18 DEF TypeOK, Good, Items
<1>20. \A m \in Loader : ldr'[m] # Nil => m \in born'
  BY <1>1, <1>9, <1>11
<1> QED
  BY <1>10, <1>18, <1>19, <1>20 DEF IInv

LEMMA ClearStep ==
  ASSUME IInv, NEW t \in Target, Clear(t)
  PROVE  IInv'
<1> DEFINE gone == JobsOf(queue, t)
<1>1. /\ TypeOK /\ IsInjective(queue) /\ Good(ToSet(queue), ldr, disk)
      /\ \A m \in Loader : ldr[m] # Nil => m \in born
  BY DEF IInv
<1>2. gone \in SUBSET ToSet(queue)
  BY DEF JobsOf
<1>3. /\ queue' = MoveOut(queue, gone)
      /\ prio' = [j \in Job |-> IF j \in gone THEN 0 ELSE prio[j]]
      /\ ldr' = Deleted(gone, ldr)
      /\ disk' = Aborted(gone, disk)
      /\ born' = born
  BY DEF Clear
<1> HIDE DEF gone
<1>4. /\ queue' \in Seq(Job)
      /\ ToSet(queue') = ToSet(queue) \ gone
      /\ IsInjective(queue')
  BY <1>1, <1>3, MoveOutElements, MoveOutKeeps DEF TypeOK
<1>5. Good(ToSet(queue) \ gone, Deleted(gone, ldr), Aborted(gone, disk))
  BY <1>1, <1>2, AbortedJobs
<1>6. Good(ToSet(queue'), ldr', disk')
  BY <1>3, <1>4, <1>5
<1>7. prio' \in [Job -> Nat]
  BY <1>1, <1>3 DEF TypeOK
<1>8. TypeOK'
  BY <1>1, <1>3, <1>4, <1>6, <1>7 DEF TypeOK, Good, Items
<1>9. \A m \in Loader : ldr'[m] # Nil => m \in born'
  BY <1>1, <1>3 DEF Deleted
<1> QED
  BY <1>4, <1>6, <1>8, <1>9 DEF IInv

LEMMA FileGoesStep ==
  ASSUME IInv, NEW u \in Url, FileGoes(u)
  PROVE  IInv'
<1> DEFINE Q == ToSet(queue)
<1>1. /\ disk' \in Items
      /\ disk \in Items
      /\ \A v \in Url : disk'[v] = "busy" <=> disk[v] = "busy"
  BY DEF FileGoes, IInv, TypeOK, Items
<1>2. UNCHANGED <<queue, prio, ldr, born>>
  BY DEF FileGoes
<1>3. Good(Q, ldr, disk')
  <2>1. Good(Q, ldr, disk)
    BY DEF IInv
  <2> HIDE DEF Q
  <2> QED
    BY <1>1, <2>1 DEF Good, NothingLeftOver, Alone
<1> QED
  BY <1>1, <1>2, <1>3 DEF IInv, TypeOK, Items

LEMMA InvInit == Init => IInv
<1> SUFFICES ASSUME Init
             PROVE  IInv
  OBVIOUS
<1>1. queue = <<>> /\ queue \in Seq(Job) /\ ToSet(queue) = {}
  BY EmptySeq DEF Init, ToSet
<1>2. IsInjective(queue)
  BY <1>1 DEF IsInjective
<1>3. /\ ldr = [l \in Loader |-> Nil]
      /\ \A u \in Url : disk[u] # "busy"
      /\ disk \in Items
  BY DEF Init, Items
<1>4. TypeOK
  BY <1>1, <1>3 DEF Init, TypeOK, Items
<1>5. Serving({}, ldr) /\ Sound({}, ldr)
  BY <1>3 DEF Serving, Sound
<1>6. NothingLeftOver({}, ldr, disk) /\ Alone({}, ldr, disk)
  BY <1>3 DEF NothingLeftOver, Alone
<1>7. Good({}, ldr, disk)
  BY <1>3, <1>4, <1>5, <1>6 DEF Good, TypeOK
<1> QED
  BY <1>1, <1>2, <1>3, <1>4, <1>7 DEF IInv

LEMMA InvStep == IInv /\ [Next]_vars => IInv'
<1> SUFFICES ASSUME IInv, [Next]_vars
             PROVE  IInv'
  OBVIOUS
<1>1. CASE Schedule
  <2>1. PICK l \in Loader :
          \/ HeaderJob(l)
          \/ ChunkedJob(l)
          \/ ChunkedWaits(l)
          \/ ReceiveJob(l)
          \/ LoaderJob(l)
          \/ Succ(l)
          \/ ParseMore(l)
          \/ ParseEnd(l)
    BY <1>1 DEF Schedule
  <2> QED
    BY <2>1, HeaderStep, ChunkedStep, ReceiveStep, OtherStep
<1>2. CASE \E l \in Loader : \E u \in UrlsOf[l], t \in TargetsOf[l],
             post \in BOOLEAN : StartLoad(l, u, t, post)
  BY <1>2, StartLoadStep
<1>3. CASE \E t \in Target : Clear(t)
  BY <1>3, ClearStep
<1>4. CASE \E u \in Url : FileGoes(u)
  BY <1>4, FileGoesStep
<1>5. CASE UNCHANGED vars
  BY <1>5 DEF vars, IInv, TypeOK
<1> QED
  BY <1>1, <1>2, <1>3, <1>4, <1>5 DEF Next

LEMMA Invariant == Spec => []IInv
BY InvInit, InvStep, PTL DEF Spec

-----------------------------------------------------------------------------
(***************************************************************************)
(* The properties.                                                         *)
(***************************************************************************)

LEMMA OneJobHolds == IInv => OneJob
<1> SUFFICES ASSUME IInv
             PROVE  OneJob
  OBVIOUS
<1> DEFINE Of(l) == {j \in ToSet(queue) : j[2] = l}
<1>1. /\ TypeOK /\ IsInjective(queue)
      /\ ToSet(queue) \subseteq Job /\ Serving(ToSet(queue), ldr)
  BY DEF IInv, Good
<1>2. ASSUME NEW l \in Loader
      PROVE  Cardinality(Of(l)) = IF ldr[l] = Nil THEN 0 ELSE 1
  <2>1. \A j \in Of(l) : j[1] \in Func /\ j = <<j[1], l>> /\ j \in ToSet(queue)
    BY <1>1, PartsOfJob
  <2>2. CASE ldr[l] = Nil
    <3>1. Of(l) = {}
      BY <1>1, <2>1, <2>2 DEF Serving
    <3> QED
      BY <2>2, <3>1, FS_EmptySet
  <2>3. CASE ldr[l] # Nil
    <3>1. PICK f \in Func : <<f, l>> \in ToSet(queue)
      BY <1>1, <2>3 DEF Serving
    <3>2. \A j \in Of(l) : j = <<f, l>>
      BY <1>1, <2>1, <3>1 DEF Serving
    <3>3. Of(l) = {<<f, l>>}
      BY <3>1, <3>2
    <3> QED
      BY <2>3, <3>3, FS_Singleton
  <2> QED
    BY <2>2, <2>3
<1> QED
  BY <1>1, <1>2 DEF OneJob

\* The jobs that receive are the ones that reserve.
LEMMA WhoReserves ==
  ASSUME IInv, NEW l \in Loader, NEW u \in Url
  PROVE  (/\ Receiving(l) \cap ToSet(queue) # {}
          /\ Gets(l)
          /\ ~Lost(l)
          /\ ldr[l].Location = u)
           <=> \E f \in Func : <<f, l>> \in ToSet(queue)
                               /\ Reserves(f, ldr[l], u)
<1>1. "receive" \in Func /\ "chunked" \in Func
  BY DEF Func
<1>2. <<"receive", l>> \notin ToSet(queue) \/ <<"chunked", l>> \notin ToSet(queue)
  BY <1>1 DEF IInv, Good, Serving
<1>3. ASSUME NEW f \in Func, <<f, l>> \in ToSet(queue), Reserves(f, ldr[l], u)
      PROVE  /\ Receiving(l) \cap ToSet(queue) # {}
             /\ Gets(l)
             /\ ~Lost(l)
             /\ ldr[l].Location = u
  BY <1>2, <1>3 DEF Reserves, Missing, Receiving, Gets, Lost
<1>4. ASSUME Receiving(l) \cap ToSet(queue) # {}, Gets(l), ~Lost(l),
             ldr[l].Location = u
      PROVE  \E f \in Func : <<f, l>> \in ToSet(queue)
                             /\ Reserves(f, ldr[l], u)
  <2>1. CASE <<"receive", l>> \in ToSet(queue)
    BY <1>1, <1>4, <2>1 DEF Reserves, Missing, Gets, Lost
  <2>2. CASE <<"chunked", l>> \in ToSet(queue)
    BY <1>1, <1>4, <2>2 DEF Reserves, Missing, Gets, Lost
  <2> QED
    BY <1>4, <2>1, <2>2 DEF Receiving
<1> QED
  BY <1>3, <1>4

LEMMA ExclusiveHolds == IInv /\ Careful => Exclusive
<1> SUFFICES ASSUME IInv, Careful, NEW u \in Url
             PROVE  Cardinality({l \in Loader :
                                   /\ Receiving(l) \cap ToSet(queue) # {}
                                   /\ Gets(l)
                                   /\ ~Lost(l)
                                   /\ ldr[l].Location = u})
                      = IF disk[u] = "busy" THEN 1 ELSE 0
  BY DEF Exclusive
<1> DEFINE Holders == {l \in Loader : /\ Receiving(l) \cap ToSet(queue) # {}
                                      /\ Gets(l)
                                      /\ ~Lost(l)
                                      /\ ldr[l].Location = u}
<1>1. \A l \in Loader : l \in Holders
        <=> \E f \in Func : <<f, l>> \in ToSet(queue) /\ Reserves(f, ldr[l], u)
  BY WhoReserves
<1>2. Holders \subseteq Loader
  OBVIOUS
<1> HIDE DEF Holders
<1>3. /\ NothingLeftOver(ToSet(queue), ldr, disk)
      /\ Alone(ToSet(queue), ldr, disk)
  BY DEF IInv, Good
<1>4. CASE disk[u] = "busy"
  <2>1. PICK l \in Loader : l \in Holders
    BY <1>1, <1>3, <1>4 DEF NothingLeftOver
  <2>2. \A m \in Holders : m = l
    BY <1>1, <1>2, <1>3, <2>1 DEF Alone
  <2>3. Holders = {l}
    BY <2>1, <2>2
  <2> QED
    BY <1>4, <2>3, FS_Singleton DEF Holders
<1>5. CASE disk[u] # "busy"
  <2>1. Holders = {}
    BY <1>1, <1>2, <1>3, <1>5 DEF Alone
  <2> QED
    BY <1>5, <2>1, FS_EmptySet DEF Holders
<1> QED
  BY <1>4, <1>5

LEMMA SocketsHold == IInv => SocketsOwned
<1> SUFFICES ASSUME IInv, NEW l \in Loader, Connected(l)
             PROVE  Receiving(l) \cap ToSet(queue) # {}
  BY DEF SocketsOwned
<1>1. PICK f \in Func : <<f, l>> \in ToSet(queue)
  BY DEF IInv, Good, Serving, Connected
<1>2. f \in {"chunked", "receive"}
  BY <1>1 DEF IInv, Good, Sound, Reliable, Connected
<1> QED
  BY <1>1, <1>2 DEF Receiving

\* Between two calls of schedule() every loader that exists is the argument
\* of exactly one job of the list, and no job has one that was deleted.
THEOREM LoadersServed == Spec => []OneJob
<1>1. IInv => OneJob
  BY OneJobHolds
<1> QED
  BY <1>1, Invariant, PTL

\* A location is reserved in the cache if and only if one loader receives it,
\* which is the only one, as long as the memory does not run out and no POST
\* is answered by anything but text; and an open connection has a job that
\* reads from it and closes it.
THEOREM OwnersKnown ==
  ASSUME "memory" \notin Faults, Posts \subseteq Texts
  PROVE  Spec => []Owners
<1>1. IInv => Owners
  BY ExclusiveHolds, SocketsHold DEF Owners, Careful
<1> QED
  BY <1>1, Invariant, PTL

\* Whatever fails: no loader waits for a reservation that nobody will give up,
\* because a loader that fetches the location has a job that does; and no
\* connection is forgotten.
Fetched ==
  \A u \in Url : disk[u] = "busy" =>
    \E l \in Loader : /\ Receiving(l) \cap ToSet(queue) # {}
                      /\ Gets(l)
                      /\ ldr[l].Location = u

\* Every reservation and every connection belongs to a job that is in the
\* list, even if the memory runs out or the peers hang up within a chunk.
THEOREM NothingForgotten == Spec => [](Fetched /\ SocketsOwned)
<1>1. IInv => Fetched
  <2> SUFFICES ASSUME IInv, NEW u \in Url, disk[u] = "busy"
               PROVE  \E l \in Loader :
                        /\ Receiving(l) \cap ToSet(queue) # {}
                        /\ Gets(l)
                        /\ ldr[l].Location = u
    BY DEF Fetched
  <2>1. PICK l \in Loader : \E f \in Func : <<f, l>> \in ToSet(queue)
                                            /\ Reserves(f, ldr[l], u)
    BY DEF IInv, Good, NothingLeftOver
  <2> QED
    BY <2>1, WhoReserves
<1>2. IInv => SocketsOwned
  BY SocketsHold
<1> QED
  BY <1>1, <1>2, Invariant, PTL

=============================================================================
