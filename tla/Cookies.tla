------------------------------ MODULE Cookies -------------------------------
(***************************************************************************)
(* The cookies (src/src/cookie.c): a list of jars, one for each host or    *)
(* domain, each with a few slots, the cookie set last in the first one.    *)
(* The jars are read from a file before the first request of a session and *)
(* written at its end if jar_changed says so.                              *)
(*                                                                         *)
(* A name or a character of a path is a model value; a path is what        *)
(* follows the first slash, so that <<>> is the NULL of a cookie for the   *)
(* whole server; a value is its length, two of one length are not told     *)
(* apart.  Memory suffices, a cache directory is configured, and no value  *)
(* has white space in it, at which jar_load() would stop reading.          *)
(***************************************************************************)
EXTENDS Integers, FiniteSets, Sequences, SequencesExt, Picks

CONSTANTS
  JarSize,   \* numberof(jar->Cookie)
  SetSize,   \* numberof(cset->Cookie)
  Host, Domain,
  Members,   \* of each domain, the hosts whose name ends with it
  Name,
  Paths,     \* the directories of the pages, and what PATH= says
  MaxValue,  \* the longest value
  MaxTime,   \* the time goes from 1 to MaxTime
  Expiries,  \* when cookies expire, 0: at the end of the session
  Contents,  \* the values that come, each with such a time
  MaxSets,   \* cookies that come, over all sessions
  Refusable, \* the hosts that the user may forbid to set cookies
  Careless,  \* what else is let happen:
             \*   "expire"  a cookie of a full jar expires
             \*   "update"  a cookie changes in place, nothing else does
  Nil

ASSUME JarSizeAssumption == JarSize \in Nat \ {0}
\* For a single place, Cookie[-1] would be read.
ASSUME SetSizeAssumption == SetSize \in Nat \ {0, 1}
ASSUME MembersAssumption == Members \in [Domain -> SUBSET Host]
\* A path begins with the directories it is in.
ASSUME PathsAssumption ==
  \A p \in Paths : /\ p \in Seq(Range(p))
                   /\ \A k \in 0 .. Len(p) : SubSeq(p, 1, k) \in Paths
ASSUME BoundsAssumption == MaxValue \in Nat /\ MaxSets \in Nat
ASSUME TimeAssumption == MaxTime \in Nat \ {0} /\ Expiries \subseteq 0 .. MaxTime
ASSUME ContentsAssumption == Contents \subseteq (1 .. MaxValue) \X Expiries
ASSUME CarelessAssumption == Careless \subseteq {"expire", "update"}

VARIABLES
  jars,     \* jar_list
  changed,  \* jar_changed
  file,     \* cookies.dat: for each jar its host, domain and cookies
  torn,     \* the last of these ends before its last line does
  running,  \* a session is on
  loaded,   \* jar_load() was called in it
  refused,  \* the hosts with the flag 'C'
  now,      \* time()
  sets,     \* cookies that came
  capitals, \* history: the domains that a server wrote in capitals
  spoilt    \* history: the jars of which a torn cookie was read, each by its
            \* host and domain

vars == <<jars, changed, file, torn, running, loaded, refused, now, sets,
          capitals, spoilt>>

Slot == 1 .. JarSize

Cookie == [name : Name, path : Paths, value : 1 .. MaxValue,
           expires : Expiries, max : 1 .. MaxValue]

ASSUME NilAssumption == Nil \notin Domain \cup Cookie

TypeOK ==
  /\ \A n \in DOMAIN jars :
       jars[n] \in [host : Host, dom : Domain \cup {Nil},
                    slots : [Slot -> Cookie \cup {Nil}]]
  /\ \A n \in DOMAIN file :
       /\ file[n].host \in Host /\ file[n].dom \in Domain \cup {Nil}
       /\ Len(file[n].cookies) \in Slot
       /\ \A i \in DOMAIN file[n].cookies : file[n].cookies[i] \in Cookie
  /\ {changed, running, loaded, torn} \subseteq BOOLEAN
  /\ torn => file # <<>>
  /\ refused \subseteq Refusable
  /\ now \in 1 .. MaxTime /\ sets \in 0 .. MaxSets
  /\ capitals \subseteq Domain
  /\ spoilt \subseteq Host \X (Domain \cup {Nil})

Init ==
  /\ jars = <<>> /\ file = <<>> /\ torn = FALSE
  /\ changed = FALSE /\ running = FALSE /\ loaded = FALSE
  /\ refused = {}
  /\ now = 1 /\ sets = 0
  /\ capitals = {} /\ spoilt = {}

-----------------------------------------------------------------------------
(***************************************************************************)
(* The slots of a jar.  Every loop ends at the first empty one.            *)
(***************************************************************************)
Empty == [i \in Slot |-> Nil]

Shown(s) == {i \in Slot : \A q \in 1 .. i : s[q] # Nil}

First(S) == CHOOSE i \in S : \A q \in S : i <= q

\* destroy_cookie(): the len slots from i on close up.
Destroyed(s, i, len) ==
  LET last == IF len > 1 THEN i + len - 1 ELSE i
  IN  [q \in Slot |-> IF q < i \/ q > last THEN s[q]
                      ELSE IF q = last THEN Nil ELSE s[q + 1]]

\* ck_ptr and n at the slot i, in cookie_set()
\* Mutant: the slots behind i without it, as in cookie_Jar().
BehindShort(i) == JarSize - i

Behind(i) == JarSize - i + 1

Expired(c) == c.expires # 0 /\ c.expires <= now

\* cookie_Jar(), the cookies that have expired: the length is one too short,
\* in a jar that is full the last slot does not move, and its cookie is left
\* behind an empty one.
Purged(s) ==
  LET step[n \in 0 .. JarSize] ==
        IF n = 0 THEN s
        ELSE LET t == step[n - 1]
                 gone == {i \in Shown(t) : Expired(t[i])}
             IN  IF gone = {} THEN t
                 ELSE Destroyed(t, First(gone), JarSize - First(gone))
  IN  step[JarSize]

\* A cookie comes to the front, those up to the slot e, where it was, or
\* which is empty, behind it.
ToFront(s, e, c) ==
  [q \in Slot |-> IF q = 1 THEN c ELSE IF q <= e THEN s[q - 1] ELSE s[q]]

\* A jar that is full loses its last cookie.
Room(s) == IF Shown(s) = Slot THEN Destroyed(s, JarSize, 0) ELSE s

-----------------------------------------------------------------------------
(***************************************************************************)
(* jar_save() and jar_load().                                              *)
(***************************************************************************)
Alive(c) == c.expires > now

Kept(s) == {i \in Shown(s) : Alive(s[i])}

Saved ==
  Picked([n \in DOMAIN jars |->
            [host |-> jars[n].host, dom |-> jars[n].dom,
             cookies |-> Picked(jars[n].slots, Kept(jars[n].slots))]],
         {n \in DOMAIN jars : Kept(jars[n].slots) # {}})

\* What is on the disk if writing ends in the k-th cookie of the n-th jar, or
\* behind it.  A line H or C that is cut short ends jar_load() as well.
Cut(text, n, k) ==
  [m \in 1 .. n |-> IF m < n THEN text[m]
                    ELSE [text[m] EXCEPT !.cookies = SubSeq(@, 1, k)]]

\* The line C of a torn cookie gives the lengths, of the path what is left of
\* it; the name and the path are read in part, or not at all, and then what
\* was in the memory stands for them.
Misread(c) ==
  {m \in Cookie : /\ m = [c EXCEPT !.name = m.name, !.path = m.path]
                  /\ Len(m.path) <= Len(c.path)
                  /\ m.path = <<>> <=> c.path = <<>>}

Ended(j, c) == [j EXCEPT !.cookies = Front(@) \o <<c>>]

Readings ==
  IF torn THEN {Front(file) \o <<Ended(Last(file), c)>> :
                  c \in Misread(Last(Last(file).cookies))}
  ELSE {file}

\* ValueMax is not saved.
Read(c) == [c EXCEPT !.max = c.value]

\* Cookies that have expired, and those of a host that is refused now, are
\* skipped.
Wanted(j) == {i \in DOMAIN j.cookies : /\ j.host \notin refused
                                        /\ j.cookies[i].expires >= now}

Filled(cookies) ==
  [i \in Slot |-> IF i <= Len(cookies) THEN Read(cookies[i]) ELSE Nil]

Loaded(text) ==
  Picked([n \in DOMAIN text |->
            [host |-> text[n].host, dom |-> text[n].dom,
             slots |-> Filled(Picked(text[n].cookies, Wanted(text[n])))]],
         {n \in DOMAIN text : Wanted(text[n]) # {}})

Skips == \E n \in DOMAIN file : Wanted(file[n]) # DOMAIN file[n].cookies

-----------------------------------------------------------------------------
(***************************************************************************)
(* cookie_Jar(): the cookies for a request, those with the longest path    *)
(* first, and if there are too many only these.                            *)
(***************************************************************************)
JarMatches(j, h) == IF j.dom = Nil THEN j.host = h ELSE h \in Members[j.dom]

At(js, x) == js[x[1]].slots[x[2]]

Length(js, x) == Len(At(js, x).path)

\* Mutant: no cookie is taken when the array is full.
InsertFull(js, set, x) ==
  IF Len(set) = SetSize THEN set
  ELSE InsertAt(set, 1 + Cardinality({k \in DOMAIN set :
                             Length(js, set[k]) >= Length(js, x)}), x)

Insert(js, set, x) ==
  IF Len(set) = SetSize /\ Length(js, set[SetSize]) >= Length(js, x) THEN set
  ELSE LET kept == IF Len(set) = SetSize THEN Front(set) ELSE set
       IN  InsertAt(kept, 1 + Cardinality({k \in DOMAIN kept :
                                Length(js, kept[k]) >= Length(js, x)}), x)

\* All slots of the jars, one jar after the other
Places(js) ==
  [k \in 1 .. Len(js) * JarSize |->
     <<1 + ((k - 1) \div JarSize), 1 + ((k - 1) % JarSize)>>]

Matches(js, h, path, x) ==
  /\ JarMatches(js[x[1]], h)
  /\ x[2] \in Shown(js[x[1]].slots)
  /\ IsPrefix(At(js, x).path, path)

Matching(js, h, path) ==
  Picked(Places(js),
         {k \in DOMAIN Places(js) : Matches(js, h, path, Places(js)[k])})

Collected(js, h, path) ==
  LET all == Matching(js, h, path)
      set[k \in 0 .. Len(all)] ==
        IF k = 0 THEN <<>> ELSE Insert(js, set[k - 1], all[k])
  IN  set[Len(all)]

PurgedFor(js, h) ==
  [n \in DOMAIN js |-> IF JarMatches(js[n], h)
                       THEN [js[n] EXCEPT !.slots = Purged(@)] ELSE js[n]]

\* Such a jar
Strands(js, h) ==
  \E n \in DOMAIN js : /\ JarMatches(js[n], h) /\ Shown(js[n].slots) = Slot
                        /\ \E i \in Slot : Expired(js[n].slots[i])

\* The flag of the host is looked at after the file was read.  What is sent,
\* Collected, leaves the jars as they are.
Request(h) ==
  /\ running
  /\ \E text \in Readings :
       LET old == IF loaded THEN jars ELSE Loaded(text)
           new == PurgedFor(old, h)
       IN  /\ "expire" \in Careless \/ ~Strands(old, h)
           /\ jars' = IF h \in refused THEN old ELSE new
           /\ changed' = (\/ changed
                          \/ ~loaded /\ Skips
                          \/ jars' # old)
  /\ loaded' = TRUE
  /\ spoilt' = IF ~loaded /\ torn
               THEN spoilt \cup {<<Last(file).host, Last(file).dom>>}
               ELSE spoilt
  /\ UNCHANGED <<file, torn, running, refused, now, sets, capitals>>

-----------------------------------------------------------------------------
(***************************************************************************)
(* cookie_set(): an answer to a request to h sets a cookie, for the domain *)
(* d of h, or for h alone.  One for another domain, or that does not name  *)
(* a directory, is dropped; of the path it asks for, the part counts that  *)
(* the page's own begins with.                                             *)
(***************************************************************************)
Common(asked, path) ==
  LET k == CHOOSE k \in 0 .. Len(path) :
             /\ k <= Len(asked) /\ SubSeq(asked, 1, k) = SubSeq(path, 1, k)
             /\ \/ k = Len(path) \/ k = Len(asked)
                \/ asked[k + 1] # path[k + 1]
  IN  SubSeq(path, 1, k)

CommonPaths == {Common(asked, page) : asked, page \in Paths}

JarOf(h, d) ==
  {n \in DOMAIN jars : IF d = Nil THEN jars[n].dom = Nil /\ jars[n].host = h
                       ELSE jars[n].dom = d}

\* A comparison with the path NULL is undefined: the program may end, which
\* is a Crash, or go on as if the paths differed.
Same(s, name, path) ==
  {i \in Shown(s) : s[i].name = name /\ s[i].path = path}

\* The jars that match what the answer says.  create_jar() has written the
\* domain in lower case, and the comparison is with the domain as it came.
Found(h, d, lower) == IF lower THEN JarOf(h, d) ELSE {}

\* The jar, which is created when there is none, and its place
Opened(h, d, found) ==
  IF found = {} THEN <<[host |-> h, dom |-> d, slots |-> Empty]>> \o jars
  ELSE jars

OpenedAt(found) == IF found = {} THEN 1 ELSE First(found)

Comes(h) ==
  /\ running /\ loaded
  /\ h \notin refused
  /\ sets < MaxSets
  /\ sets' = sets + 1
  /\ UNCHANGED <<file, torn, running, loaded, refused, now, spoilt>>

Create(h, d, found, c) ==
  /\ Comes(h)
  /\ LET js == Opened(h, d, found)
         n  == OpenedAt(found)
         s  == Room(js[n].slots)
     IN  /\ Same(js[n].slots, c.name, c.path) = {}
         /\ jars' = [js EXCEPT ![n].slots =
                       ToFront(s, First({i \in Slot : s[i] = Nil}),
                               [c EXCEPT !.max = c.value])]
  /\ changed' = TRUE

\* The file is marked as old only if the value does not fit.
Change(h, found, c) ==
  /\ Comes(h)
  /\ found # {}
  /\ LET n == First(found)
         s == jars[n].slots
         i == First(Same(s, c.name, c.path))
         k == [s[i] EXCEPT !.value = c.value,
                           !.max = IF s[i].max < c.value THEN c.value ELSE @,
                           !.expires = IF c.expires # 0 THEN c.expires ELSE @]
     IN  /\ Same(s, c.name, c.path) # {}
         /\ jars' = [jars EXCEPT ![n].slots = ToFront(s, i, k)]
         /\ changed' = (changed \/ s[i].max < c.value)
         /\ \/ "update" \in Careless \/ changed'
            \/ k.expires = 0 \/ [k EXCEPT !.max = s[i].max] = s[i]

\* EXPIRES= a time that is over, by the server's own clock
\* Mutant: the file is not marked as old.
DeleteQuiet(h, found, c) ==
  /\ Comes(h)
  /\ found # {}
  /\ LET n == First(found)
         s == jars[n].slots
         same == Same(s, c.name, c.path)
     IN  /\ same # {}
         /\ jars' = [jars EXCEPT ![n].slots =
                       Destroyed(s, First(same), Behind(First(same)))]
         /\ UNCHANGED changed

Delete(h, found, c) ==
  /\ Comes(h)
  /\ found # {}
  /\ LET n == First(found)
         s == jars[n].slots
         same == Same(s, c.name, c.path)
     IN  /\ same # {}
         /\ jars' = [jars EXCEPT ![n].slots =
                       Destroyed(s, First(same), Behind(First(same)))]
         /\ changed' = TRUE

\* page: the directory of the page.  A time that is over deletes; it is stored
\* only if the answer has no date to compare it with, and then the next
\* request removes the cookie.  lower: DOMAIN= is in lower case.
Set(h) ==
  \E d \in {Nil} \cup {e \in Domain : h \in Members[e]}, lower \in BOOLEAN,
     name \in Name, path \in CommonPaths, new \in Contents :
    LET c == [name |-> name, path |-> path, value |-> new[1],
              expires |-> new[2], max |-> new[1]]
        found == Found(h, d, lower)
    IN  /\ d = Nil => lower
        /\ Create(h, d, found, c) \/ Change(h, found, c) \/ Delete(h, found, c)
        /\ capitals' = IF lower THEN capitals ELSE capitals \cup {d}

-----------------------------------------------------------------------------
Start ==
  /\ ~running
  /\ running' = TRUE
  /\ refused' \in SUBSET Refusable
  /\ UNCHANGED <<jars, changed, file, torn, loaded, now, sets, capitals,
                 spoilt>>

Over ==
  /\ running
  /\ running' = FALSE /\ loaded' = FALSE
  /\ jars' = <<>> /\ changed' = FALSE /\ refused' = {}
  /\ UNCHANGED <<now, sets, capitals, spoilt>>

\* jar_save() is registered by the first request.
Exit ==
  /\ Over
  /\ IF loaded /\ changed THEN file' = Saved /\ torn' = FALSE
     ELSE UNCHANGED <<file, torn>>

\* The program, or the computer, stops, ...
Crash == Over /\ UNCHANGED <<file, torn>>

\* ... while the file is written, which is empty at first.
CrashSaving ==
  /\ Over
  /\ loaded /\ changed
  /\ \/ file' = <<>> /\ torn' = FALSE
     \/ \E n \in DOMAIN Saved : \E k \in DOMAIN Saved[n].cookies :
          file' = Cut(Saved, n, k) /\ torn' \in BOOLEAN

Tick ==
  /\ now < MaxTime
  /\ now' = now + 1
  /\ UNCHANGED <<jars, changed, file, torn, running, loaded, refused, sets,
                 capitals, spoilt>>

Next ==
  \/ \E h \in Host : Request(h) \/ Set(h)
  \/ Start \/ Exit \/ Crash \/ CrashSaving
  \/ Tick

Spec == Init /\ [][Next]_vars

-----------------------------------------------------------------------------
(***************************************************************************)
(* Properties.                                                             *)
(***************************************************************************)

\* There is one jar for a host, and one for a domain as long as no server
\* writes it in capitals; its cookies are in the first slots, a cookie behind
\* an empty one is never sent, never found and never saved; and no two have
\* the same name and path: the server that sets one again, or removes it,
\* would see the other one come back.  (A cookie whose name or path was lost
\* with the end of the file may be taken for any other of its jar.)
Jars ==
  /\ TypeOK
  /\ \A n \in DOMAIN jars :
       /\ \/ jars[n].dom \in capitals
          \/ JarOf(jars[n].host, jars[n].dom) = {n}
       /\ \A i \in Slot : jars[n].slots[i] # Nil => i \in Shown(jars[n].slots)
       /\ <<jars[n].host, jars[n].dom>> \notin spoilt =>
            \A i, k \in Shown(jars[n].slots) :
              jars[n].slots[i].name = jars[n].slots[k].name
                /\ jars[n].slots[i].path = jars[n].slots[k].path => i = k

\* A request that is made now, and strands none, has no cookie that has
\* expired, or is for another directory; it has all of the others once, those
\* with a longer path first, and where the array was too small those with the
\* longest.
Sent ==
  \A h \in Host \ refused, path \in Paths :
    (\E n \in DOMAIN jars : JarMatches(jars[n], h)) /\ ~Strands(jars, h) =>
    \A js \in {PurgedFor(jars, h)} :
    LET set == Collected(js, h, path)
        due == {x \in (DOMAIN jars) \X Slot :
                  /\ JarMatches(js[x[1]], h)
                  /\ At(js, x) # Nil /\ ~Expired(At(js, x))
                  /\ IsPrefix(At(js, x).path, path)}
    IN  /\ IsInjective(set) /\ Range(set) \subseteq due
        /\ Range(set) = due \/ Len(set) = SetSize
        /\ \A k \in 2 .. Len(set) :
             Length(js, set[k - 1]) >= Length(js, set[k])
        /\ \A x \in due \ Range(set), k \in DOMAIN set :
             Length(js, set[k]) >= Length(js, x)

\* As long as the jars are not marked as changed, they hold the cookies of
\* the file that have not expired, the torn one as some reading of it, and no
\* others that outlive the session: its end would not store them.
Stored ==
  running /\ loaded /\ ~changed =>
    \E text \in Readings :
      UNION {{<<jars[n].host, jars[n].dom, [c EXCEPT !.max = c.value]>> :
                c \in {jars[n].slots[i] : i \in Kept(jars[n].slots)}} :
               n \in DOMAIN jars}
      = UNION {{<<text[n].host, text[n].dom, [c EXCEPT !.max = c.value]>> :
                  c \in {k \in Range(text[n].cookies) : Alive(k)}} :
                 n \in DOMAIN text}

=============================================================================
