-------------------------------- MODULE Http --------------------------------
(***************************************************************************)
(* One answer of a server, from the first byte of its header to the last   *)
(* of its body: http_header() (src/src/http.c), which header_job() calls,  *)
(* and then either the loader's chunked_job() and receive_job()            *)
(* (src/src/Loader.c) or, for a download, recv_job() (src/src/dl_mngr.c).  *)
(*                                                                         *)
(* The bytes come in packets of any size, the peer may hang up after any   *)
(* of them or stay silent.  A token stands for some bytes of the answer: a *)
(* packet may end between any two.  A line is at least two tokens and its  *)
(* end, the size of a chunk is one, so that the frame of a chunk has as    *)
(* many tokens as bytes at the least: CR LF hex CR LF.                     *)
(*                                                                         *)
(* Redirections and authorizations make a new connection for a new answer, *)
(* as the retries here do; their loaders are the subject of Fetch.         *)
(***************************************************************************)
EXTENDS Integers, Sequences, FiniteSets, SequencesExt, FiniteSetsExt

CONSTANTS
  PayloadLen,  \* the number of bytes that the server has to send
  Chunkings,   \* the ways to divide them into chunks: sequences of sizes
  Interim,     \* may the answer be preceded by one with the code 100?
  Apart,       \* does the server wait, if so, until that one is read?
  Cuts,        \* how often the peer may hang up before the end
  Timeouts,    \* may the header time out?
  Retries,     \* conn_retry
  HeadMax,     \* sizeof(buffer) - 4 in http_header()
  TempMax,     \* sizeof(rdTemp), a loader's buffer for chunk heads
  BUF_SIZE,    \* the buffer of a download
  Block        \* 8192, what is received at once when no size is known

\* The buffers hold what a frame needs at least; a header fits its buffer.
\* (http_header() stops at the end of its buffer, whatever is still to come.)
ASSUME BufferAssumption ==
  /\ PayloadLen \in Nat
  /\ TempMax \in Nat /\ TempMax > 5
  /\ BUF_SIZE \in Nat /\ BUF_SIZE >= TempMax
  /\ HeadMax \in Nat /\ HeadMax > TempMax + 12
  /\ Block \in Nat \ {0}
  /\ Retries \in Nat
  /\ Cuts \in Nat

ASSUME ChunkAssumption ==
  \A c \in Chunkings :
    /\ \A i \in DOMAIN c : c[i] \in Nat \ {0}
    /\ FoldLeft(LAMBDA a, b : a + b, 0, c) = PayloadLen

VARIABLES
  mode,    \* "load" (a page, an image) or "download"
  form,    \* how the length of the body is told: "sized", "chunks", "open"
  pc,      \* which function is called next
  wire,    \* the tokens that are still to be received
  cut,     \* the peer has hung up too early, or the header has timed out
  cuts,    \* how often he may still do so
  conn,    \* the connection is open
  retry,   \* loader->Retry
  reply,   \* http_header()'s reply, 0 if there is none yet
  text,    \* from ln_beg to ln_end: the line that is not complete yet
  left,    \* the free bytes in http_header()'s buffer
  hdr,     \* what the header has told: [Size, Chunked]
  buf,     \* hdr.Tail, then rdTemp or the buffer of the download
  Chnk,    \* of a download
  rdLeft,  \* of a loader: what the current block lacks
  file,    \* what was stored: the loader's data or the target file
  result   \* how it ended

vars == <<mode, form, pc, wire, cut, cuts, conn, retry, reply, text, left, hdr,
          buf, Chnk, rdLeft, file, result>>

hvars == <<reply, text, left, hdr>>
bvars == <<buf, Chnk, rdLeft, file>>

-----------------------------------------------------------------------------
(***************************************************************************)
(* The answers of the server.                                              *)
(***************************************************************************)
Forms == {"sized", "chunks", "open"}

NL == <<"nl", 0>>
CR == <<"cr", 0>>

Payload == [i \in 1 .. PayloadLen |-> <<"byte", i>>]

Status(code) == << <<"http", 0>>, <<"code", code>>, NL >>

Field(name, n) == << <<"field", 0>>, <<name, n>>, NL >>

FieldOf(f) ==
  CASE f = "sized"  -> Field("length", PayloadLen)
    [] f = "chunks" -> Field("chunked", 0)
    [] f = "open"   -> Field("other", 0)

HeadFor(f) == Status(200) \o FieldOf(f) \o << NL >>

Frame(n) == << <<"hex", n>>, CR, NL >>

Chunked(c) ==
  LET add(s, n) == [at |-> s.at + n,
                    out |-> s.out \o Frame(n)
                              \o SubSeq(Payload, s.at + 1, s.at + n)
                              \o << CR, NL >>]
  IN  FoldLeft(add, [at |-> 0, out |-> <<>>], c).out
        \o Frame(0) \o << CR, NL >>

ChunkedBodies == {Chunked(c) : c \in Chunkings}

Bodies(f) == IF f = "chunks" THEN ChunkedBodies ELSE {Payload}

Answers ==
  [f \in Forms |->
    {before \o HeadFor(f) \o body :
       before \in {<<>>} \cup (IF Interim THEN {Status(100) \o << NL >>} ELSE {}),
       body \in Bodies(f)}]

-----------------------------------------------------------------------------
Modes == {"load", "download"}

NoHeader == [Size |-> -1, Chunked |-> FALSE]

TypeOK ==
  /\ mode \in Modes
  /\ form \in Forms
  /\ pc \in {"header", "answer", "recv", "chunked", "receive", "done"}
  /\ cut \in BOOLEAN
  /\ cuts \in 0 .. Cuts
  /\ conn \in BOOLEAN
  /\ retry \in 0 .. Retries
  /\ left \in 0 .. HeadMax
  /\ Len(buf) <= IF mode = "load" THEN TempMax ELSE BUF_SIZE
  /\ Chnk \in -1 .. PayloadLen
  /\ rdLeft \in 0 .. PayloadLen + Block
  /\ result \in {"none", "ok", "broken", "error"}

Init ==
  /\ mode \in Modes
  /\ form \in Forms
  /\ pc = "header"
  /\ wire \in Answers[form]
  /\ cut = FALSE
  /\ cuts = Cuts
  /\ conn = TRUE
  /\ retry = Retries
  /\ reply = 0
  /\ text = <<>>
  /\ left = HeadMax
  /\ hdr = NoHeader
  /\ buf = <<>>
  /\ Chnk = 0
  /\ rdLeft = 0
  /\ file = <<>>
  /\ result = "none"

-----------------------------------------------------------------------------
(***************************************************************************)
(* The connection: inet_recv() returns some bytes, at most n, or an error  *)
(* when the peer has hung up and nothing is left; in between it returns 0, *)
(* with which nothing happens.                                             *)
(***************************************************************************)
Packets(n) == 1 .. Min({n, Len(wire)})

Took(k) == SubSeq(wire, 1, k)

Receives(k) == wire' = SubSeq(wire, k + 1, Len(wire))

Reset == wire = <<>>

\* The peer hangs up: what he has not sent yet never comes.
HangUp ==
  /\ cuts > 0
  /\ cuts' = cuts - 1
  /\ conn
  /\ wire # <<>>
  /\ pc \in {"header", "recv", "chunked", "receive"}
  /\ wire' = <<>>
  /\ cut' = TRUE
  /\ UNCHANGED <<mode, form, pc, conn, retry, hvars, bvars, result>>

-----------------------------------------------------------------------------
(***************************************************************************)
(* http_header(): the loop that receives and takes apart the header.       *)
(***************************************************************************)
Has(s, t) == \E i \in DOMAIN s : s[i] = t

\* The first end of a line in s
FirstNL(s) == CHOOSE i \in DOMAIN s : s[i] = NL /\ ~Has(SubSeq(s, 1, i - 1), NL)

LastNL(s) == CHOOSE i \in DOMAIN s : s[i] = NL /\ ~Has(SubSeq(s, i + 1, Len(s)), NL)

After(s, i) == SubSeq(s, i + 1, Len(s))

\* The empty line in s, which begins with a line
BlankLines(s) == {i \in DOMAIN s : s[i] = NL /\ (i = 1 \/ s[i - 1] = NL)}

\* content_length(), transfer_enc(), for the complete lines in s
Told(s, h) ==
  [Size |-> IF \E i \in DOMAIN s : s[i][1] = "length"
            THEN s[CHOOSE i \in DOMAIN s : s[i][1] = "length"][2]
            ELSE h.Size,
   Chunked |-> h.Chunked \/ \E i \in DOMAIN s : s[i][1] = "chunked"]

\* http_header() returns to header_job()
Returns(r, tail) ==
  /\ pc' = "answer"
  /\ reply' = r
  /\ buf' = tail

IsStatus(s) == Len(s) > 2 /\ s[1] = <<"http", 0>> /\ s[2][1] = "code"

\* The lines in s, the reply r being known.
\* Mutant: a line is read as soon as its packet is there.
LinesNow(s, r, n) ==
  IF BlankLines(s) # {}
  THEN LET b == Min(BlankLines(s))
       IN  /\ Returns(r, After(s, b))
           /\ hdr' = Told(SubSeq(s, 1, b), hdr)
           /\ left' = 0
           /\ text' = <<>>
  ELSE /\ text' = <<>>
       /\ hdr' = Told(SubSeq(s, 1, LastNL(<< NL >> \o s) - 1), hdr)
       /\ left' = left - n
       /\ reply' = r
       /\ UNCHANGED <<pc, buf>>

Lines(s, r, n) ==
  IF BlankLines(s) # {}
  THEN LET b == Min(BlankLines(s))
       IN  /\ Returns(r, After(s, b))
           /\ hdr' = Told(SubSeq(s, 1, b), hdr)
           /\ left' = 0
           /\ text' = <<>>
  ELSE LET e == LastNL(<< NL >> \o s) - 1
       IN  /\ text' = After(s, e)
           /\ hdr' = Told(SubSeq(s, 1, e), hdr)
           /\ left' = left - n
           /\ reply' = r
           /\ UNCHANGED <<pc, buf>>

\* A server that waits until its interim answer is read
InOneGo(k) ==
  Apart => \A j \in 1 .. k : wire[j] = <<"http", 0>>
                               => j = 1 /\ text = <<>> /\ reply = 0

HeaderRecv ==
  /\ pc = "header"
  /\ conn
  /\ \E k \in Packets(Min({left, TempMax - 2})) :
       /\ InOneGo(k)
       /\ Receives(k)
       /\ LET s == text \o Took(k)
          IN  IF ~Has(Took(k), NL)
              THEN /\ text' = s
                   /\ left' = left - k
                   /\ UNCHANGED <<pc, reply, hdr, buf, conn>>
              ELSE IF reply # 0
              THEN Lines(s, reply, k) /\ UNCHANGED conn
              ELSE IF IsStatus(s)
              THEN Lines(After(s, FirstNL(s)), s[2][2], k) /\ UNCHANGED conn
              ELSE /\ Returns(-1, <<>>)
                   /\ conn' = FALSE
                   /\ UNCHANGED <<text, left, hdr>>
  /\ UNCHANGED <<cuts, mode, form, cut, retry, Chnk, rdLeft, file, result>>

\* The connection is broken: if there was a status line, "seems to be a wonky
\* server"; the line that was not complete is dropped.
ECONNRESET == -2

HeaderReset ==
  /\ pc = "header"
  /\ conn
  /\ Reset
  /\ Returns(IF reply # 0 THEN reply ELSE ECONNRESET, <<>>)
  /\ conn' = FALSE
  /\ UNCHANGED <<cuts, mode, form, wire, cut, retry, text, left, hdr, Chnk, rdLeft,
                 file, result>>

ETIMEDOUT == -3

HeaderTimeout ==
  /\ Timeouts
  /\ pc = "header"
  /\ conn
  /\ Returns(ETIMEDOUT, <<>>)
  /\ conn' = FALSE
  /\ cut' = TRUE
  /\ UNCHANGED <<cuts, mode, form, wire, retry, text, left, hdr, Chnk, rdLeft, file,
                 result>>

-----------------------------------------------------------------------------
(***************************************************************************)
(* header_job(), what it does with the reply.                              *)
(***************************************************************************)
Calls == /\ reply' = 0
         /\ text' = <<>>
         /\ hdr' = NoHeader

\* A new connection, and another answer of the server
Opened == /\ conn' = TRUE
          /\ cut' = FALSE
          /\ left' = HeadMax
          /\ wire' \in Answers[form]

\* 100: http_header() is called again for the same connection.  It copies
\* what it has received already, and then reads on behind that.  If there is
\* no connection any more, it makes another.
HeaderAgain ==
  /\ pc = "answer"
  /\ reply = 100
  /\ pc' = "header"
  /\ Calls
  /\ IF conn
     THEN left' = HeadMax - Len(buf) /\ UNCHANGED <<wire, cut, conn>>
     ELSE Opened
  /\ buf' = <<>>
  /\ UNCHANGED <<cuts, mode, form, retry, Chnk, rdLeft, file, result>>

\* "try connecting later"
HeaderRetry ==
  /\ pc = "answer"
  /\ reply \in {ECONNRESET, ETIMEDOUT}
  /\ retry > 0
  /\ retry' = retry - 1
  /\ pc' = "header"
  /\ Calls
  /\ Opened
  /\ UNCHANGED <<cuts, mode, form, bvars, result>>

\* An error page, or the slot of the download shows the error.
HeaderError ==
  /\ pc = "answer"
  /\ reply < 0
  /\ reply \in {ECONNRESET, ETIMEDOUT} => retry = 0
  /\ pc' = "done"
  /\ result' = "error"
  /\ conn' = FALSE
  /\ UNCHANGED <<cuts, mode, form, wire, cut, retry, hvars, bvars>>

\* A chunk head is looked for behind the line that ends the chunk before, so
\* such a line is put in front of the first.
Tail_ == IF hdr.Chunked THEN << CR, NL >> \o buf ELSE buf

\* A download goes on to conn_job(), fsel_job() and recv_job() (see Download)
HeaderDownload ==
  /\ pc = "answer"
  /\ reply = 200
  /\ mode = "download"
  /\ pc' = "recv"
  /\ buf' = Tail_
  /\ Chnk' = IF hdr.Chunked THEN -1 ELSE 0
  /\ UNCHANGED <<cuts, mode, form, wire, cut, conn, retry, hvars, rdLeft, file,
                 result>>

\* A loader receives into a block of the given size, ...
HeaderSized ==
  /\ pc = "answer"
  /\ reply = 200
  /\ mode = "load"
  /\ hdr.Size >= 0 /\ ~hdr.Chunked
  /\ file' = SubSeq(buf, 1, Min({Len(buf), hdr.Size}))
  /\ rdLeft' = hdr.Size - Len(file')
  /\ buf' = <<>>
  /\ pc' = "receive"
  /\ UNCHANGED <<cuts, mode, form, wire, cut, conn, retry, hvars, Chnk, result>>

\* ... or, when there is none, into one after the other
HeaderBlocks ==
  /\ pc = "answer"
  /\ reply = 200
  /\ mode = "load"
  /\ hdr.Size < 0 \/ hdr.Chunked
  /\ buf' = Tail_
  /\ pc' = "chunked"
  /\ UNCHANGED <<cuts, mode, form, wire, cut, conn, retry, hvars, Chnk, rdLeft, file,
                 result>>

-----------------------------------------------------------------------------
(***************************************************************************)
(* chunked_job() of a loader; each round of its loop is a step.            *)
(***************************************************************************)
\* The ends of lines that a chunk head can end with
HeadEnds(s) == {i \in DOMAIN s : i > 2 /\ s[i] = NL}

\* strtoul() skips white space
Strtoul(s) ==
  LET black == {i \in DOMAIN s : s[i] \notin {CR, NL}}
      i     == Min(black)
  IN  IF black # {} /\ s[i][1] = "hex" THEN s[i][2] ELSE 0

\* A block of the size n > 0 begins with what is in s; if that is all of it
\* the loop goes on, else receive_job() receives the rest.
BlockOf(n, s) ==
  LET k == Min({n, Len(s)})
  IN  /\ file' = file \o SubSeq(s, 1, k)
      /\ buf' = After(s, k)
      /\ rdLeft' = n - k
      /\ pc' = IF n = k THEN "chunked" ELSE "receive"

\* There is none: the body is complete.
Complete ==
  /\ pc' = "receive"
  /\ rdLeft' = 0
  /\ UNCHANGED file

OpenBlock ==
  /\ pc = "chunked"
  /\ ~hdr.Chunked
  /\ LET n == Max({Len(buf), IF conn THEN Block ELSE 0})
     IN  IF n > 0 THEN BlockOf(n, buf) ELSE Complete /\ UNCHANGED buf
  /\ UNCHANGED <<cuts, mode, form, wire, cut, conn, retry, hvars, Chnk, result>>

\* A chunk head in s, of which the chunk follows
HeadIn(s) ==
  LET e == Min(HeadEnds(s))
      n == Strtoul(SubSeq(s, 1, e))
  IN  IF n > 0 THEN BlockOf(n, After(s, e)) ELSE Complete /\ buf' = <<>>

ChunkHead ==
  /\ pc = "chunked"
  /\ hdr.Chunked
  /\ HeadEnds(buf) # {}
  /\ HeadIn(buf)
  /\ UNCHANGED <<cuts, mode, form, wire, cut, conn, retry, hvars, Chnk, result>>

ChunkRecv ==
  /\ pc = "chunked"
  /\ hdr.Chunked
  /\ HeadEnds(buf) = {}
  /\ conn
  /\ \E k \in Packets(TempMax - Len(buf)) :
       /\ Receives(k)
       /\ LET s == buf \o Took(k)
          IN  CASE HeadEnds(s) # {} -> HeadIn(s)
                [] HeadEnds(s) = {} /\ Len(s) = TempMax -> Complete /\ buf' = s
                [] OTHER -> buf' = s /\ UNCHANGED <<pc, rdLeft, file>>
  /\ UNCHANGED <<cuts, mode, form, cut, conn, retry, hvars, Chnk, result>>

\* -ECONNRESET: the body ends here.  A connection that is closed already
\* gives another error, with which the job waits for ever (see Fetch).
ChunkReset ==
  /\ pc = "chunked"
  /\ hdr.Chunked
  /\ HeadEnds(buf) = {}
  /\ conn
  /\ Reset
  /\ conn' = FALSE
  /\ Complete
  /\ UNCHANGED <<cuts, mode, form, wire, cut, retry, hvars, buf, Chnk, result>>

-----------------------------------------------------------------------------
(***************************************************************************)
(* receive_job() of a loader.                                              *)
(***************************************************************************)
\* A block is complete, or the connection broken: where no size was given
\* there may be another.
AtBlockEnd == IF hdr.Size > 0 /\ ~hdr.Chunked THEN "receive" ELSE "chunked"

Receive ==
  /\ pc = "receive"
  /\ rdLeft > 0
  /\ conn
  /\ \E k \in Packets(rdLeft) :
       /\ Receives(k)
       /\ file' = file \o Took(k)
       /\ rdLeft' = rdLeft - k
       /\ pc' = IF k = rdLeft THEN AtBlockEnd ELSE pc
  /\ UNCHANGED <<cuts, mode, form, cut, conn, retry, hvars, buf, Chnk, result>>

\* Mutant: the rest of the block is still expected.
ReceiveResetWaits ==
  /\ pc = "receive"
  /\ rdLeft > 0
  /\ conn => Reset
  /\ conn' = FALSE
  /\ pc' = AtBlockEnd
  /\ UNCHANGED <<cuts, mode, form, wire, cut, retry, hvars, buf, Chnk, rdLeft, file,
                 result>>

ReceiveReset ==
  /\ pc = "receive"
  /\ rdLeft > 0
  /\ conn => Reset
  /\ conn' = FALSE
  /\ rdLeft' = 0
  /\ pc' = AtBlockEnd
  /\ UNCHANGED <<cuts, mode, form, wire, cut, retry, hvars, buf, Chnk, file, result>>

\* The connection is closed, the data go to the cache and to the parser.
\* Mutant: it stays open.
ReceiveEndOpen ==
  /\ pc = "receive"
  /\ rdLeft = 0
  /\ pc' = "done"
  /\ result' = "ok"
  /\ UNCHANGED <<cuts, mode, form, wire, cut, conn, retry, hvars, bvars>>

ReceiveEnd ==
  /\ pc = "receive"
  /\ rdLeft = 0
  /\ conn' = FALSE
  /\ pc' = "done"
  /\ result' = "ok"
  /\ UNCHANGED <<cuts, mode, form, wire, cut, retry, hvars, bvars>>

-----------------------------------------------------------------------------
(***************************************************************************)
(* recv_job() of a download: what one call does to the record r of its     *)
(* slot's data, [buf, Chnk, conn, save].                                   *)
(***************************************************************************)
Slot == [buf |-> buf, Chnk |-> Chnk, conn |-> conn, save |-> FALSE]

\* "read chunk size", if the head is complete.
WithHead(r) ==
  LET e == IF Len(r.buf) >= 5 THEN HeadEnds(r.buf) ELSE {}
      i == Min(e)
      n == Strtoul(SubSeq(r.buf, 3, i))
      s == After(r.buf, i)
  IN  IF r.Chnk >= 0 THEN r
      ELSE IF e = {} THEN IF r.conn THEN r ELSE [r EXCEPT !.buf = <<>>]
      ELSE IF n > 0
           THEN [r EXCEPT !.buf = s, !.Chnk = n, !.save = Len(s) >= n]
           ELSE [r EXCEPT !.buf = <<>>, !.Chnk = 0, !.conn = FALSE]

\* The bytes p have come; with the last one that the size allows the
\* connection is closed.
Room(r) ==
  LET n == BUF_SIZE - Len(r.buf)
  IN  IF hdr.Size > 0 THEN Min({n, hdr.Size - Len(file)}) ELSE n

WithPacket(r, p) ==
  LET s == r.buf \o p
  IN  IF Len(file) + Len(s) = hdr.Size
      THEN [r EXCEPT !.buf = s, !.conn = FALSE, !.save = TRUE]
      ELSE [r EXCEPT !.buf = s, !.save = @ \/ 2 * Len(s) > BUF_SIZE]

\* The connection is broken, or was closed before.
WithReset(r) == [r EXCEPT !.conn = FALSE, !.save = r.buf # <<>>]

\* What is written: all, or what belongs to the chunk.
\* Mutant: all.
WrittenAll(r) == IF r.save /\ r.Chnk >= 0 THEN Len(r.buf) ELSE 0

Written(r) ==
  IF r.save /\ r.Chnk >= 0
  THEN IF r.Chnk > 0 THEN Min({r.Chnk, Len(r.buf)}) ELSE Len(r.buf)
  ELSE 0

ChunkLeft(r, n) ==
  IF r.Chnk > 0 THEN (IF n = r.Chnk THEN -1 ELSE r.Chnk - n) ELSE r.Chnk

\* Nothing more will come and nothing is left: is it all?  When no size is
\* known it is, if the last chunk was seen or there are none.
Verdict(f, c) ==
  IF (hdr.Size < 0 /\ c = 0) \/ hdr.Size = Len(f) THEN "ok" ELSE "broken"

RecvWith(r) ==
  LET n == Written(r)
      c == ChunkLeft(r, n)
  IN  /\ file' = file \o SubSeq(r.buf, 1, n)
      /\ buf' = After(r.buf, n)
      /\ Chnk' = c
      /\ conn' = r.conn
      /\ IF ~r.conn /\ buf' = <<>>
         THEN pc' = "done" /\ result' = Verdict(file', c)
         ELSE UNCHANGED <<pc, result>>

RecvJob ==
  /\ pc = "recv"
  /\ LET r == WithHead(Slot)
     IN  \/ /\ r.conn
            /\ \E k \in Packets(Room(r)) :
                 Receives(k) /\ RecvWith(WithPacket(r, Took(k)))
         \/ /\ r.conn => Reset
            /\ RecvWith(WithReset(r))
            /\ UNCHANGED wire
         \/ /\ r.conn
            /\ RecvWith(r)
            /\ UNCHANGED wire
  /\ UNCHANGED <<cuts, mode, form, cut, retry, hvars, rdLeft>>

-----------------------------------------------------------------------------
HeaderJob ==
  \/ HeaderRecv \/ HeaderReset \/ HeaderTimeout
  \/ HeaderAgain \/ HeaderRetry \/ HeaderError
  \/ HeaderDownload \/ HeaderSized \/ HeaderBlocks

LoaderJob ==
  \/ OpenBlock \/ ChunkHead \/ ChunkRecv \/ ChunkReset
  \/ Receive \/ ReceiveReset \/ ReceiveEnd

Jobs == HeaderJob \/ LoaderJob \/ RecvJob

Next == Jobs \/ HangUp

Spec == Init /\ [][Next]_vars

\* The jobs are called as long as they are registered, and the peer does not
\* stay silent for ever: he sends what he has to send, and then, as he was
\* asked ("Connection: close"), hangs up.
FairSpec == Spec /\ WF_vars(Jobs)

-----------------------------------------------------------------------------
(***************************************************************************)
(* Properties.                                                             *)
(***************************************************************************)

\* What was stored is, at any time, the beginning of what the server sends:
\* no part of a header or of a chunk's frame gets into it, no byte is lost or
\* taken twice, wherever the packets end.
Faithful == TypeOK /\ IsPrefix(file, Payload)

\* An answer that has come completely is stored completely, and nothing says
\* otherwise, however its bytes were divided into packets.
AllArrives == pc = "done" /\ ~cut => result = "ok" /\ file = Payload

\* A download that is shown as finished is the whole file, if the header has
\* told where it ends.  (A header that is cut before its field for the length
\* is taken for one without: the slot then shows an empty file as finished.)
OkIsWhole ==
  mode = "download" /\ result = "ok" /\ (hdr.Size >= 0 \/ hdr.Chunked)
    => file = Payload

\* What the user is told is true: all that came completely is there, and what
\* is called complete is.
Delivered == AllArrives /\ OkIsWhole

\* When all is over, the connection is closed.
Closed == pc = "done" => ~conn

\* The chunk's connection that was closed in receive_job()
Forgotten == pc = "chunked" /\ hdr.Chunked /\ ~conn

\* Every transfer ends, even if the peer hangs up or the header times out,
\* but for a loader's that loses its connection within a chunk.
Ends == <>(pc = "done" \/ Forgotten)

=============================================================================
