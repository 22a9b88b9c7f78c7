------------------------------- MODULE Editor -------------------------------
(***************************************************************************)
(* What a text field of a form promises to its user: a text, and a cursor  *)
(* in it.  The text is what is before the cursor and what is after it, and *)
(* a key either puts something in at the cursor, takes something away next *)
(* to it, or moves it.  Edit implements this with an array of pointers     *)
(* into a block of memory.                                                 *)
(***************************************************************************)
EXTENDS Integers, Sequences

CONSTANT Symbols  \* the characters, the end of a line among them

VARIABLES
  before, after,
  most            \* the longest text that may be typed, if there is a limit, or 0

vars == <<before, after, most>>

TypeOK ==
  /\ before \in Seq(Symbols)
  /\ after \in Seq(Symbols)
  /\ most \in Nat
  /\ most > 0 => Len(before) + Len(after) <= most

Init == TypeOK

\* The field is full when its text has the length most.
Insert ==
  /\ \E s \in Symbols : before' = Append(before, s)
  /\ after' = after
  /\ most > 0 => Len(before) + Len(after) < most

\* Backspace, of one character, of a word, or of all up to the line's begin
Erase ==
  /\ \E n \in 0 .. Len(before) : before' = SubSeq(before, 1, n)
  /\ after' = after

\* Delete, of one character, of a word, or of all up to the line's end
Delete ==
  /\ before' = before
  /\ \E n \in 1 .. Len(after) + 1 : after' = SubSeq(after, n, Len(after))

Clear ==
  /\ before' = <<>>
  /\ after' = <<>>

\* Every key that moves the cursor, and a click
Move == before' \o after' = before \o after

Next == (Insert \/ Erase \/ Delete \/ Clear \/ Move) /\ UNCHANGED most

Spec == Init /\ [][Next]_vars

=============================================================================
