-------------------------------- MODULE Edit --------------------------------
(***************************************************************************)
(* A text field of a form: the edit_...() functions of src/src/Form.c,     *)
(* input_keybrd(), which calls them, and input_handle(), with which a      *)
(* click sets the cursor.                                                  *)
(*                                                                         *)
(* One block of memory holds the text, W0 W1 .. \0, at its begin, and the  *)
(* pointers to its lines, L0 .. Ln, at its end; Ln is behind the \0.       *)
(* With each new line the text grows upwards by one character and the      *)
(* array of pointers downwards by one pointer.  All positions here count   *)
(* in characters from the begin of the block.                              *)
(*                                                                         *)
(* A paste calls input_keybrd() for one character after the other.         *)
(***************************************************************************)
EXTENDS Integers, Sequences, FiniteSets, Picks

CONSTANTS
  Chars,     \* what can be typed, with Space among it
  Space,
  Inputs,    \* the fields: [Type, pwd, readonly, TextMax, text]
  PTR,       \* sizeof(WCHAR*) / sizeof(WCHAR)
  GROW,      \* 500
  VisibleX,  \* the columns and
  VisibleY,  \* the rows that a text area shows
  MaxText    \* a bound for TLC: a text that can grow is this long at most

NL  == "nl"
NUL == "nul"

ASSUME EditAssumption ==
  /\ Space \in Chars
  /\ {NL, NUL} \cap Chars = {}
  /\ PTR \in Nat /\ GROW \in Nat /\ GROW > PTR
  /\ VisibleX \in Nat \ {0} /\ VisibleY \in Nat \ {0}
  /\ \A i \in Inputs : i.Type = "TAREA" => i.TextMax = 0 /\ ~i.pwd

\* The text is what edit_feed() leaves of it: only an area has ends of lines.
ASSUME InputsAssumption ==
  \A i \in Inputs :
    /\ i.pwd \in BOOLEAN
    /\ i.TextMax \in Nat
    /\ i.text \in Seq(Chars \cup {NL})
    /\ i.Type # "TAREA" => \A k \in DOMAIN i.text : i.text[k] # NL

VARIABLES
  input,       \* the field
  buf,         \* its memory: [item, line, base, size, Value, vsize]
  active,      \* form->TextActive is this field
  TextCursrX, TextCursrY,
  TextShiftX, TextShiftY   \* the first column and the first row shown

vars == <<input, buf, active, TextCursrX, TextCursrY, TextShiftX, TextShiftY>>

cursor == <<TextCursrX, TextCursrY>>

-----------------------------------------------------------------------------
(***************************************************************************)
(* The block b: item is the text up to Ln, line the pointers, base where   *)
(* TextArray lies in the size of the block; of a password Value is the     *)
(* text, in vsize bytes, and the item has an asterisk for each character.  *)
(***************************************************************************)
Rows(b) == Len(b.line) - 1

Line(b, n) == b.line[n + 1]

edit_rowln(b, row) == Line(b, row + 1) - Line(b, row) - 1

edit_space(b) == b.base - Line(b, Rows(b))

\* What the text of the field is: of the item without the \0
Text(b) == IF input.pwd THEN b.Value ELSE SubSeq(b.item, 1, Line(b, Rows(b)) - 1)

\* The sequences after n elements were put in, or taken out, behind the first p
PutIn(s, p, x) == SubSeq(s, 1, p) \o <<x>> \o SubSeq(s, p + 1, Len(s))
TakenOut(s, p) == SubSeq(s, 1, p) \o SubSeq(s, p + 2, Len(s))

\* The pointers behind a row move by d.
Shifted(line, row, d) ==
  [n \in DOMAIN line |-> IF n > row + 1 THEN line[n] + d ELSE line[n]]

\* edit_grow(): the new block has a size that is a multiple of four bytes.
Even(n) == n + (n % 2)

Grown(b) ==
  LET n == b.base + GROW
  IN  [b EXCEPT !.base = Even(n), !.size = Even(n) + PTR * (Rows(b) + 1),
                !.vsize = n + 1]

CanGrow == input.TextMax = 0

\* edit_init() and edit_feed(): a text area has room for a pointer for each
\* line, another field for its text, or for the longest allowed.
Stars(n) == [k \in 1 .. n |-> "*"]

Breaks(s) == {k \in DOMAIN s : s[k] = NL}

LinesOf(s) ==
  LET n == Cardinality(Breaks(s))
  IN  [k \in 1 .. n + 2 |->
         IF k = 1 THEN 0
         ELSE IF k = n + 2 THEN Len(s) + 1
         ELSE Nth(Breaks(s), k - 1)]

Loaded(i) ==
  LET room  == IF i.TextMax > 0 THEN i.TextMax ELSE Len(i.text)
      shown == IF room < Len(i.text) THEN SubSeq(i.text, 1, room) ELSE i.text
      spare == IF i.Type = "TAREA" THEN PTR ELSE 0
  IN  [item  |-> (IF i.pwd THEN Stars(Len(shown)) ELSE shown) \o <<NUL>>,
       line  |-> LinesOf(shown),
       base  |-> room + 1 + spare,
       size  |-> room + 1 + spare + PTR * Len(LinesOf(shown)),
       Value |-> IF i.pwd THEN shown ELSE <<>>,
       vsize |-> (IF Len(i.text) < room THEN room ELSE Len(i.text)) + 1]

edit_zero(b) ==
  [b EXCEPT !.item = <<NUL>>, !.line = <<0, 1>>, !.Value = <<>>,
            !.base = @ + PTR * (Rows(b) - 1)]

\* edit_char(), when there is space
Typed(b, col, row, c) ==
  IF input.pwd
  THEN [b EXCEPT !.Value = PutIn(b.Value, col, c),
                 !.item = Stars(edit_rowln(b, row) + 1) \o <<NUL>>,
                 !.line = Shifted(@, row, 1)]
  ELSE [b EXCEPT !.item = PutIn(b.item, Line(b, row) + col, c),
                 !.line = Shifted(@, row, 1)]

CharFits(b) == edit_space(b) > 0 \/ CanGrow

edit_char(b, col, row, c) ==
  Typed(IF edit_space(b) > 0 THEN b ELSE Grown(b), col, row, c)

\* Mutant: the array of the pointers does not get longer.
BrokenInPlace(b, col, row) ==
  [b EXCEPT !.item = PutIn(b.item, Line(b, row) + col, NL),
            !.line = SubSeq(@, 1, row + 1) \o <<Line(b, row) + col + 1>>
                       \o [n \in 1 .. Rows(b) - row |-> Line(b, row + n) + 1]]

\* edit_crlf(): the pointers up to the row's move down in the array, one is
\* new, the others point behind one character more.
Broken(b, col, row) ==
  [b EXCEPT !.item = PutIn(b.item, Line(b, row) + col, NL),
            !.line = SubSeq(@, 1, row + 1) \o <<Line(b, row) + col + 1>>
                       \o [n \in 1 .. Rows(b) - row |-> Line(b, row + n) + 1],
            !.base = @ - PTR]

edit_crlf(b, col, row) ==
  Broken(IF edit_space(b) < 1 + PTR THEN Grown(b) ELSE b, col, row)

\* edit_delc(): a row that ends at the place merges with the following one.
Merges(b, col, row) == Line(b, row) + col >= Line(b, row + 1) - 1

HasNext(b, col, row) == Line(b, row) + col < Line(b, Rows(b)) - 1

edit_delc(b, col, row) ==
  LET p == Line(b, row) + col
  IN  IF ~HasNext(b, col, row) THEN b
      ELSE IF input.pwd
      THEN [b EXCEPT !.Value = TakenOut(b.Value, col),
                     !.item = SubSeq(@, 1, Len(@) - 1),
                     !.line = Shifted(@, row, -1)]
      ELSE IF Merges(b, col, row)
      THEN [b EXCEPT !.item = TakenOut(b.item, p),
                     !.line = SubSeq(@, 1, row + 1)
                                \o [n \in 1 .. Rows(b) - row - 1 |->
                                      Line(b, row + 1 + n) - 1],
                     !.base = @ + PTR]
      ELSE [b EXCEPT !.item = TakenOut(b.item, p),
                     !.line = Shifted(@, row, -1)]

\* del_chars(), to the left n characters: where the k-th of them is
\* Mutant: the column does not move.
LeftColumnSame(col, k) == col - 1

LeftColumn(col, k) == col - k

DelLeft(b, col, row, n) ==
  LET del[k \in 0 .. n] ==
        IF k = 0 THEN b ELSE edit_delc(del[k - 1], LeftColumn(col, k), row)
  IN  del[n]

\* ... and to the right: one more than n
DelRight(b, col, row, n) ==
  LET del[k \in 0 .. n + 1] ==
        IF k = 0 THEN b ELSE edit_delc(del[k - 1], col, row)
  IN  del[n + 1]

\* ctrl_left(), ctrl_right(): how many characters the word and the space
\* between it and the cursor have
WordEnd(s) ==
  {n \in 0 .. Len(s) :
     \E k \in 0 .. n :
       /\ \A j \in 1 .. k : s[j] = Space
       /\ \A j \in k + 1 .. n : s[j] # Space
       /\ k < n \/ n = Len(s)
       /\ n < Len(s) => s[n + 1] = Space}

Backwards(s) == [n \in DOMAIN s |-> s[Len(s) + 1 - n]]

WordLen(s) == CHOOSE n \in WordEnd(s) : TRUE

InRow(b, row, from, to) ==
  SubSeq(b.item, Line(b, row) + from + 1, Line(b, row) + to)

ctrl_left(b, col, row) == WordLen(Backwards(InRow(b, row, 0, col)))

ctrl_right(b, col, row) ==
  WordLen(InRow(b, row, col, edit_rowln(b, row)))

-----------------------------------------------------------------------------
(***************************************************************************)
(* The cursor, when a key was handled.                                     *)
(***************************************************************************)
\* lift lines down, scrl columns to the right, or to the end of a line that
\* is too short.
Scroll(b, scrl, row) ==
  IF scrl = 0 /\ edit_rowln(b, row) < TextCursrX
  THEN edit_rowln(b, row) - TextCursrX
  ELSE scrl

ShiftY(b, lift, row) ==
  IF lift > 0
  THEN IF TextShiftY < row - (VisibleY - 1) THEN row - (VisibleY - 1) ELSE TextShiftY
  ELSE IF TextShiftY > row THEN row
  ELSE IF TextShiftY > 0 /\ Rows(b) < TextShiftY + VisibleY THEN Rows(b) - VisibleY
  ELSE TextShiftY

ShiftX(b, scrl, row, col) ==
  IF scrl > 0
  THEN IF TextShiftX < col - VisibleX THEN col - VisibleX ELSE TextShiftX
  ELSE IF TextShiftX > col THEN col
  ELSE IF TextShiftX # 0 /\ edit_rowln(b, row) < TextShiftX + VisibleX
       THEN edit_rowln(b, row) - VisibleX
       ELSE TextShiftX

\* The key has made the field's memory b.
Key(b, lift, scrl) ==
  LET row == TextCursrY + lift
      s   == Scroll(b, scrl, row)
  IN  /\ active
      /\ buf' = b
      /\ TextCursrY' = row
      /\ TextCursrX' = TextCursrX + s
      /\ TextShiftY' = ShiftY(b, lift, row)
      /\ TextShiftX' = ShiftX(b, s, row, TextCursrX + s)
      /\ UNCHANGED <<input, active>>

\* A bound for TLC
Short == CanGrow => Len(buf.item) <= MaxText

LastRow == Rows(buf) - 1

Here == edit_rowln(buf, TextCursrY)

-----------------------------------------------------------------------------
(***************************************************************************)
(* The keys of input_keybrd().                                             *)
(***************************************************************************)
Char ==
  \E c \in Chars :
    /\ ~input.readonly
    /\ Short
    /\ CharFits(buf)
    /\ Key(edit_char(buf, TextCursrX, TextCursrY, c), 0, 1)

\* Return: a new line, also in a text area that is read only; any other field
\* that is not empty submits the form.
Return ==
  /\ input.Type = "TAREA"
  /\ Short
  /\ Key(edit_crlf(buf, TextCursrX, TextCursrY), 1, -TextCursrX)

Submit ==
  /\ active
  /\ input.Type # "TAREA"
  /\ Here > 0
  /\ active' = FALSE
  /\ UNCHANGED <<input, buf, cursor, TextShiftX, TextShiftY>>

Escape ==
  /\ active
  /\ ~input.readonly
  /\ Line(buf, Rows(buf)) > 1
  /\ buf' = edit_zero(buf)
  /\ TextCursrX' = 0 /\ TextCursrY' = 0
  /\ TextShiftX' = 0 /\ TextShiftY' = 0
  /\ UNCHANGED <<input, active>>

Up ==
  /\ TextCursrY > 0
  /\ LET n == edit_rowln(buf, TextCursrY - 1)
     IN  Key(buf, -1, IF TextCursrX > n THEN n - TextCursrX ELSE 0)

Down ==
  /\ TextCursrY < LastRow
  /\ Key(buf, 1, 0)

\* To the left: a character, a word, or up to the begin of the line
Left ==
  \/ TextCursrX > 0 /\ Key(buf, 0, -1)
  \/ /\ TextCursrX = 0
     /\ TextCursrY > 0
     /\ Key(buf, -1, edit_rowln(buf, TextCursrY - 1))

LeftWord == Key(buf, 0, -ctrl_left(buf, TextCursrX, TextCursrY))

LeftAll == TextCursrX > 0 /\ Key(buf, 0, -TextCursrX)

Right ==
  \/ TextCursrX < Here /\ Key(buf, 0, 1)
  \/ /\ TextCursrX >= Here
     /\ TextCursrY < LastRow
     /\ Key(buf, 1, -TextCursrX)

RightWord ==
  LET n == ctrl_right(buf, TextCursrX, TextCursrY)
  IN  n > 0 /\ Key(buf, 0, n)

RightAll == TextCursrX < Here /\ Key(buf, 0, Here - TextCursrX)

Home == Key(buf, -TextCursrY, -TextCursrX)

End ==
  Key(buf, LastRow - TextCursrY, edit_rowln(buf, LastRow) - TextCursrX)

\* Backspace: a character, a word, or what is before the cursor in its line;
\* at its begin the line is appended to the one before.
Erases(n) == Key(DelLeft(buf, TextCursrX, TextCursrY, n), 0, -n)

Backspace ==
  /\ ~input.readonly
  /\ \/ /\ TextCursrX > 0
        /\ \/ Erases(1)
           \/ Erases(ctrl_left(buf, TextCursrX, TextCursrY))
           \/ Erases(TextCursrX)
     \/ /\ TextCursrX = 0
        /\ TextCursrY > 0
        /\ LET n == edit_rowln(buf, TextCursrY - 1)
           IN  Key(edit_delc(buf, n, TextCursrY - 1), -1, n)

\* Delete: a character, a word and one character more, or what is behind the
\* cursor in its line.  (del_chars() deletes one more than it is asked for.)
Deletes(n) == Key(DelRight(buf, TextCursrX, TextCursrY, n), 0, 0)

Delete ==
  /\ ~input.readonly
  /\ \/ HasNext(buf, TextCursrX, TextCursrY) /\ Deletes(0)
     \/ Deletes(ctrl_right(buf, TextCursrX, TextCursrY))
     \/ Here - TextCursrX > 1 /\ Deletes(Here - TextCursrX - 1)

\* Control Tab
Leave ==
  /\ active
  /\ active' = FALSE
  /\ UNCHANGED <<input, buf, cursor, TextShiftX, TextShiftY>>

\* input_handle(), for a click or when Tab comes from another field
Click ==
  \E row \in 0 .. VisibleY, col \in 0 .. VisibleX :
    /\ active' = TRUE
    /\ TextShiftX' = 0 /\ TextShiftY' = 0
    /\ TextCursrY' = IF row > LastRow THEN LastRow ELSE row
    /\ TextCursrX' = IF col > edit_rowln(buf, TextCursrY')
                     THEN edit_rowln(buf, TextCursrY') ELSE col
    /\ UNCHANGED <<input, buf>>

-----------------------------------------------------------------------------
TypeOK ==
  /\ input \in Inputs
  /\ active \in BOOLEAN
  /\ Rows(buf) > 0
  /\ \A n \in 0 .. Rows(buf) : Line(buf, n) \in Nat
  /\ buf.base \in Nat /\ buf.size \in Nat /\ buf.vsize \in Nat
  /\ TextCursrX \in Nat /\ TextCursrY \in Nat
  /\ TextShiftX \in Int /\ TextShiftY \in Nat

Init ==
  /\ input \in Inputs
  /\ buf = Loaded(input)
  /\ active = FALSE
  /\ TextCursrX = 0 /\ TextCursrY = 0
  /\ TextShiftX = 0 /\ TextShiftY = 0

Edits == Char \/ Return \/ Escape \/ Backspace \/ Delete

Moves ==
  \/ Up \/ Down
  \/ Left \/ LeftWord \/ LeftAll
  \/ Right \/ RightWord \/ RightAll
  \/ Home \/ End

Next == Edits \/ Moves \/ Submit \/ Leave \/ Click

Spec == Init /\ [][Next]_vars

-----------------------------------------------------------------------------
(***************************************************************************)
(* Properties.                                                             *)
(***************************************************************************)

\* The pointers and the text agree, whatever lines were broken and merged:
\* each pointer but the first and the last is behind the end of a line, no
\* other place has one, and the last is behind the whole text.
Pointers ==
  /\ Line(buf, 0) = 0
  /\ Line(buf, Rows(buf)) = Len(buf.item)
  /\ {Line(buf, n) : n \in 1 .. Rows(buf) - 1} = Breaks(buf.item)
  /\ \A n \in 1 .. Rows(buf) : Line(buf, n - 1) < Line(buf, n)

\* The text and the array of pointers do not overlap, the array ends where
\* the block does, and a password stays in its memory.
Fits ==
  /\ Line(buf, Rows(buf)) <= buf.base
  /\ buf.base + PTR * (Rows(buf) + 1) = buf.size
  /\ input.pwd => Len(buf.Value) + 1 <= buf.vsize /\ Len(buf.Value) = edit_rowln(buf, 0)

\* One block of memory holds the text, and from its end the pointers: they
\* agree and do not meet.
Buffer == TypeOK /\ Pointers /\ Fits

\* The cursor is in the text.
CursorInText ==
  /\ TextCursrY < Rows(buf)
  /\ TextCursrX <= Here

\* The rows that are shown are rows of the text, and the cursor is in one of
\* them, or, after a click on the lower border, in the one below; it is in a
\* column that is shown.
CursorInView ==
  /\ TextShiftY = 0 \/ TextShiftY + VisibleY <= Rows(buf)
  /\ TextCursrY - TextShiftY \in 0 .. VisibleY
  /\ TextCursrX - TextShiftX \in 0 .. VisibleX

\* The cursor is where something can be typed, and where the user sees it.
Cursor == CursorInText /\ CursorInView

\* Whatever was typed, deleted and clicked, the memory of a field and its
\* cursor agree.
Field == Buffer /\ Cursor

\* The text before and after the cursor changes like an editor's: a key puts
\* something in at the cursor, takes something away beside it, or moves it.
Position == Line(buf, TextCursrY) + TextCursrX

AnEditor ==
  INSTANCE Editor WITH
    Symbols <- Chars \cup {NL},
    most    <- input.TextMax,
    before  <- SubSeq(Text(buf), 1, Position),
    after   <- SubSeq(Text(buf), Position + 1, Len(Text(buf)))

Refines == AnEditor!Spec

=============================================================================
