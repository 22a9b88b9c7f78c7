------------------------------- MODULE MCForm -------------------------------
(***************************************************************************)
(* Instances of Form for TLC.  Six pages have one field alone, for what    *)
(* Edit does: a line with a limit and one that grows, two passwords, and   *)
(* text areas of two rows and two columns, one of them read only.  The     *)
(* others have forms of several controls, whose field is short: names that *)
(* are used twice, one of which is in the path of each address, radio      *)
(* buttons with other controls between them, selects whose end is missing, *)
(* files, a form in a form, two for a password.                            *)
(***************************************************************************)
EXTENDS Form

MCChars == {"a", Space}

TextField(type, pwd, readonly, max, text) ==
  [Type |-> type, pwd |-> pwd, readonly |-> readonly,
   TextMax |-> max, text |-> text]

\* Tags
FormStart(method, enctype, query) ==
  [tag |-> "FORM", start |-> TRUE, method |-> method, enctype |-> enctype,
   query |-> query]
EndForm == [tag |-> "FORM", start |-> FALSE]
TextOf(name, type, edit, pwd, disabled, value) ==
  [tag |-> "INPUT", type |-> type, name |-> name, edit |-> edit, pwd |-> pwd,
   disabled |-> disabled, value |-> value]
Edited(name, f) == TextOf(name, f.Type, TRUE, f.pwd, FALSE, <<>>)
Other(name, disabled) == TextOf(name, "TEXT", FALSE, FALSE, disabled, <<"o">>)
Password(name) == TextOf(name, "TEXT", FALSE, TRUE, FALSE, <<"p">>)
Hidden(name) ==
  [tag |-> "INPUT", type |-> "HIDDN", name |-> name, disabled |-> FALSE,
   value |-> <<"h">>]
Check(name, checked) ==
  [tag |-> "INPUT", type |-> "CHECK", name |-> name, disabled |-> FALSE,
   checked |-> checked, value |-> <<"on">>]
Button(name, sub) ==
  [tag |-> "INPUT", type |-> "BUTTN", name |-> name, sub |-> sub,
   disabled |-> FALSE, value |-> <<"go">>]
Radio(name, value, checked) ==
  [tag |-> "RADIO", name |-> name, value |-> value, checked |-> checked,
   disabled |-> FALSE]
File(name) == [tag |-> "FILE", name |-> name, disabled |-> FALSE]
Select(name) == [tag |-> "SELECT", name |-> name, disabled |-> FALSE]
EndSelect == [tag |-> "/SELECT"]
Option(text, disabled, selected) ==
  [tag |-> "OPTION", text |-> text, value |-> <<text>>, disabled |-> disabled,
   selected |-> selected]

Short1 == TextField("TEXT", FALSE, FALSE, 1, <<"a">>)
Pwd    == TextField("TEXT", TRUE, FALSE, 1, <<>>)

\* What the field of a page without other controls may be
Alone ==
  { TextField("TEXT", FALSE, FALSE, 3, <<"a">>),
    TextField("TEXT", FALSE, FALSE, 0, <<"a", Space, "a">>),
    TextField("TEXT", TRUE, FALSE, 3, <<"a", "a", "a", "a">>),
    TextField("TEXT", TRUE, FALSE, 0, <<>>),
    TextField("TAREA", FALSE, FALSE, 0, <<"a", NL, NL, Space, "a">>),
    TextField("TAREA", FALSE, TRUE, 0, <<"a", "a", NL>>) }

Pair(name, value) == [name |-> name, value |-> <<value>>]

Doc(f, tgs) == [field |-> f, tags |-> tgs]

MCDocuments ==
  {Doc(f, <<Edited("t", f)>>) : f \in Alone} \cup
  { Doc(Short1,
        << FormStart("GET", "url", <<>>),
           Hidden("h"), Radio("r", "x", TRUE), Edited("t", Short1),
           Radio("r", "y", TRUE), Check("c", FALSE), Check("h", TRUE),
           Radio("r", "z", FALSE), Button("s", "S"), Button("t", "S"), EndForm >>),
    Doc(Short1,
        << Radio("r", "x", FALSE), Radio("r", "y", FALSE),
           FormStart("POST", "url", <<>>),
           Select("l"), Option("1", FALSE, FALSE), Option("2", TRUE, FALSE),
           Option("3", FALSE, TRUE), EndSelect, Edited("t", Short1),
           Select("l"), Option("4", FALSE, FALSE), Option("5", FALSE, FALSE),
           Button("", "S"), Select("e"), EndForm,
           Other("u", FALSE), Option("6", FALSE, FALSE) >>),
    Doc(Short1,
        << FormStart("POST", "url", <<>>), File("f"), Edited("t", Short1),
           File("f"), Other("u", TRUE), Check("c", FALSE), Button("s", "S") >>),
    Doc(Short1,
        << FormStart("GET", "multipart", <<>>), Other("t", FALSE),
           Check("t", TRUE), Edited("t", Short1), Other("v", FALSE),
           Button("s", "S"),
           FormStart("GET", "url", <<Pair("w", "1"), Pair("q", "2"), Pair("s", "3")>>),
           Other("w", FALSE),
           Button("s", "S"), Button("b", "R") >>),
    Doc(Pwd,
        << FormStart("AUTH", "url", <<>>), Other("user", FALSE),
           Edited("pwd", Pwd), Button("s", "S") >>),
    Doc(Short1,
        << FormStart("AUTH", "url", <<>>), Edited("user", Short1),
           Password("pwd"), Button("s", "S") >>) }

MCInputs == {d.field : d \in MCDocuments}

=============================================================================
