-------------------------------- MODULE Form --------------------------------
(***************************************************************************)
(* The forms of a page (src/src/Form.c): how the parser builds them from   *)
(* its tags, what a click or a key does to their controls, what is sent,   *)
(* and which control the keys go to (button_clicked() in src/src/Mouse_R.c *)
(* and vTab_evKeybrd() in src/src/hwWind.c).                               *)
(*                                                                         *)
(* One text field of the page is the one that module Edit describes; the   *)
(* texts of the others do not change.  The page is in the frame "this" of  *)
(* a window that may have another frame.  A value is a sequence, NULL and  *)
(* the empty string are both <<>>.  How a value is encoded is left out, so *)
(* are the places and the redrawing of the controls.                       *)
(***************************************************************************)
EXTENDS Edit, SequencesExt

CONSTANTS
  Documents,  \* the pages: [field, an element of Inputs, tags, the forms' tags]
  Within,     \* the names that occur in the actions of the forms, before a '?'
  Paths,      \* the files that can be selected
  Strays,     \* a bar of the other frame is used while a field has the keys
  Again       \* a page with files is used again after it was sent

ASSUME FormAssumption ==
  /\ \A d \in Documents : d.field \in Inputs
  /\ Strays \in BOOLEAN /\ Again \in BOOLEAN

VARIABLES
  tags,      \* what the parser has still to read
  forms,     \* frame->FormList: [Method, Enctype, Query, TextActive]
  ctl,       \* the controls in the order they were allocated
  current,   \* current->form, or 0
  wind,      \* the window's Active frame and its Input, a control or 0
  shown,     \* the page is in its frame
  sent       \* what form_activate() sends in this step: [form, by, as, pairs]

page == <<tags, forms, ctl, current>>
formVars == <<vars, page, wind, shown, sent>>

NoRequest == [form |-> 0, by |-> 0, as |-> "none", pairs |-> <<>>]

Silent == sent' = NoRequest

-----------------------------------------------------------------------------
(***************************************************************************)
(* Controls.                                                               *)
(***************************************************************************)
\* input_isEdit()
IsEdit(type) == type \in {"TEXT", "TAREA", "FILE"}

\* _alloc(): edit is for the field of module Edit, link for the group of a
\* radio button and the field of a file button.
Control(type, form, name) ==
  [Type |-> type, SubType |-> "", Form |-> form, Name |-> name, Value |-> <<>>,
   checked |-> type \in {"HIDDN", "SELECT"} \/ IsEdit(type), disabled |-> FALSE,
   link |-> 0, edit |-> FALSE, pwd |-> FALSE, items |-> <<>>, NumItems |-> 0,
   Array |-> <<>>, shown |-> 0]

\* form->InputList: radio buttons are not in it, but hang on their group.
InputList(f) ==
  SelectSeq([k \in DOMAIN ctl |-> k],
            LAMBDA k : ctl[k].Form = f /\ ctl[k].Type # "RADIO")

LastOf(list) == IF list = <<>> THEN 0 ELSE Last(list)

Radios(g) == {k \in DOMAIN ctl : ctl[k].Type = "RADIO" /\ ctl[k].link = g}

TheField == {k \in DOMAIN ctl : ctl[k].edit}

\* elem->Value, or what is in elem->TextArray
ValueOf(k) == IF ctl[k].edit THEN Text(buf) ELSE ctl[k].Value

-----------------------------------------------------------------------------
(***************************************************************************)
(* The tags.                                                               *)
(***************************************************************************)
\* new_form(); without an action the page's address is taken, up to its '?'.
NewForm(t) == [Method |-> t.method, Enctype |-> t.enctype, Query |-> t.query,
               TextActive |-> 0]

Plain == [method |-> "GET", enctype |-> "url", query |-> <<>>]

\* A tag of a control needs a form: the page's own is made.
Formed == IF current = 0 THEN Append(forms, NewForm(Plain)) ELSE forms
FormOf == IF current = 0 THEN Len(forms) + 1 ELSE current

\* finish_selct(): the entries of the popup, the last ones of the list
FinishSelect(c) ==
  IF c.Type # "SELECT" THEN c
  ELSE IF c.NumItems = 0 THEN [c EXCEPT !.disabled = TRUE]
  ELSE IF c.NumItems > 0 THEN c
  ELSE [c EXCEPT !.NumItems = -c.NumItems,
                 !.Array = [n \in 1 .. -c.NumItems |->
                              Len(c.items) + c.NumItems + n]]

\* form_finish()
FormFinish(f) ==
  [k \in DOMAIN ctl |-> IF ctl[k].Form = f THEN FinishSelect(ctl[k]) ELSE ctl[k]]

FormTag(t) ==
  /\ ctl' = FormFinish(current)
  /\ IF t.start THEN forms' = Append(forms, NewForm(t)) /\ current' = Len(forms) + 1
     ELSE forms' = forms /\ current' = 0

\* new_input(), new_tarea(): the controls that are one in the list
Single(t) ==
  LET c == Control(t.type, FormOf, t.name)
  IN  CASE t.type = "BUTTN" -> [c EXCEPT !.SubType = t.sub, !.Value = t.value]
        [] t.type = "CHECK" -> [c EXCEPT !.checked = t.checked, !.Value = t.value]
        [] IsEdit(t.type)   -> [c EXCEPT !.edit = t.edit, !.pwd = t.pwd,
                                         !.Value = t.value]
        [] OTHER            -> [c EXCEPT !.Value = t.value]

\* input_disable() would disable a text field's file button too, but the one
\* of a file button is no IT_TEXT any more.
SingleTag(t) ==
  ctl' = Append(ctl, [Single(t) EXCEPT !.disabled = t.disabled])

\* A button, which is given the text field behind it
FileTag(t) ==
  ctl' = ctl \o << [Control("BUTTN", FormOf, t.name) EXCEPT
                      !.SubType = "F", !.Value = <<"...">>, !.link = Len(ctl) + 2],
                   [Control("FILE", FormOf, t.name) EXCEPT !.disabled = t.disabled] >>

\* form_radio(): only the first one of a group that is checked counts.
GroupsOf(name) ==
  SelectSeq(InputList(current),
            LAMBDA k : ctl[k].Type = "GROUP" /\ ctl[k].Name = name)

RadioTag(t) ==
  LET known == GroupsOf(t.name)
      radio == Control("RADIO", FormOf, t.value)
      added == IF known # <<>> THEN Append(ctl, radio)
               ELSE ctl \o <<radio, Control("GROUP", FormOf, t.name)>>
      g     == IF known # <<>> THEN known[1] ELSE Len(ctl) + 2
      first == t.checked /\ ~added[g].checked
  IN  ctl' = [added EXCEPT ![Len(ctl) + 1].link = g,
                           ![Len(ctl) + 1].checked = first,
                           ![Len(ctl) + 1].disabled = t.disabled,
                           ![g].checked = @ \/ first,
                           ![g].Value = IF first THEN <<t.value>> ELSE @]

\* form_selct(), for a page that has a form
SelectTag(t) ==
  ctl' = Append(ctl, [Control("SELECT", current, t.name) EXCEPT
                        !.disabled = t.disabled])

\* selct_option(): the first is shown, or the last one that is selected; an
\* option outside makes a select without a name.
Opened ==
  LET last == LastOf(InputList(current))
  IN  IF last # 0 /\ ctl[last].Type = "SELECT" THEN ctl
      ELSE Append(ctl, Control("SELECT", current, ""))

WithOption(c, t) ==
  LET n    == Len(c.items) + 1
      item == [text |-> t.text, value |-> IF t.disabled THEN <<>> ELSE t.value,
               disabled |-> t.disabled]
      new  == [c EXCEPT !.items = Append(@, item), !.NumItems = @ - 1]
  IN  IF n = 1 \/ t.selected THEN [new EXCEPT !.shown = n, !.Value = item.value]
      ELSE new

OptionTag(t) ==
  LET last == LastOf(InputList(current))
      k    == IF Len(Opened) = Len(ctl) THEN last ELSE Len(Opened)
  IN  ctl' = [Opened EXCEPT ![k] = WithOption(@, t)]

\* selct_finish()
EndSelectTag ==
  LET last == LastOf(InputList(current))
  IN  ctl' = IF last = 0 THEN ctl ELSE [ctl EXCEPT ![last] = FinishSelect(@)]

\* select and option need a form, the others make one.
ControlTag(t) ==
  CASE t.tag \in {"OPTION", "SELECT", "/SELECT"} ->
         /\ IF current = 0 THEN UNCHANGED ctl
            ELSE IF t.tag = "OPTION" THEN OptionTag(t)
            ELSE IF t.tag = "SELECT" THEN SelectTag(t)
            ELSE EndSelectTag
         /\ UNCHANGED <<forms, current>>
    [] OTHER ->
         /\ forms' = Formed
         /\ current' = FormOf
         /\ CASE t.tag = "RADIO" -> RadioTag(t)
              [] t.tag = "FILE"  -> FileTag(t)
              [] OTHER           -> SingleTag(t)

Parse ==
  /\ ~shown
  /\ tags # <<>>
  /\ tags' = Tail(tags)
  /\ IF Head(tags).tag = "FORM" THEN FormTag(Head(tags)) ELSE ControlTag(Head(tags))
  /\ UNCHANGED <<vars, wind, shown, sent>>

\* frame_finish(), and HW_PageFinished
PageFinished ==
  /\ ~shown
  /\ tags = <<>>
  /\ ctl # <<>>
  /\ ctl' = FormFinish(current)
  /\ current' = 0
  /\ shown' = TRUE
  /\ wind' = [Active |-> "this", Input |-> 0]
  /\ UNCHANGED <<vars, tags, forms, sent>>

-----------------------------------------------------------------------------
(***************************************************************************)
(* form_activate() and form_activate_multipart(), for a form in which the  *)
(* controls are cs.                                                        *)
(***************************************************************************)
\* What is in the data for a name goes, if it is found.  The address is in the
\* data of METH_GET, and strstr() finds a name that occurs in it before the
\* '?' there first; the places behind are tried, but only those behind an '&'.
\* Mutant: all that is checked is appended.
AppendedTo(within, data, pair) == Append(data, pair)

PutTo(within, data, pair) ==
  LET found(i) == data[i].name = pair.name /\ (i > 1 \/ pair.name \notin within)
      same == SelectInSeq([i \in DOMAIN data |-> i], found)
  IN  Append(IF same = 0 THEN data ELSE RemoveAt(data, same), pair)

Get(data, pair)  == PutTo(Within, data, pair)
Post(data, pair) == PutTo({}, data, pair)

Checked(cs, f) ==
  SelectSeq(InputList(f), LAMBDA k : cs[k].checked /\ cs[k].Name # "")

Pairs(cs, f) ==
  LET list == Checked(cs, f)
  IN  [i \in DOMAIN list |->
         [name |-> cs[list[i]].Name, value |-> ValueOf(list[i])]]

IsMultipart(cs, f) ==
  /\ forms[f].Method # "AUTH"
  /\ InputList(f) # <<>>
  /\ \/ forms[f].Enctype = "multipart"
     \/ /\ forms[f].Method = "POST"
        /\ \E k \in ToSet(Checked(cs, f)) : cs[k].Type = "FILE"

\* A user and a password are sent to a server that asks for them: the form
\* must have these and a button to send them.
AuthPairs(f) ==
  LET list == InputList(f)
      ok   == /\ Len(list) = 3
              /\ IsEdit(ctl[list[1]].Type) /\ ValueOf(list[1]) # <<>>
              /\ ctl[list[2]].pwd
              /\ ctl[list[3]].Type = "BUTTN" /\ ctl[list[3]].SubType = "S"
  IN  IF ok THEN << [name |-> "user", value |-> ValueOf(list[1])],
                    [name |-> "password", value |-> ValueOf(list[2])] >>
      ELSE <<>>

Request(cs, f) ==
  LET as == IF forms[f].Method = "AUTH" THEN "auth"
            ELSE IF IsMultipart(cs, f) THEN "multipart" ELSE forms[f].Method
  IN  [as    |-> as,
       pairs |-> CASE as = "auth"      -> AuthPairs(f)
                   [] as = "multipart" -> Pairs(cs, f)
                   [] as = "GET"       -> FoldLeft(Get, forms[f].Query, Pairs(cs, f))
                   [] as = "POST"      -> FoldLeft(Post, <<>>, Pairs(cs, f))]

\* The file fields keep what was sent of them in Value.
Kept(cs, f) ==
  [k \in DOMAIN cs |->
     IF /\ IsMultipart(cs, f)
        /\ k \in ToSet(Checked(cs, f)) /\ cs[k].Type = "FILE"
     THEN [cs[k] EXCEPT !.pwd = TRUE] ELSE cs[k]]

MethodAfter(cs, f) ==
  IF IsMultipart(cs, f) THEN "POST" ELSE forms[f].Method

\* Sent by a button, or by Return in a text field (by = 0)
Activated(cs, f, by) ==
  sent' = [form |-> f, by |-> by,
           as |-> Request(cs, f).as, pairs |-> Request(cs, f).pairs]

-----------------------------------------------------------------------------
(***************************************************************************)
(* Clicks: button_clicked(), input_handle() and input_activate().          *)
(***************************************************************************)
SetActive(frame, k) == wind' = [Active |-> frame, Input |-> k]

\* Whether module Edit's field is the active one of its form
FieldActive == active' = \E k \in TheField : forms'[ctl[k].Form].TextActive = k

Untouched ==
  UNCHANGED <<input, buf, cursor, TextShiftX, TextShiftY>> /\ FieldActive

\* A file field has kept what was sent of it.
Uploaded == \E k \in DOMAIN ctl : ctl[k].Type = "FILE" /\ ctl[k].pwd

Usable(k) ==
  /\ shown
  /\ k \in DOMAIN ctl
  /\ Again \/ ~Uploaded

\* What another control than a field leaves: the window has the same Input.
Beside ==
  SetActive("this", wind.Input) /\ Untouched /\ UNCHANGED <<tags, current, shown>>

ClickCheck(k) ==
  /\ Usable(k) /\ ctl[k].Type = "CHECK" /\ ~ctl[k].disabled
  /\ ctl' = [ctl EXCEPT ![k].checked = ~@]
  /\ UNCHANGED forms
  /\ Silent
  /\ Beside

\* The first that is checked is set free.
Switched(k, g) ==
  [i \in DOMAIN ctl |->
     IF i = k THEN [ctl[i] EXCEPT !.checked = TRUE]
     ELSE IF i = g THEN [ctl[i] EXCEPT !.checked = TRUE, !.Value = <<ctl[k].Name>>]
     ELSE IF i \in Radios(g) /\ ctl[g].checked THEN [ctl[i] EXCEPT !.checked = FALSE]
     ELSE ctl[i]]

ClickRadio(k) ==
  /\ Usable(k) /\ ctl[k].Type = "RADIO" /\ ~ctl[k].disabled
  /\ ~ctl[k].checked
  /\ ctl' = Switched(k, ctl[k].link)
  /\ UNCHANGED forms
  /\ Silent
  /\ Beside

\* The s-th entry of the popup; the list of items is walked from its end.
ItemOf(c, s) ==
  LET back == IF c.NumItems > s THEN c.NumItems - s ELSE 0
  IN  IF back < Len(c.items) THEN Len(c.items) - back ELSE 1

ClickSelect(k) ==
  /\ Usable(k) /\ ctl[k].Type = "SELECT" /\ ~ctl[k].disabled
  /\ \E s \in DOMAIN ctl[k].Array :
       LET n == ItemOf(ctl[k], s)
       IN  /\ ctl[k].NumItems > 0
           /\ ~ctl[k].items[ctl[k].Array[s]].disabled
           /\ ctl' = [ctl EXCEPT ![k].shown = n, ![k].Value = ctl[k].items[n].value]
  /\ UNCHANGED forms
  /\ Silent
  /\ Beside

\* input_file_handler(): the path replaces the text of the field, which is
\* taken for a password if it was sent before.
Fed(c, path) == [c EXCEPT !.Value = IF c.pwd THEN <<"*">> ELSE <<path>>]

ClickFile(k) ==
  /\ Usable(k) /\ ctl[k].SubType = "F" /\ ~ctl[k].disabled
  /\ \E path \in Paths : ctl' = [ctl EXCEPT ![ctl[k].link] = Fed(@, path)]
  /\ forms' = [forms EXCEPT ![ctl[k].Form].TextActive = ctl[k].link]
  /\ Silent
  /\ Beside

\* The button is checked while its form is sent.
Released(cs, k) == [cs EXCEPT ![k].checked = FALSE]

ClickSubmit(k) ==
  /\ Usable(k) /\ ctl[k].SubType = "S" /\ ~ctl[k].disabled
  /\ ~ctl[k].checked
  /\ LET pressed == [ctl EXCEPT ![k].checked = TRUE]
         f       == ctl[k].Form
     IN  /\ Activated(pressed, f, k)
         /\ ctl' = Released(Kept(pressed, f), k)
         /\ forms' = [forms EXCEPT ![f].Method = MethodAfter(pressed, f)]
  /\ Beside

\* input_handle(): a field becomes its form's active one.
Handled(k) ==
  /\ ~ctl[k].disabled
  /\ forms' = [forms EXCEPT ![ctl[k].Form].TextActive = k]
  /\ Silent
  /\ UNCHANGED <<tags, ctl, current, shown>>

ClickField(k) ==
  /\ Usable(k)
  /\ IsEdit(ctl[k].Type)
  /\ Handled(k)
  /\ SetActive("this", k)
  /\ IF ctl[k].edit THEN Click ELSE Untouched

\* input_activate (input, -1)
Deactivated(k) ==
  IF k = 0 THEN forms
  ELSE [f \in DOMAIN forms |->
          IF forms[f].TextActive = k THEN [forms[f] EXCEPT !.TextActive = 0] ELSE forms[f]]

\* Text, a link or nothing at all, in one of the frames; or the toolbar
ClickElsewhere(frame) ==
  /\ shown
  /\ SetActive(frame, 0)
  /\ forms' = Deactivated(wind.Input)
  /\ Untouched
  /\ Silent
  /\ UNCHANGED <<tags, ctl, current, shown>>

\* A scroll bar: the field keeps the keys.
ClickBar(frame) ==
  /\ frame = "this" => shown
  /\ frame = "other" => Strays \/ wind.Input = 0
  /\ SetActive(frame, wind.Input)
  /\ Silent
  /\ UNCHANGED <<vars, page, shown>>

-----------------------------------------------------------------------------
(***************************************************************************)
(* Keys: vTab_evKeybrd() and input_keybrd().  A field that is not its      *)
(* form's active one does not get them.                                    *)
(***************************************************************************)
HasKeys(k) ==
  /\ Usable(k)
  /\ wind.Input = k
  /\ forms[ctl[k].Form].TextActive = k

Typing ==
  /\ \E k \in TheField : HasKeys(k)
  /\ Edits \/ Moves
  /\ Silent
  /\ UNCHANGED <<page, wind, shown>>

\* Return sends the form.  The window keeps the field as its Input.
KeyReturn(k) ==
  /\ HasKeys(k)
  /\ ctl[k].Type # "TAREA"
  /\ LET f == ctl[k].Form
     IN  /\ Activated(ctl, f, 0)
         /\ ctl' = Kept(ctl, f)
         /\ forms' = [forms EXCEPT ![f].Method = MethodAfter(ctl, f), ![f].TextActive = 0]
  /\ IF ctl[k].edit THEN Submit ELSE ValueOf(k) # <<>> /\ Untouched
  /\ UNCHANGED <<tags, current, wind, shown>>

\* Tab: the next field of the form that is not disabled, or the first
Behind(k, list) == SubSeq(list, SelectInSeq(list, LAMBDA i : i = k) + 1, Len(list))
Before(k, list) == SubSeq(list, 1, SelectInSeq(list, LAMBDA i : i = k) - 1)

Fields(list) == SelectSeq(list, LAMBDA i : IsEdit(ctl[i].Type) /\ ~ctl[i].disabled)

NextField(k) ==
  LET list == InputList(ctl[k].Form)
  IN  Head(Fields(Behind(k, list)) \o Fields(list))

\* Shift Tab: the last line of text before it, if the control before it is not
\* disabled; or the last one of all.  (Otherwise the loop leaves the list.)
Lines(list) == SelectSeq(Fields(list), LAMBDA i : ctl[i].Type = "TEXT")

PrevField(k) ==
  LET list   == InputList(ctl[k].Form)
      before == Lines(Before(k, list))
      behind == Lines(Tail(Behind(k, list)))
  IN  IF before # <<>> THEN Last(before)
      ELSE IF behind # <<>> THEN Last(behind)
      ELSE k

PrevDefined(k) ==
  LET list == InputList(ctl[k].Form)
  IN  /\ Before(k, list) # <<>>
      /\ ~ctl[Last(Before(k, list))].disabled
      /\ Lines(Before(k, list)) = <<>> => Behind(k, list) # <<>>

\* Mutant: the form is not told.
GoUntold(k, n) ==
  /\ wind' = [wind EXCEPT !.Input = n]
  /\ Silent
  /\ UNCHANGED <<page, shown>>
  /\ Untouched

GoTo(k, n) ==
  IF n = k THEN UNCHANGED formVars
  ELSE /\ Handled(n)
       /\ wind' = [wind EXCEPT !.Input = n]
       /\ IF ctl[n].edit
          THEN Click /\ TextCursrX' = 0 /\ TextCursrY' = 0
          ELSE Untouched

KeyTab(k)      == HasKeys(k) /\ GoTo(k, NextField(k))
KeyShiftTab(k) == HasKeys(k) /\ PrevDefined(k) /\ GoTo(k, PrevField(k))

KeyCtrlTab(k) ==
  /\ HasKeys(k)
  /\ forms' = [forms EXCEPT ![ctl[k].Form].TextActive = 0]
  /\ wind' = [wind EXCEPT !.Input = 0]
  /\ IF ctl[k].edit THEN Leave ELSE Untouched
  /\ Silent
  /\ UNCHANGED <<tags, ctl, current, shown>>

-----------------------------------------------------------------------------
(***************************************************************************)
(* The frames of the window.                                               *)
(***************************************************************************)
\* Another page, in the other frame, is finished: HW_PageFinished.
OtherFinished ==
  /\ SetActive("other", 0)
  /\ Silent
  /\ UNCHANGED <<vars, page, shown>>

\* HW_PageCleared, and destroy_form()
Forgotten == IF wind.Active = "this" THEN [Active |-> "none", Input |-> 0] ELSE wind

PageCleared ==
  /\ shown
  /\ shown' = FALSE
  /\ wind' = Forgotten
  /\ forms' = <<>> /\ ctl' = <<>>
  /\ active' = FALSE
  /\ UNCHANGED <<input, buf, cursor, TextShiftX, TextShiftY, tags, current>>
  /\ Silent

-----------------------------------------------------------------------------
FormInit ==
  /\ \E d \in Documents : input = d.field /\ tags = d.tags
  /\ Init
  /\ forms = <<>> /\ ctl = <<>> /\ current = 0
  /\ wind = [Active |-> "none", Input |-> 0]
  /\ shown = FALSE
  /\ sent = NoRequest

Clicks ==
  \/ \E k \in DOMAIN ctl :
       \/ ClickCheck(k) \/ ClickRadio(k) \/ ClickSelect(k)
       \/ ClickFile(k) \/ ClickSubmit(k) \/ ClickField(k)
  \/ \E frame \in {"this", "other"} : ClickElsewhere(frame) \/ ClickBar(frame)

Keys ==
  \/ Typing
  \/ \E k \in DOMAIN ctl : KeyReturn(k) \/ KeyTab(k) \/ KeyShiftTab(k) \/ KeyCtrlTab(k)

FormNext == Parse \/ PageFinished \/ Clicks \/ Keys \/ OtherFinished \/ PageCleared

FormSpec == FormInit /\ [][FormNext]_formVars

-----------------------------------------------------------------------------
(***************************************************************************)
(* Properties.                                                             *)
(***************************************************************************)
On(g) == {k \in Radios(g) : ctl[k].checked}

\* A group of radio buttons has the value of the only one that is checked, or
\* none.
Grouped ==
  \A g \in DOMAIN ctl : ctl[g].Type = "GROUP" =>
    IF ctl[g].checked
    THEN \E k \in DOMAIN ctl : On(g) = {k} /\ ctl[g].Value = <<ctl[k].Name>>
    ELSE On(g) = {} /\ ctl[g].Value = <<>>

\* What a select shows is the option it has the value of, and choosing an
\* entry of its popup chooses this entry.
Selected ==
  \A k \in DOMAIN ctl : ctl[k].Type = "SELECT" =>
    /\ ctl[k].items # <<>> => ctl[k].Value = ctl[k].items[ctl[k].shown].value
    /\ shown => /\ ctl[k].disabled \/ ctl[k].Array # <<>>
                /\ \A s \in DOMAIN ctl[k].Array : ItemOf(ctl[k], s) = ctl[k].Array[s]

\* Between two events no button is pressed, and a file field has the path of a
\* file that was selected.
Idle ==
  \A k \in DOMAIN ctl :
    /\ ctl[k].Type = "BUTTN" => ~ctl[k].checked
    /\ ctl[k].Type = "FILE" =>
         ctl[k].Value \in {<<>>} \cup {<<path>> : path \in Paths}

\* The field that the window gives the keys to exists, and is its form's active
\* one, or none is, or a file that was selected: within a form the cursor is not
\* shown in one field while another one takes the keys.  (A field of another
\* form that was clicked before stays the active one of its form, and its cursor
\* stays drawn: input_handle() looks at its own form only.)
Focus ==
  /\ \A f \in DOMAIN forms : forms[f].TextActive \in {0} \cup ToSet(InputList(f))
  /\ wind.Input # 0 =>
       /\ wind.Input \in DOMAIN ctl
       /\ LET k == forms[ctl[wind.Input].Form].TextActive
          IN  k \in {0, wind.Input} \/ ctl[k].Type = "FILE"

\* Whatever was clicked and typed before, the controls agree with each other,
\* with what they show and with the window: at most one button of a group, the
\* value of the option shown, in each form one field for the cursor and the keys,
\* and none of a page that is gone.
Controls == Grouped /\ Selected /\ Idle /\ Focus

\* What a user would say that a control sends: with a button, the one that was
\* pressed.
Says(k, by) ==
  /\ ctl[k].Name # ""
  /\ \/ ctl[k].Type \in {"HIDDN", "SELECT"} \/ IsEdit(ctl[k].Type)
     \/ ctl[k].Type = "CHECK" /\ ctl[k].checked
     \/ ctl[k].Type = "GROUP" /\ On(k) # {}
     \/ k = by

ValueShown(k) ==
  IF ctl[k].Type = "GROUP" THEN <<ctl[CHOOSE i \in On(k) : TRUE].Name>>
  ELSE IF ctl[k].Type = "SELECT" /\ ctl[k].items # <<>>
       THEN ctl[k].items[ctl[k].shown].value
  ELSE ValueOf(k)

\* The controls of form f that are to be sent
Saying(f, by) == SelectSeq(InputList(f), LAMBDA k : Says(k, by))

\* In a request that is not multipart a name is there once, with the value of
\* the last control of this name.
LastOnes(list) ==
  SelectSeq(list,
    LAMBDA k : \A i \in ToSet(Behind(k, list)) : ctl[i].Name # ctl[k].Name)

SentPairs(list) ==
  [i \in DOMAIN list |->
     [name |-> ctl[list[i]].Name, value |-> ValueShown(list[i])]]

OfQuery(f, list) ==
  SelectSeq(forms[f].Query, LAMBDA p : \A k \in ToSet(list) : ctl[k].Name # p.name)

Expected(f, by, as) ==
  LET list == Saying(f, by)
  IN  CASE as = "multipart" -> SentPairs(list)
        [] as = "POST"      -> SentPairs(LastOnes(list))
        [] as = "GET"       -> OfQuery(f, list) \o SentPairs(LastOnes(list))

\* The first name of the address is there once more if it occurs before the '?'.
Twice(pairs, expected) ==
  /\ pairs # <<>>
  /\ Head(pairs).name \in Within
  /\ Tail(pairs) = expected

\* A request has what the page shows at that moment: the controls that have a
\* name, in their order, and of the buttons only the one that was pressed, each
\* name once, but for the first one of an address that has this name in its path.
Submitted ==
  [][sent' # NoRequest /\ sent'.as # "auth"
     => LET expected == Expected(sent'.form, sent'.by, sent'.as)
        IN  \/ sent'.pairs = expected
            \/ sent'.as = "GET" /\ Twice(sent'.pairs, expected)]_formVars

=============================================================================
