----------------------------- MODULE PanelForm -----------------------------
(***************************************************************************)
(* The forms of the configuration panels: how a form gets its values, what *)
(* the save handler puts into the change, and what the device then holds.  *)
(* One field of one form is followed, and a row of the menu is its value.  *)
(* PanelCatalogue reads off each panel how its fields behave:              *)
(*                                                                         *)
(*   ops    what the table offers: "add", "edit", "remove", "toggle"       *)
(*   guard  rows that RouterOS made itself (dynamic) are not offered them  *)
(*   load   "opener": the button that opens the dialog sets the form       *)
(*          "handler": the dialog means to, in its own onOpenChange        *)
(*          "held": nothing sets the form again                            *)
(*          "effect", "once", "overlay": the form is part of the page      *)
(*   types  when the operator can change the field                         *)
(*   send   when the field is put into a change                            *)
(*   need   the handler refuses an empty field: "yes", "no", or in an      *)
(*          "add" only                                                     *)
(*   fill   a default is loaded for a property the row does not have       *)
(*   hide   the field is loaded empty (passwords)                          *)
(*   vs     what a difference is taken to: the row as it was "opened", or  *)
(*          as the page has it "shown" when the form is saved              *)
(*   miss   what a property the row does not have is compared as           *)
(*                                                                         *)
(* One change at a time is staged and applied: ConfigPanel has the list.   *)
(***************************************************************************)
EXTENDS Integers

CONSTANTS
  Behaviour,    \* the fields of the panels, as above
  Value,        \* what the field may hold
  Blank,        \* the empty value, and that of a property a row has not
  Default,      \* the value a form assumes for such a property
  Keep,         \* a change without the field; an overlay without an edit
  MaxOutside,   \* changes made on the device by others
  MaxSaves      \* changes staged; no form is filled in after the last

ASSUME FormAssumption ==
  /\ {Blank, Default} \subseteq Value /\ Blank # Default /\ Keep \notin Value
  /\ {MaxOutside, MaxSaves} \subseteq Nat

\* What the panels have in common: a form that sends differences shows the
\* row it edits, and as it was loaded once only where it is compared with the
\* row shown; a field that is loaded empty is sent if it is set.
ASSUME BehaviourAssumption ==
  /\ Behaviour \subseteq
       [ops : SUBSET {"add", "edit", "remove", "toggle"}, guard : BOOLEAN,
        load : {"opener", "handler", "held", "effect", "once", "overlay"},
        types : {"always", "add", "never"},
        send : {"always", "filled", "ifset", "ifother", "diff", "diffset", "never"},
        need : {"yes", "no", "add"}, fill : BOOLEAN, hide : BOOLEAN,
        vs : {"opened", "shown"}, miss : {"absent", "blank", "same"}]
  /\ \A f \in Behaviour :
       /\ f.send \in {"diff", "diffset"} =>
            /\ ~f.hide
            /\ f.load \in {"handler", "held"} => "edit" \notin f.ops
            /\ f.load = "once" => f.vs = "shown"
       /\ f.hide => f.send = "ifset"

VARIABLES
  field,     \* how the field followed behaves
  device,    \* the rows of the device: row id -> value
  table,     \* the rows the panel shows
  dialog,    \* Closed, New or the id of the row being edited
  form,      \* the field in the form
  base,      \* the row's value that the form was loaded from; Keep if from none
  typed,     \* the operator typed what is in the form
  change,    \* the staged change, or None
  outside,   \* changes made by others
  saves      \* changes staged

formVars == <<dialog, form, base, typed>>
boundVars == <<outside, saves>>
pageVars == <<field, device, table, formVars, change, boundVars>>

Closed == 0
New == -1
None == [op |-> "none", id |-> 0, val |-> Keep, was |-> Keep, from |-> Keep, typed |-> FALSE]

Without(f, k) == [x \in DOMAIN f \ {k} |-> f[x]]
With(f, k, v) == [x \in DOMAIN f \cup {k} |-> IF x = k THEN v ELSE f[x]]
Fresh == CHOOSE n \in 1 .. 3 + MaxSaves : n \notin DOMAIN device

\* A form that is part of the page, not of a dialog; it edits row 1.
Standing == field.load \in {"effect", "once", "overlay"}
Copied == field.load \in {"effect", "once"}
Free == dialog = Closed \/ Standing

\* What a form shows of a row.
Loaded(v) ==
  IF field.hide THEN Blank
  ELSE IF v = Blank /\ field.fill THEN Default
  ELSE v

\* The form of a freshly mounted panel: a standing form was loaded from its
\* row, an overlay has no edit, a dialog has the defaults.
FirstForm ==
  CASE Copied -> Loaded(table[1]) [] field.load = "overlay" -> Keep [] OTHER -> Loaded(Blank)

\* Row 2 is one that RouterOS made.
FirstRows == IF field.guard THEN {1, 2} ELSE {1}
Offered(op, id) == Free /\ op \in field.ops /\ ~(field.guard /\ id = 2)

FormInit ==
  /\ field \in Behaviour
  /\ device \in {f \in [FirstRows -> Value] : \A id \in FirstRows \ {1} : f[id] = Default}
  /\ table = device
  /\ dialog = IF Standing THEN 1 ELSE Closed
  /\ form = FirstForm /\ base = (IF Copied THEN table[1] ELSE Keep) /\ typed = FALSE
  /\ change = None
  /\ outside = 0 /\ saves = 0

-----------------------------------------------------------------------------
\* Opening the dialog.  A dialog that means to load its form in its own
\* onOpenChange is not called when the parent opens it, and holds what it
\* held last.
Open(target, value) ==
  /\ ~Standing /\ saves < MaxSaves
  /\ dialog' = target
  /\ IF field.load = "opener" THEN form' = Loaded(value) /\ base' = value ELSE UNCHANGED form /\ base' = Keep
  /\ typed' = FALSE
  /\ UNCHANGED <<field, device, table, change, boundVars>>

handleAdd == Free /\ "add" \in field.ops /\ Open(New, Blank)

handleEdit(id) == Offered("edit", id) /\ Open(id, table[id])

Type(v) ==
  /\ dialog # Closed /\ saves < MaxSaves
  /\ field.types = "always" \/ (field.types = "add" /\ dialog = New)
  /\ form' = v
  /\ typed' = TRUE
  /\ UNCHANGED <<field, device, table, dialog, base, change, boundVars>>

\* The form once it is saved or closed: an opener will set it again, an
\* overlay falls back to the row, the others keep their value.
CloseForm ==
  /\ dialog' = IF Standing THEN dialog ELSE Closed
  /\ form' = CASE field.load = "opener" -> Loaded(Blank) [] field.load = "overlay" -> Keep [] OTHER -> form
  /\ base' = IF Copied THEN base ELSE Keep
  /\ typed' = (Copied /\ typed)

Cancel ==
  /\ dialog # Closed /\ ~Standing
  /\ CloseForm
  /\ UNCHANGED <<field, device, table, change, boundVars>>

-----------------------------------------------------------------------------
\* The row a difference is taken to, and its value in the comparison.
Row == IF field.vs = "shown" \/ Standing THEN table[dialog] ELSE base

Was ==
  IF Row # Blank THEN Row
  ELSE CASE field.miss = "absent" -> Keep [] field.miss = "blank" -> Blank [] field.miss = "same" -> Loaded(Blank)

\* Mutant: a field that is left empty is sent all the same.
SentEmpty(v) ==
  CASE field.send \in {"diff", "diffset"} -> IF v = Was THEN Keep ELSE v [] OTHER -> v

\* The field in the change of an edit.
Sent(v) ==
  CASE field.send = "always" -> v
    [] field.send = "filled" -> IF v = Blank THEN Default ELSE v
    [] field.send = "ifset" -> IF v = Blank THEN Keep ELSE v
    [] field.send = "ifother" -> IF v \in {Blank, Default} THEN Keep ELSE v
    [] field.send = "diff" -> IF v = Was THEN Keep ELSE v
    [] field.send = "diffset" -> IF v \in {Was, Blank} THEN Keep ELSE v
    [] field.send = "never" -> Keep

Stage(c) ==
  /\ change = None /\ saves < MaxSaves
  /\ saves' = saves + 1
  /\ change' = c

\* A handler that sends what differs stages nothing when nothing does, and an
\* overlay without an edit is not saved; the others stage what they have.
Stages(val) == val # Keep \/ field.send \in {"ifset", "ifother", "never"}

\* The save handler: validation stops it, the change is staged, the form closed.
handleSave ==
  /\ dialog # Closed
  /\ field.need = "yes" \/ (field.need = "add" /\ dialog = New) => form # Blank
  /\ LET add == dialog = New
         val == IF add THEN form ELSE Sent(form)
     IN  IF add \/ Stages(val)
         THEN Stage([op |-> IF add THEN "add" ELSE "set", id |-> dialog, val |-> val,
                     was |-> IF add THEN Keep ELSE Row, from |-> base, typed |-> typed])
         ELSE UNCHANGED <<change, saves>>
  /\ CloseForm
  /\ UNCHANGED <<field, device, table, outside>>

\* The enable/disable switch changes another field than the one followed.
handleToggle(id) ==
  /\ Offered("toggle", id)
  /\ Stage([None EXCEPT !.op = "set", !.id = id])
  /\ UNCHANGED <<field, device, table, formVars, outside>>

handleDelete(id) ==
  /\ Offered("remove", id)
  /\ Stage([None EXCEPT !.op = "remove", !.id = id])
  /\ UNCHANGED <<field, device, table, formVars, outside>>

-----------------------------------------------------------------------------
\* Mutant: the effect runs on the first load only.
FollowRowOnce(rows) == UNCHANGED formVars

\* A standing form follows its row: the effect copies the row over what was
\* typed when the query brings a row that differs.
FollowRow(rows) ==
  IF field.load = "effect" /\ rows[1] # table[1]
  THEN form' = Loaded(rows[1]) /\ base' = rows[1] /\ typed' = FALSE /\ UNCHANGED dialog
  ELSE UNCHANGED formVars

\* The rows are read again: focus, refresh, or the end of an apply.
Refresh(rows) == table' = rows /\ FollowRow(rows)

Refetch ==
  /\ table # device
  /\ Refresh(device)
  /\ UNCHANGED <<field, device, change, boundVars>>

\* The effect runs for a difference in any property of the row.
OtherProperty ==
  /\ field.load = "effect"
  /\ outside < MaxOutside
  /\ outside' = outside + 1
  /\ form' = Loaded(table[1]) /\ base' = table[1] /\ typed' = FALSE
  /\ UNCHANGED <<field, device, table, dialog, change, saves>>

\* What the device makes of a change; the row must still be there.
Effect(c) ==
  CASE c.op = "add" -> With(device, Fresh, IF c.val = Keep THEN Blank ELSE c.val)
    [] c.op = "remove" -> Without(device, c.id)
    [] c.op = "set" -> IF c.val = Keep THEN device ELSE With(device, c.id, c.val)

\* The change is applied, and the rows are read again.
Applied ==
  /\ change # None
  /\ change.op = "add" \/ change.id \in DOMAIN device
  /\ device' = Effect(change)
  /\ Refresh(device')
  /\ change' = None
  /\ UNCHANGED <<field, boundVars>>

\* The change is refused, or taken off the list.
Dropped ==
  /\ change # None
  /\ change' = None
  /\ UNCHANGED <<field, device, table, formVars, boundVars>>

\* Somebody else changes or removes a row of the device.
Outside(id, v) ==
  /\ outside < MaxOutside
  /\ outside' = outside + 1
  /\ device' = IF v = Keep THEN Without(device, id) ELSE With(device, id, v)
  /\ v = Keep => "remove" \in field.ops
  /\ UNCHANGED <<field, table, formVars, change, saves>>

FormNext ==
  \/ handleAdd \/ Cancel \/ handleSave \/ Refetch \/ OtherProperty \/ Applied \/ Dropped
  \/ \E id \in DOMAIN table : handleEdit(id) \/ handleToggle(id) \/ handleDelete(id)
  \/ \E v \in Value : Type(v)
  \/ \E id \in DOMAIN device, v \in Value \cup {Keep} : Outside(id, v)

FormSpec == FormInit /\ [][FormNext]_pageVars

-----------------------------------------------------------------------------
\* Loading a row into a form and saving it with a field untouched leaves that
\* field of the row as it is, whatever the form does with it (defaults for what
\* is missing, passwords that are not shown, differences, fields sent if set)
\* and however often the rows were read in between.  A property the row did
\* not have may get its default.  The row must be as it was when it was loaded:
\* most forms would undo what somebody else changed since.  Of an edit dialog
\* that loads nothing (load "handler") this says nothing: it writes what it
\* happens to hold.
UntouchedStays ==
  [][Applied /\ change.op = "set" /\ ~change.typed /\ change.from # Keep /\ device[change.id] = change.from
       => \/ device'[change.id] = device[change.id]
          \/ device[change.id] = Blank /\ device'[change.id] = Default]_pageVars

\* A form that sends differences does not send what the operator left alone,
\* so it does not undo what somebody else changed meanwhile.  The exceptions
\* are a property the row did not have, and the forms that are loaded once
\* but compared with the row as it is shown when they are saved.
UntouchedNotSent ==
  change.op = "set" /\ change.val # Keep /\ ~change.typed /\ field.send \in {"diff", "diffset"}
    => change.was = Blank \/ (field.vs = "shown" /\ field.load \in {"opener", "once"})
=============================================================================
