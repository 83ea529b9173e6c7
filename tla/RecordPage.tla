----------------------------- MODULE RecordPage -----------------------------
(***************************************************************************)
(* The pages of the console that list records and edit one of them in a    *)
(* form: alert rules, sites, users, profiles, keys, templates and the      *)
(* like.  They share their shape and differ in when the form takes its     *)
(* fields from the record, in where the mutation lives and in what its     *)
(* answer does; PageCatalogue reads that off each page:                    *)
(*                                                                         *)
(*   adds, edits  what the page opens its form for                         *)
(*   load   "fresh": each opening sets the fields (in the button that      *)
(*          opens, by mounting the form, in an effect, or by the reset of  *)
(*          the closing before)                                            *)
(*          "keyed": only an opening under another key does                *)
(*          "kept": only mounting the page does                            *)
(*          "fetched": the record is asked for and the form shown when it  *)
(*          arrives                                                        *)
(*          "page": the form is part of the page, an effect copies the     *)
(*          record whenever the query brings another one                   *)
(*   hook   whose the mutation is, and with it isPending: the "page"'s,    *)
(*          the opening's ("dialog") or the "key"'s                        *)
(*   after  an accepted request closes the form ("close"), closes it after *)
(*          a delay ("later") or leaves it ("stay")                        *)
(*   hides  the outcomes, "ok" and "failed", shown in place of the form    *)
(*   clears an accepted request empties the fields                         *)
(*   holds  the form cannot be closed while its request is out             *)
(*   rows   the buttons of the rows: "free", "serial" (disabled while the  *)
(*          request before is out) and "quiet" (so too, nothing to list)   *)
(***************************************************************************)
EXTENDS Integers, FiniteSets

CONSTANTS
  Screen,        \* the pages, as above
  Record,        \* the records listed
  NewRecord,     \* the record a form is to create
  MaxOpenings,   \* bound: openings of the form
  MaxRequests    \* bound: requests sent

ASSUME RecordAssumption ==
  /\ Record # {} /\ NewRecord \notin Record
  /\ {MaxOpenings, MaxRequests} \subseteq Nat

\* A form that is part of its page is never closed.
ASSUME ScreenAssumption ==
  /\ Screen \subseteq
       [adds : BOOLEAN, edits : BOOLEAN, load : {"fresh", "keyed", "kept", "fetched", "page"},
        hook : {"page", "dialog", "key"}, after : {"close", "later", "stay"},
        hides : SUBSET {"ok", "failed"}, clears : BOOLEAN, holds : BOOLEAN,
        rows : SUBSET {"free", "serial", "quiet"}]
  /\ \A s \in Screen : s.load = "page" => s.after = "stay"

VARIABLES
  screen,    \* the page followed
  opened,    \* the form is shown
  target,    \* the record the page saves the form to
  text,      \* what became of the form's text: "no" (as set), "typed",
             \* "beside" (typed while an answer was due), "sent", or "gone"
             \* when an outcome is shown instead
  asked,     \* records asked for, to be edited
  opening,   \* openings so far
  submit,    \* the requests
  listed,    \* the requests whose effect the list shows
  query      \* the request of the list: Idle, Failed, or what it is to bring

recordVars == <<screen, opened, target, text, asked, opening, submit, listed, query>>

Submits == 1 .. MaxRequests
Unsent == [st |-> "none", op |-> "form", to |-> NewRecord, by |-> 0]

Idle == [st |-> "idle", brings |-> {}]
Asked == [st |-> "out", brings |-> {}]
Failed == [st |-> "failed", brings |-> {}]

First == IF screen.adds THEN NewRecord ELSE CHOOSE r \in Record : TRUE

\* An answer, or a closing after an answer, that will act on the form.
Awaited(n) == submit[n].op = "form" /\ submit[n].st \in {"sent", "closing"}

\* The bound on requests: once all are sent and answered the form is left alone.
Ongoing == \E n \in Submits : submit[n].st \in {"none", "sent", "closing"}

\* isPending, as the form that is shown has it.
Pending ==
  \E n \in Submits :
    /\ submit[n].op = "form" /\ submit[n].st = "sent"
    /\ CASE screen.hook = "page" -> TRUE
         [] screen.hook = "dialog" -> submit[n].by = opening
         [] screen.hook = "key" -> submit[n].to = target

RecordInit ==
  /\ screen \in Screen
  /\ opened = (screen.load = "page")
  /\ target = First /\ text = "no"
  /\ asked = {} /\ opening = 0
  /\ submit = [n \in Submits |-> Unsent]
  /\ listed = {} /\ query = Idle

-----------------------------------------------------------------------------
(* The form.                                                               *)

\* The text when the form is opened for r.  A page that keeps its fields is
\* sometimes mounted anew in between.
Reload(r) ==
  CASE screen.load \in {"fresh", "fetched"} -> text' = "no"
    [] screen.load = "keyed" -> text' = IF r = target THEN text ELSE "no"
    [] screen.load = "kept" -> text' \in {text, "no"}

Show(r) ==
  /\ opened' = TRUE
  /\ target' = r
  /\ opening' = opening + 1

Room == Ongoing /\ opening + Cardinality(asked) < MaxOpenings

openForm(r) ==
  /\ ~opened /\ Room
  /\ IF r = NewRecord THEN screen.adds ELSE screen.edits /\ screen.load # "fetched"
  /\ Show(r) /\ Reload(r)
  /\ UNCHANGED <<screen, asked, submit, listed, query>>

\* The edit button of a page that asks for the record first.
handleEditRecord(r) ==
  /\ ~opened /\ Room
  /\ screen.edits /\ screen.load = "fetched"
  /\ r \notin asked
  /\ asked' = asked \cup {r}
  /\ UNCHANGED <<screen, opened, target, text, opening, submit, listed, query>>

\* The record arrives.  A form that is already shown, for whatever record,
\* keeps its fields; only where they are saved to changes.
RecordArrives(r) ==
  /\ r \in asked
  /\ asked' = asked \ {r}
  /\ IF opened THEN target' = r /\ UNCHANGED <<opened, text, opening>>
     ELSE Show(r) /\ Reload(r)
  /\ UNCHANGED <<screen, submit, listed, query>>

RecordMissing(r) ==
  /\ r \in asked
  /\ asked' = asked \ {r}
  /\ UNCHANGED <<screen, opened, target, text, opening, submit, listed, query>>

TypeText ==
  /\ opened /\ Ongoing /\ text # "gone"
  /\ "failed" \in screen.hides => ~Pending
  /\ text' = IF text = "beside" \/ \E n \in Submits : Awaited(n) THEN "beside" ELSE "typed"
  /\ UNCHANGED <<screen, opened, target, asked, opening, submit, listed, query>>

\* Closing: a form that is set by each opening is as good as empty.
CloseFields(cleared) ==
  LET anew == screen.load \in {"fresh", "fetched"}
  IN  /\ opened' = FALSE
      /\ target' = IF anew THEN First ELSE target
      /\ text' = IF cleared \/ anew THEN "no" ELSE text

closeForm ==
  /\ opened /\ screen.load # "page"
  /\ screen.holds => ~Pending
  /\ CloseFields(FALSE)
  /\ UNCHANGED <<screen, asked, opening, submit, listed, query>>

-----------------------------------------------------------------------------
(* The requests.                                                           *)

NextRequest(n) == submit[n] = Unsent /\ \A m \in Submits : m < n => submit[m] # Unsent

\* The submit button: disabled while isPending and while what a new record
\* needs is missing, gone once an outcome is shown.
handleSubmit(n) ==
  /\ opened /\ ~Pending /\ NextRequest(n)
  /\ text # "gone" /\ (target = NewRecord => text # "no")
  /\ submit' = [submit EXCEPT ![n] = [st |-> "sent", op |-> "form", to |-> target, by |-> opening]]
  /\ text' = IF text = "no" THEN "no" ELSE "sent"
  /\ UNCHANGED <<screen, opened, target, asked, opening, listed, query>>

\* A button of a row.
rowButton(n, op) ==
  /\ op \in screen.rows /\ NextRequest(n)
  /\ ~opened \/ screen.load = "page" \/ op = "quiet"
  /\ op # "free" => \A m \in Submits : submit[m].op = op => submit[m].st # "sent"
  /\ submit' = [submit EXCEPT ![n] = [Unsent EXCEPT !.st = "sent", !.op = op]]
  /\ UNCHANGED <<screen, opened, target, text, asked, opening, listed, query>>

\* A request that is settled: what it carried is no longer of interest.
Settle(n, st) == submit' = [submit EXCEPT ![n] = [Unsent EXCEPT !.st = st, !.op = submit[n].op]]

\* The outcome of a request of this opening is shown in place of the fields.
Outcome(n, outcome) ==
  /\ UNCHANGED <<opened, target>>
  /\ text' = IF opened /\ submit[n].op = "form" /\ submit[n].by = opening /\ outcome \in screen.hides
             THEN "gone" ELSE text

\* Mutant: an error is handled as an answer is, and closes the form.
onRefusedCloses(n) ==
  /\ submit[n].st = "sent"
  /\ Settle(n, "refused")
  /\ IF submit[n].op = "form" /\ screen.load # "page" THEN CloseFields(FALSE) ELSE Outcome(n, "failed")
  /\ UNCHANGED <<screen, asked, opening, listed, query>>

\* onError, also when the backend did what it was asked and the answer is
\* lost: a message, and nothing else.
onRefused(n) ==
  /\ submit[n].st = "sent"
  /\ \E st \in {"refused", "unanswered"} : Settle(n, st)
  /\ Outcome(n, "failed")
  /\ UNCHANGED <<screen, asked, opening, listed, query>>

\* Mutant: the list is not asked for again.
onAcceptedQuiet(n) ==
  /\ submit[n].st = "sent"
  /\ Settle(n, "ok")
  /\ IF submit[n].op = "form" /\ screen.after = "close" THEN CloseFields(screen.clears) ELSE Outcome(n, "ok")
  /\ UNCHANGED <<screen, asked, opening, listed, query>>

\* onSuccess: the list is asked for again, a request of it that is out is
\* given up, and the form is closed, whichever opening it is by now.
onAccepted(n) ==
  /\ submit[n].st = "sent"
  /\ Settle(n, IF submit[n].op = "form" /\ screen.after = "later" THEN "closing" ELSE "ok")
  /\ IF submit[n].op = "form" /\ screen.after = "close" THEN CloseFields(screen.clears) ELSE Outcome(n, "ok")
  /\ query' = IF submit[n].op = "quiet" THEN query ELSE Asked
  /\ UNCHANGED <<screen, asked, opening, listed>>

\* The timer of a delayed closing; nothing stops it.
ClosingDue(n) ==
  /\ submit[n].st = "closing"
  /\ Settle(n, "ok")
  /\ CloseFields(screen.clears)
  /\ UNCHANGED <<screen, asked, opening, listed, query>>

-----------------------------------------------------------------------------
(* The query of the list.                                                  *)

Effects ==
  {n \in Submits : submit[n].op # "quiet" /\ submit[n].st \in {"unanswered", "closing", "ok"}}

\* The list is asked for again for another reason: focus, an interval.
Recheck ==
  /\ query \in {Idle, Failed} /\ Effects # listed
  /\ query' = Asked
  /\ UNCHANGED <<screen, opened, target, text, asked, opening, submit, listed>>

ListRead ==
  /\ query.st = "out"
  /\ query' = [st |-> "read", brings |-> Effects]
  /\ UNCHANGED <<screen, opened, target, text, asked, opening, submit, listed>>

\* The effect of a form that is part of the page writes over its text.
ListLands ==
  /\ query.st = "read"
  /\ query' = Idle
  /\ listed' = listed \cup query.brings
  /\ text' = IF screen.load = "page" /\ listed' # listed THEN "no" ELSE text
  /\ UNCHANGED <<screen, opened, target, asked, opening, submit>>

\* The query failed and so did its retry: the old list stays on the screen.
ListFails ==
  /\ query.st \in {"out", "read"}
  /\ query' = Failed
  /\ UNCHANGED <<screen, opened, target, text, asked, opening, submit, listed>>

-----------------------------------------------------------------------------
Answers(n) == onRefused(n) \/ onAccepted(n) \/ ClosingDue(n)
ListAnswers == ListRead \/ ListLands \/ ListFails

RecordNext ==
  \/ \E r \in Record \cup {NewRecord} : openForm(r)
  \/ \E r \in Record : handleEditRecord(r) \/ RecordArrives(r) \/ RecordMissing(r)
  \/ TypeText \/ closeForm
  \/ \E n \in Submits : handleSubmit(n) \/ Answers(n) \/ \E op \in {"free", "serial", "quiet"} : rowButton(n, op)
  \/ Recheck \/ ListAnswers

RecordSpec == RecordInit /\ [][RecordNext]_recordVars

-----------------------------------------------------------------------------
\* A refused request leaves the form and its text as they are, to be corrected
\* and sent again, but for the dialogs that show the error in their place; the
\* answer to a button of a row never touches them; and an accepted request
\* takes only its own text, or text typed while it was out.
InputKept ==
  [][\A n \in Submits :
       submit'[n].st \in {"refused", "unanswered", "closing", "ok"} /\ submit'[n].st # submit[n].st
         => \/ UNCHANGED <<opened, text>>
            \/ /\ submit[n].op = "form" /\ text # "typed"
               /\ submit'[n].st \in {"closing", "ok"} \/ "failed" \in screen.hides]_recordVars

Missing == {n \in Submits : submit[n].st = "ok" /\ submit[n].op # "quiet"} \ listed

\* The list comes to show what was accepted, all of it, unless the request of
\* it failed: an answer of the list that was read before is given up.
ListCatchesUp == Missing # {} ~> (Missing = {} \/ query = Failed)
=============================================================================
