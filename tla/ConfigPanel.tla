---------------------------- MODULE ConfigPanel ----------------------------
(***************************************************************************)
(* The staged changes of a configuration panel of the web console: the     *)
(* list, the review, the loop that sends the changes to the device one by  *)
(* one, and the query of the rows (hooks/useConfigPanel.ts).  What a       *)
(* change says is PanelForm's matter; here it is a number, in the order of *)
(* staging.                                                                *)
(*                                                                         *)
(* A panel lives as long as its tab is shown: SimpleConfigView unmounts    *)
(* it, and its list with it, when another tab is chosen, while an apply    *)
(* that is running goes on.                                                *)
(***************************************************************************)
EXTENDS Integers, FiniteSets

CONSTANTS
  MaxStaged,    \* changes staged
  MaxApplies,   \* applies confirmed
  MaxVisits     \* mounts of the panel

ASSUME PanelAssumption == {MaxStaged, MaxApplies, MaxVisits} \subseteq Nat

Change == 1 .. MaxStaged
Apply == 1 .. MaxApplies

VARIABLES
  discards,  \* the panel has a discard button
  staged,    \* changes staged so far
  pending,   \* pendingChanges: the changes on the list
  raced,     \* the changes staged while an apply of the same visit was running
  lost,      \* the changes cleared from the list that no apply was given
  visit,     \* mounts of the panel so far
  apply,     \* the applies: [st, todo, by], todo the changes not yet sent
  ran,       \* how often each change took effect on the device
  failed,    \* the changes on the list when an apply failed
  fetch,     \* the request of the rows: "idle", "out", "old" or "error"
  unseen     \* effects of this console that the table is older than: "no", "due",
             \* or "unasked" when an apply failed and the rows are not asked for

listVars == <<discards, staged, pending, raced, lost, visit>>
queryVars == <<fetch, unseen>>
panelVars == <<listVars, apply, ran, failed, queryVars>>

NotRun == [st |-> "none", todo |-> {}, by |-> 0]

PanelTypeOK ==
  /\ discards \in BOOLEAN
  /\ staged \in 0 .. MaxStaged
  /\ pending \cup raced \cup lost \cup failed \subseteq 1 .. staged
  /\ visit \in Nat
  /\ apply \in [Apply -> [st : {"none", "run", "ok", "err"},
                          todo : SUBSET (1 .. staged), by : 0 .. visit]]
  /\ ran \in [Change -> Nat]
  /\ fetch \in {"idle", "out", "old", "error"}
  /\ unseen \in {"no", "due", "unasked"}

\* The rows are loaded, nothing is staged.
PanelInit ==
  /\ discards \in BOOLEAN
  /\ staged = 0 /\ pending = {} /\ raced = {} /\ lost = {} /\ failed = {}
  /\ visit = 1
  /\ apply = [a \in Apply |-> NotRun]
  /\ ran = [c \in Change |-> 0]
  /\ fetch = "idle" /\ unseen = "no"

-----------------------------------------------------------------------------
(* useConfigBrowse: the query of the rows.  The device is read as soon as  *)
(* it is asked; "old" is an answer under way that an effect has overtaken. *)

AskRows ==
  /\ fetch' = "out"
  /\ unseen' = IF unseen = "no" THEN "no" ELSE "due"

\* A refetch: the window regains the focus, the refresh button, a mount.
refetch ==
  /\ fetch \in {"idle", "error"}
  /\ AskRows
  /\ UNCHANGED <<listVars, apply, ran, failed>>

FetchLand ==
  /\ fetch \in {"out", "old"}
  /\ unseen' = IF fetch = "old" THEN unseen ELSE "no"
  /\ fetch' = "idle"
  /\ UNCHANGED <<listVars, apply, ran, failed>>

\* The query failed and so did its retry: the old rows stay on the screen.
FetchFail ==
  /\ fetch \in {"out", "old"}
  /\ fetch' = "error"
  /\ UNCHANGED <<listVars, apply, ran, failed, unseen>>

-----------------------------------------------------------------------------
(* useConfigPanel.                                                         *)

\* isApplying, of the mutation of the panel that is mounted.
isApplying == \E a \in Apply : apply[a].st = "run" /\ apply[a].by = visit

\* addChange: the change goes to the end of the list, whatever is running.
addChange ==
  /\ staged < MaxStaged
  /\ staged' = staged + 1
  /\ pending' = pending \cup {staged + 1}
  /\ raced' = IF isApplying THEN raced \cup {staged + 1} ELSE raced
  /\ UNCHANGED <<discards, lost, visit, apply, ran, failed, queryVars>>

\* clearChanges: the discard button, which an apply does not disable.
clearChanges ==
  /\ discards
  /\ pending # {}
  /\ pending' = {}
  /\ UNCHANGED <<discards, staged, raced, lost, visit, apply, ran, failed, queryVars>>

\* Mutant: the confirm button is not disabled while an apply runs.
applyChangesAnyTime(a) ==
  /\ pending # {}
  /\ apply[a] = NotRun /\ \A b \in Apply : b < a => apply[b] # NotRun
  /\ apply' = [apply EXCEPT ![a] = [st |-> "run", todo |-> pending, by |-> visit]]
  /\ UNCHANGED <<listVars, ran, failed, queryVars>>

\* Review and confirm: the list as it is now is handed to the loop.
applyChanges(a) ==
  /\ pending # {}
  /\ ~isApplying
  /\ apply[a] = NotRun /\ \A b \in Apply : b < a => apply[b] # NotRun
  /\ apply' = [apply EXCEPT ![a] = [st |-> "run", todo |-> pending, by |-> visit]]
  /\ UNCHANGED <<listVars, ran, failed, queryVars>>

\* The change whose turn it is: the loop goes through the list in order.
Turn(a, c) ==
  /\ apply[a].st = "run"
  /\ c \in apply[a].todo
  /\ \A d \in apply[a].todo : c <= d

\* The device executes the change.
TakesEffect(c) ==
  /\ ran' = [ran EXCEPT ![c] = @ + 1]
  /\ fetch' = IF fetch = "out" THEN "old" ELSE fetch

\* One turn of the loop that succeeds.
ApplyStep(a, c) ==
  /\ Turn(a, c)
  /\ TakesEffect(c) /\ unseen' = "due"
  /\ apply' = [apply EXCEPT ![a].todo = @ \ {c}]
  /\ UNCHANGED <<listVars, failed>>

\* Mutant: the list is cleared however the apply ended.
onErrorClears(a) ==
  /\ apply' = [apply EXCEPT ![a] = [NotRun EXCEPT !.st = "err"]]
  /\ failed' = IF apply[a].by = visit THEN failed \cup pending ELSE failed
  /\ pending' = {}
  /\ lost' = lost \cup {c \in pending : ran[c] = 0}
  /\ UNCHANGED <<discards, staged, raced, visit>>

\* onError: a toast.  The list keeps every change, the ones already executed
\* included, and the rows are not asked for again.
onError(a) ==
  /\ apply' = [apply EXCEPT ![a] = [NotRun EXCEPT !.st = "err"]]
  /\ failed' = IF apply[a].by = visit THEN failed \cup pending ELSE failed
  /\ UNCHANGED listVars

\* The device refuses the change, or the request does not reach it.
ApplyRefused(a, c) ==
  /\ Turn(a, c)
  /\ onError(a)
  /\ unseen' = IF unseen = "no" \/ fetch = "out" THEN unseen ELSE "unasked"
  /\ UNCHANGED <<ran, fetch>>

\* The device executes the change and the answer is lost.
ApplyUnanswered(a, c) ==
  /\ Turn(a, c)
  /\ TakesEffect(c) /\ unseen' = "unasked"
  /\ onError(a)

\* Mutant: the changes stay on the list.
onSuccessKeepsList(a) ==
  /\ apply[a].st = "run" /\ apply[a].todo = {}
  /\ apply' = [apply EXCEPT ![a] = [NotRun EXCEPT !.st = "ok"]]
  /\ AskRows
  /\ UNCHANGED <<listVars, ran, failed>>

\* Mutant: the rows are not asked for again.
onSuccessNoRefetch(a) ==
  /\ apply[a].st = "run" /\ apply[a].todo = {}
  /\ apply' = [apply EXCEPT ![a] = [NotRun EXCEPT !.st = "ok"]]
  /\ IF apply[a].by = visit
     THEN pending' = {} /\ lost' = lost \cup {c \in pending : ran[c] = 0}
     ELSE UNCHANGED <<pending, lost>>
  /\ UNCHANGED <<discards, staged, raced, visit, ran, failed, queryVars>>

\* onSuccess: the list of the panel, if it is still mounted, is cleared with
\* what was staged since the apply began.  A request of the rows under way
\* is given up for a new one.
onSuccess(a) ==
  /\ apply[a].st = "run"
  /\ apply[a].todo = {}
  /\ apply' = [apply EXCEPT ![a] = [NotRun EXCEPT !.st = "ok"]]
  /\ IF apply[a].by = visit
     THEN /\ pending' = {}
          /\ lost' = lost \cup {c \in pending : ran[c] = 0}
     ELSE UNCHANGED <<pending, lost>>
  /\ AskRows
  /\ UNCHANGED <<discards, staged, raced, visit, ran, failed>>

\* SimpleConfigView shows another tab and comes back: the panel is mounted
\* anew, with an empty list.
Remount ==
  /\ visit < MaxVisits
  /\ visit' = visit + 1
  /\ pending' = {}
  /\ UNCHANGED <<discards, staged, raced, lost, apply, ran, failed, queryVars>>

-----------------------------------------------------------------------------
Loop(a) == onSuccess(a) \/ \E c \in Change : ApplyStep(a, c) \/ ApplyRefused(a, c) \/ ApplyUnanswered(a, c)

PanelNext ==
  \/ addChange \/ clearChanges \/ Remount
  \/ \E a \in Apply : applyChanges(a) \/ Loop(a)
  \/ refetch \/ FetchLand \/ FetchFail

PanelSpec == PanelInit /\ [][PanelNext]_panelVars

-----------------------------------------------------------------------------
\* The toast of onSuccess, "N changes applied successfully", counts the list
\* as it then is.  A change is cleared from the list without having been sent
\* only when it was staged while that apply was running.
LostOnlyInRace == lost \subseteq raced

\* The loop has no rollback and the list keeps every change after an error:
\* what is executed twice was on the list when an apply failed.
RepeatedOnlyAfterFailure == \A c \in Change : ran[c] > 1 => c \in failed

\* The table comes to show every effect of an apply, also one that overtook an
\* answer under way, unless the request of the rows failed.  The effects that
\* an apply leaves when it fails are shown once the rows are asked for again
\* for another reason, a later apply that succeeds among them.
TableCatchesUp == unseen = "due" ~> (unseen # "due" \/ fetch = "error")

-----------------------------------------------------------------------------
(* What the panel promises of a change: ChangeLedger.                      *)

Approved == UNION {apply[a].todo : a \in Apply}

Ledger == INSTANCE ChangeLedger WITH
  Item <- Change,
  made <- 1 .. staged,
  listed <- pending,
  approved <- Approved,
  effects <- ran

\* Nothing is executed that was not on the list when an apply was confirmed,
\* and nothing more than once for each time it was: neither the discard
\* button, nor leaving the tab, nor an answer that is lost changes that.
ImplementsLedger == Ledger!LedgerSpec
=============================================================================
