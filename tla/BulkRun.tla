------------------------------ MODULE BulkRun -------------------------------
(***************************************************************************)
(* One change or command for many devices: operations/BulkCommandWizard    *)
(* ("command") and config/BatchConfigPanel ("batch").  Both are wizards    *)
(* with three steps, select, define and execute, and a loop that sends to  *)
(* one device after the other and marks its row.                           *)
(*                                                                         *)
(* The command wizard keeps the devices as they were when they were        *)
(* picked, and makes its rows when it executes.  The batch panel keeps     *)
(* ids, makes its rows when the last step is entered, and executes on the  *)
(* devices that the list then has.  A loop goes on when its page is left.  *)
(***************************************************************************)
EXTENDS Integers, FiniteSets

CONSTANTS
  Fleet,        \* bound: the devices are 1 .. Fleet, in the order of the list
  MaxRuns,      \* bound: executions; nothing is picked after the last
  MaxMoves,     \* bound: changes of the list of devices
  MaxMounts     \* bound: visits of the page

ASSUME BulkAssumption == {Fleet, MaxRuns, MaxMoves, MaxMounts} \subseteq Nat

Member == 1 .. Fleet
Nobody == 0
Runs == 1 .. MaxRuns

VARIABLES
  kind,      \* "command" or "batch"
  status,    \* what the query says of a device: "online", "offline", "gone"
  moves,
  mount,     \* visits of the page so far
  stage,     \* the step shown
  picked,    \* selectedDevices, selectedDeviceIds: as they were, if picked
  rows,      \* results, execStates: what the page says of a device
  moved,     \* the list changed after the batch panel made its rows and
             \* before handleExecute fixed the devices
  complete,  \* isComplete
  runs       \* the loops: [st, by, todo, cur, sent]

viewVars == <<stage, picked, rows, moved, complete>>
bulkVars == <<kind, status, moves, mount, viewVars, runs>>

NoRun == [st |-> "none", by |-> 0, todo |-> {}, cur |-> Nobody, sent |-> {}]
Fold(st) == [m \in Member |-> st]
Picked == {m \in Member : picked[m] # "no"}
HasRow == {m \in Member : rows[m] # "no"}
Final == {"success", "error", "skipped"}

isRunning == \E n \in Runs : runs[n].st = "run" /\ runs[n].by = mount

\* selectedDevices of the batch panel.
StillListed == {m \in Picked : status[m] # "gone"}

FreshView ==
  /\ stage' = 1 /\ picked' = Fold("no") /\ rows' = Fold("no")
  /\ moved' = FALSE /\ complete' = FALSE

BulkInit ==
  /\ kind \in {"command", "batch"}
  /\ status \in [Member -> {"online", "offline"}]
  /\ moves = 0 /\ mount = 1
  /\ stage = 1 /\ picked = Fold("no") /\ rows = Fold("no") /\ moved = FALSE /\ complete = FALSE
  /\ runs = [n \in Runs |-> NoRun]

\* A refetch brings a device that went up, down, away or came back.
ListMoves(m, st) ==
  /\ moves < MaxMoves /\ st # status[m]
  /\ moves' = moves + 1
  /\ status' = [status EXCEPT ![m] = st]
  /\ moved' = (moved \/ (kind = "batch" /\ stage = 3 /\ ~isRunning /\ ~complete))
  /\ UNCHANGED <<kind, mount, stage, picked, rows, complete, runs>>

-----------------------------------------------------------------------------
Pick(f) ==
  /\ stage = 1 /\ f # picked /\ NoRun \in {runs[n] : n \in Runs}
  /\ picked' = f
  /\ UNCHANGED <<kind, status, moves, mount, stage, rows, moved, complete, runs>>

\* The batch panel's check boxes are disabled for a device that is not online.
toggleDevice(m) ==
  /\ status[m] # "gone" /\ (kind = "batch" => status[m] = "online")
  /\ Pick([picked EXCEPT ![m] = IF @ = "no" THEN status[m] ELSE "no"])

\* selectAllOnline, selectByGroup and deselectAll set the selection anew.
selectAll(S) ==
  /\ S \subseteq {m \in Member : status[m] # "gone"}
  /\ kind = "batch" => S \in {{m \in Member : status[m] = "online"}, {}}
  /\ Pick([m \in Member |-> IF m \in S THEN status[m] ELSE "no"])

\* The batch panel makes its rows on the way to the last step.
handleNext ==
  /\ stage < 3
  /\ stage = 1 => Picked # {}
  /\ stage' = stage + 1
  /\ IF kind = "batch" /\ stage = 2
     THEN rows' = [m \in Member |-> IF m \in StillListed THEN "pending" ELSE "no"] /\ moved' = FALSE
     ELSE UNCHANGED <<rows, moved>>
  /\ UNCHANGED <<kind, status, moves, mount, picked, complete, runs>>

\* Back: not while the loop runs; the command wizard has no way back from its
\* results, the batch panel forgets them.
handleBack ==
  /\ stage > 1 /\ ~isRunning
  /\ kind = "command" => HasRow = {}
  /\ stage' = stage - 1
  /\ IF stage = 3 THEN rows' = Fold("no") /\ moved' = FALSE /\ complete' = FALSE
     ELSE UNCHANGED <<rows, moved, complete>>
  /\ UNCHANGED <<kind, status, moves, mount, picked, runs>>

-----------------------------------------------------------------------------
(* executeAll and handleExecute.                                           *)

Begin(n, S) ==
  /\ runs[n] = NoRun /\ \A k \in Runs : k < n => runs[k] # NoRun
  /\ runs' = [runs EXCEPT ![n] = [NoRun EXCEPT !.st = "run", !.by = mount, !.todo = S]]

\* A device that was not online when it was picked is skipped.
executeAll(n) ==
  /\ kind = "command" /\ stage = 3 /\ ~isRunning /\ HasRow = {}
  /\ rows' = [m \in Member |-> CASE picked[m] = "no" -> "no" [] picked[m] = "online" -> "pending" [] OTHER -> "skipped"]
  /\ Begin(n, {m \in Member : picked[m] = "online"})
  /\ UNCHANGED <<kind, status, moves, mount, stage, picked, moved, complete>>

handleExecute(n) ==
  /\ kind = "batch" /\ stage = 3 /\ ~isRunning /\ ~complete
  /\ Begin(n, StillListed)
  /\ UNCHANGED <<kind, status, moves, mount, viewVars>>

\* The rows of the page, if it is the loop's: a device without a row has none
\* after either.
Mark(n, m, st) ==
  rows' = IF runs[n].by = mount /\ rows[m] # "no" THEN [rows EXCEPT ![m] = st] ELSE rows

Sends(n, m) ==
  /\ runs[n].st = "run" /\ runs[n].cur = Nobody
  /\ m \in runs[n].todo /\ \A k \in runs[n].todo : m <= k
  /\ runs' = [runs EXCEPT ![n].cur = m, ![n].todo = @ \ {m}, ![n].sent = @ \cup {m}]
  /\ Mark(n, m, "running")
  /\ UNCHANGED <<kind, status, moves, mount, stage, picked, moved, complete>>

\* Mutant: an exception leaves the row as it is.
AnsweredOnlyIfOk(n, st) ==
  /\ runs[n].cur # Nobody
  /\ runs' = [runs EXCEPT ![n].cur = Nobody]
  /\ IF st = "success" THEN Mark(n, runs[n].cur, st) ELSE UNCHANGED rows
  /\ UNCHANGED <<kind, status, moves, mount, stage, picked, moved, complete>>

\* Success; or an error, of the device or of the request: the loop goes on.
Answered(n, st) ==
  /\ runs[n].cur # Nobody
  /\ runs' = [runs EXCEPT ![n].cur = Nobody]
  /\ Mark(n, runs[n].cur, st)
  /\ UNCHANGED <<kind, status, moves, mount, stage, picked, moved, complete>>

Ends(n) ==
  /\ runs[n].st = "run" /\ runs[n].cur = Nobody /\ runs[n].todo = {}
  /\ runs' = [runs EXCEPT ![n].st = "done"]
  /\ complete' = IF runs[n].by = mount THEN TRUE ELSE complete
  /\ UNCHANGED <<kind, status, moves, mount, stage, picked, rows, moved>>

\* New Command, Start New Batch.
resetWizard ==
  /\ complete /\ ~isRunning
  /\ FreshView
  /\ UNCHANGED <<kind, status, moves, mount, runs>>

\* The page is left, and visited again.
Revisit ==
  /\ mount < MaxMounts
  /\ mount' = mount + 1
  /\ FreshView
  /\ UNCHANGED <<kind, status, moves, runs>>

RunSteps(n) ==
  \/ Ends(n)
  \/ \E m \in Member : Sends(n, m)
  \/ \E st \in {"success", "error"} : Answered(n, st)

BulkNext ==
  \/ \E m \in Member : toggleDevice(m) \/ \E st \in {"online", "offline", "gone"} : ListMoves(m, st)
  \/ \E S \in SUBSET Member : selectAll(S)
  \/ handleNext \/ handleBack \/ resetWizard \/ Revisit
  \/ \E n \in Runs : executeAll(n) \/ handleExecute(n) \/ RunSteps(n)

BulkSpec == BulkInit /\ [][BulkNext]_bulkVars

-----------------------------------------------------------------------------
\* When the page says that the run is complete, every row says how it went for
\* its device, and every device the run wrote to has a row.  The batch panel
\* makes the rows before it decides on the devices: there, only if the list did
\* not change in between.  A change while the loop runs makes no difference.
RunReported ==
  complete /\ ~moved =>
    /\ \A m \in HasRow : rows[m] \in Final
    /\ ~isRunning
    /\ \E n \in Runs : runs[n].by = mount /\ runs[n].sent = {m \in HasRow : rows[m] # "skipped"}
=============================================================================
