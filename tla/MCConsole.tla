----------------------------- MODULE MCConsole ------------------------------
(* The parts of the console, one in each behaviour: they share the browser    *)
(* and no state.  The variables of the others keep one value.                 *)
EXTENDS ConfigPanel, PanelForm, SimpleCatalogue, EventStream, ApiClient, BulkRun, Adoption,
        RecordPage, PageCatalogue

VARIABLE part

On(p) == part = p

consoleVars == <<part, panelVars, pageVars, streamVars, clientVars, bulkVars, adoptionVars, recordVars>>

IdleForm ==
  /\ field = 0 /\ device = 0 /\ table = 0 /\ dialog = 0 /\ form = 0 /\ base = 0
  /\ typed = FALSE /\ change = None /\ outside = 0 /\ saves = 0

ConsoleInit ==
  /\ part \in {"panel", "form", "stream", "client", "bulk", "adoption", "record"}
  /\ PanelInit /\ (On("panel") \/ ~discards)
  /\ IF On("form") THEN FormInit ELSE IdleForm
  /\ StreamInit /\ ClientInit
  /\ BulkInit /\ (On("bulk") \/ (kind = "batch" /\ status = Fold("online")))
  /\ AdoptionInit /\ (On("adoption") \/ existing = {})
  /\ RecordInit /\ (On("record") \/ screen = CHOOSE s \in Screen : TRUE)

\* The rest of the console while one part takes a step.
Rest(p) ==
  /\ On(p) /\ UNCHANGED part
  /\ p = "panel" \/ UNCHANGED panelVars
  /\ p = "form" \/ UNCHANGED pageVars
  /\ p = "stream" \/ UNCHANGED streamVars
  /\ p = "client" \/ UNCHANGED clientVars
  /\ p = "bulk" \/ UNCHANGED bulkVars
  /\ p = "adoption" \/ UNCHANGED adoptionVars
  /\ p = "record" \/ UNCHANGED recordVars

ConsoleNext ==
  \/ On("panel") /\ PanelNext /\ Rest("panel")
  \/ On("form") /\ FormNext /\ Rest("form")
  \/ On("stream") /\ StreamNext /\ Rest("stream")
  \/ On("client") /\ ClientNext /\ Rest("client")
  \/ On("bulk") /\ BulkNext /\ Rest("bulk")
  \/ On("adoption") /\ AdoptionNext /\ Rest("adoption")
  \/ On("record") /\ RecordNext /\ Rest("record")

\* Requests are answered or fail, timers fire, loops go on; nobody has to
\* press a button.
ConsoleFairness ==
  /\ \A a \in Apply : WF_panelVars(On("panel") /\ Loop(a))
  /\ WF_panelVars(On("panel") /\ (FetchLand \/ FetchFail))
  /\ \A i \in Link : WF_streamVars(On("stream") /\ LinkSteps(i))
  /\ \A r \in Request : WF_clientVars(On("client") /\ Network(r))
  /\ WF_adoptionVars(On("adoption") /\ Verification)
  /\ \A n \in Submits : WF_recordVars(On("record") /\ Answers(n))
  /\ WF_recordVars(On("record") /\ ListAnswers)

ConsoleSpec == ConsoleInit /\ [][ConsoleNext]_consoleVars /\ ConsoleFairness
=============================================================================
