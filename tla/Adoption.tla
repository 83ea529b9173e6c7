------------------------------ MODULE Adoption ------------------------------
(***************************************************************************)
(* The adoption wizard: fleet/AdoptionWizard.tsx and adoptionVerify.ts.    *)
(* Devices that a scan found are chosen, imported and given their groups,  *)
(* then verified: each is probed in turn, and what the probes leave open   *)
(* is watched until the poller has reported or the time is up.  A probe    *)
(* may suggest another TLS mode; the operator may switch to it and have    *)
(* the device tested again, while the verification goes on.                *)
(*                                                                         *)
(* The screen shows verifyStatuses.  Probe loop and poll keep their own    *)
(* results, verifyResults.current keeps everybody's.  A result is a status *)
(* and whether a mode is suggested; NoResult is no entry.                  *)
(***************************************************************************)
EXTENDS Integers, FiniteSets

CONSTANTS
  MaxFound,      \* bound: devices a scan finds
  MaxAttempts,   \* rounds of the poll until it gives up
  MaxImports     \* bound: imports

ASSUME AdoptionAssumption == {MaxFound, MaxAttempts, MaxImports} \subseteq Nat /\ MaxAttempts > 0

Host == 1 .. MaxFound    \* in the order of the scan

VARIABLES
  step,      \* the step shown, 1 to 5, or 0: the wizard was left
  found,     \* scanResults
  selected,  \* selectedIps
  existing,  \* existingIps, of the query
  phase,     \* importPhase, and how far the verification is
  imports,   \* imports begun
  added,     \* importedDevices
  toAssign,  \* group assignments still to do
  toProbe,   \* devices the probe loop has not come to
  results,   \* the results of the probe loop, or of the poll
  current,   \* verifyResults.current
  shown,     \* verifyStatuses
  attempt,   \* rounds of the poll
  retrying,  \* devices being switched and tested again
  switched,  \* devices that were, once or more
  overlapped \* those whose second test ended while the probe loop ran

wizardVars == <<step, found, selected, existing>>
importVars == <<imports, added, toAssign>>
verifyVars == <<toProbe, results, current, shown, attempt>>
retryVars == <<retrying, switched, overlapped>>
adoptionVars == <<wizardVars, phase, importVars, verifyVars, retryVars>>

NoResult == [st |-> "none", suggests |-> FALSE]
Is(st) == [st |-> st, suggests |-> FALSE]
NoResults == [h \in Host |-> NoResult]
IsSettled(r) == r.st \in {"online", "unreachable"}
Merge(a, b) == [h \in Host |-> IF b[h] = NoResult THEN a[h] ELSE b[h]]    \* {...a, ...b}
Over(r, S, st) == [h \in Host |-> IF h \in S THEN Is(st) ELSE r[h]]

\* resultFromProbe.
ProbeResult == {Is("online"), Is("unreachable"), Is("uncheckable"), [st |-> "unreachable", suggests |-> TRUE]}

AdoptionInit ==
  /\ step = 1 /\ found = {} /\ selected = {} /\ existing \in SUBSET Host
  /\ phase = "idle" /\ imports = 0 /\ added = {} /\ toAssign = 0
  /\ toProbe = {} /\ results = NoResults /\ current = NoResults /\ shown = NoResults /\ attempt = 0
  /\ retrying = {} /\ switched = {} /\ overlapped = {}

-----------------------------------------------------------------------------
(* Steps 1 to 4.                                                           *)

\* SubnetStep: a scan that fails says so and leaves the step.
scan(S) ==
  /\ step = 1
  /\ found' = S /\ step' = 2
  /\ UNCHANGED <<selected, existing, phase, importVars, verifyVars, retryVars>>

\* ScanResultsStep: toggleIp, selectAll and deselectAll.
Choose(S) ==
  /\ step = 2 /\ S # selected
  /\ \/ \E h \in found \ existing : S \in {selected \cup {h}, selected \ {h}}
     \/ S \in {found \ existing, {}}
  /\ selected' = S
  /\ UNCHANGED <<step, found, existing, phase, importVars, verifyVars, retryVars>>

\* Next and Back; Back is disabled during the import and gone after it.
Walk(n) ==
  /\ n \in {step - 1, step + 1} \cap 1 .. 5
  /\ step \in 2 .. 5 /\ phase = "idle"
  /\ step = 2 /\ n = 3 => selected # {}
  /\ step' = n
  /\ UNCHANGED <<found, selected, existing, phase, importVars, verifyVars, retryVars>>

-----------------------------------------------------------------------------
(* runImport.                                                              *)

runImport ==
  /\ step = 5 /\ phase = "idle" /\ imports < MaxImports
  /\ imports' = imports + 1
  /\ phase' = "importing"
  /\ UNCHANGED <<wizardVars, added, toAssign, verifyVars, retryVars>>

\* The import fails, or its answer is lost: the devices may exist by now.
ImportFails(S) ==
  /\ phase = "importing"
  /\ S \subseteq selected \cap found
  /\ phase' = "idle"
  /\ existing' = existing \cup S
  /\ UNCHANGED <<step, found, selected, importVars, verifyVars, retryVars>>

\* bulkAdd: some are added, the others fail; n groups are assigned to each.
ImportAnswers(S, n) ==
  /\ phase = "importing"
  /\ S \subseteq (selected \cap found) \ existing
  /\ added' = S
  /\ toAssign' = n * Cardinality(S)
  /\ phase' = "assigning"
  /\ UNCHANGED <<wizardVars, imports, verifyVars, retryVars>>

\* One assignment; one that fails is counted and not repeated.
Assign ==
  /\ phase = "assigning" /\ toAssign > 0
  /\ toAssign' = toAssign - 1
  /\ UNCHANGED <<wizardVars, phase, imports, added, verifyVars, retryVars>>

\* runVerification begins: probeVerifyStatuses says "waiting" of all.  The
\* list of devices is invalidated, and the new ones are among the existing.
StartVerification ==
  /\ phase = "assigning" /\ toAssign = 0
  /\ phase' = IF added = {} THEN "verified" ELSE "probing"
  /\ toProbe' = added
  /\ results' = Over(NoResults, added, "waiting")
  /\ shown' = Merge(current, results')
  /\ existing' = existing \cup added
  /\ UNCHANGED <<step, found, selected, importVars, current, attempt, retryVars>>

-----------------------------------------------------------------------------
(* probeVerifyStatuses.                                                    *)

IsNext(h) == h \in toProbe /\ \A k \in toProbe : h <= k

\* The loop is over, with results r: what it left open goes to the poll,
\* which says "waiting" of it.
EndProbes(r, open) ==
  /\ phase' = IF open = {} THEN "verified" ELSE "polling"
  /\ results' = IF open = {} THEN NoResults ELSE Over(NoResults, open, "waiting")
  /\ current' = Merge(Merge(current, r), results')
  /\ shown' = IF open = {} THEN Merge(current, r) ELSE current'
  /\ toProbe' = {}

\* A probe is answered, or fails: the device cannot be checked.
Probe(h, r) ==
  /\ phase = "probing" /\ IsNext(h)
  /\ LET now == [results EXCEPT ![h] = r]
     IN  IF toProbe = {h} THEN EndProbes(now, {})
         ELSE /\ results' = now
              /\ shown' = Merge(current, now)
              /\ toProbe' = toProbe \ {h}
              /\ UNCHANGED <<phase, current>>
  /\ UNCHANGED <<wizardVars, importVars, attempt, retryVars>>

\* 404, there is no such endpoint, or 429, the limit is reached.
ProbeStops(h) ==
  /\ phase = "probing" /\ IsNext(h)
  /\ EndProbes(results, toProbe)
  /\ UNCHANGED <<wizardVars, importVars, attempt, retryVars>>

-----------------------------------------------------------------------------
(* pollVerifyStatuses: results is its statuses.                            *)

Watched == {h \in Host : results[h] # NoResult}
Unsettled == {h \in Watched : ~IsSettled(results[h])}

onUpdate(r) ==
  /\ current' = Merge(current, r)
  /\ shown' = current'

\* Mutant: the last round leaves what is waiting as it is.
PollRoundNoTimeout(f) ==
  /\ phase = "polling"
  /\ f \in [Unsettled -> {"waiting", "online", "unreachable"}]
  /\ LET read == [h \in Host |-> IF h \in Unsettled THEN Is(f[h]) ELSE results[h]]
         over == attempt + 1 = MaxAttempts \/ \A h \in Watched : IsSettled(read[h])
     IN  /\ results' = IF over THEN NoResults ELSE read
         /\ onUpdate(read)
         /\ phase' = IF over THEN "verified" ELSE "polling"
         /\ attempt' = IF over THEN 0 ELSE attempt + 1
  /\ UNCHANGED <<wizardVars, importVars, toProbe, retryVars>>

\* A round: f is what the list of devices says of those without an answer; the
\* last round calls what is left a timeout.
PollRound(f) ==
  /\ phase = "polling"
  /\ f \in [Unsettled -> {"waiting", "online", "unreachable"}]
  /\ LET last == attempt + 1 = MaxAttempts
         read == [h \in Host |-> IF h \in Unsettled THEN Is(f[h]) ELSE results[h]]
         end == [h \in Host |-> IF read[h].st = "waiting" THEN Is("timeout") ELSE read[h]]
         over == last \/ \A h \in Watched : IsSettled(read[h])
     IN  /\ results' = IF over THEN NoResults ELSE read
         /\ onUpdate(IF over THEN end ELSE read)
         /\ phase' = IF over THEN "verified" ELSE "polling"
         /\ attempt' = IF over THEN 0 ELSE attempt + 1
  /\ UNCHANGED <<wizardVars, importVars, toProbe, retryVars>>

\* A list that fails is no evidence; it counts as a round.
PollFails ==
  /\ phase = "polling"
  /\ IF attempt + 1 < MaxAttempts
     THEN attempt' = attempt + 1 /\ UNCHANGED <<phase, results, current, shown>>
     ELSE /\ attempt' = 0
          /\ phase' = "verified"
          /\ results' = NoResults
          /\ onUpdate([h \in Host |-> IF results[h].st = "waiting" THEN Is("timeout") ELSE results[h]])
  /\ UNCHANGED <<wizardVars, importVars, toProbe, retryVars>>

-----------------------------------------------------------------------------
(* retryWithSuggestedMode.                                                 *)

Retry(h) ==
  /\ step = 5 /\ shown[h].suggests /\ h \notin retrying
  /\ retrying' = retrying \cup {h}
  /\ UNCHANGED <<wizardVars, phase, importVars, verifyVars, switched, overlapped>>

Retried(h, r) ==
  /\ h \in retrying
  /\ retrying' = retrying \ {h}
  /\ switched' = switched \cup {h}
  /\ overlapped' = IF phase = "probing" THEN overlapped \cup {h} ELSE overlapped
  /\ current' = [current EXCEPT ![h] = r]
  /\ shown' = current'
  /\ UNCHANGED <<wizardVars, phase, importVars, toProbe, results, attempt>>

\* Mutant: the result of the second test is shown, and not kept.
RetryAnswersShows(h, r) ==
  /\ h \in retrying
  /\ retrying' = retrying \ {h}
  /\ switched' = switched \cup {h}
  /\ overlapped' = IF phase = "probing" THEN overlapped \cup {h} ELSE overlapped
  /\ shown' = [current EXCEPT ![h] = Is(r.st)]
  /\ UNCHANGED <<wizardVars, phase, importVars, toProbe, results, attempt, current>>

\* "Drop the suggestion either way."
RetryAnswers(h, r) == Retried(h, Is(r.st))

\* The update or the test fails: the status is as it was.
RetryFails(h) == Retried(h, IF current[h] = NoResult THEN Is("uncheckable") ELSE Is(current[h].st))

-----------------------------------------------------------------------------
\* Done, or another page: the loops stop at their next look at the signal,
\* and nothing is shown any more.
Leave ==
  /\ step # 0
  /\ step' = 0 /\ phase' = "left"
  /\ found' = {} /\ selected' = {} /\ existing' = {} /\ added' = {}
  /\ imports' = 0 /\ toAssign' = 0
  /\ toProbe' = {} /\ results' = NoResults /\ current' = NoResults /\ shown' = NoResults /\ attempt' = 0
  /\ retrying' = {} /\ switched' = {} /\ overlapped' = {}

Verification ==
  \/ Assign \/ StartVerification \/ PollFails
  \/ \E h \in Host : ProbeStops(h) \/ \E r \in ProbeResult : Probe(h, r)
  \/ \E f \in [Unsettled -> {"waiting", "online", "unreachable"}] : PollRound(f)

RetryEnds(h) == RetryFails(h) \/ \E r \in ProbeResult : RetryAnswers(h, r)

AdoptionNext ==
  \/ \E S \in SUBSET Host : scan(S) \/ Choose(S) \/ ImportFails(S) \/ \E n \in 0 .. 1 : ImportAnswers(S, n)
  \/ \E n \in 1 .. 5 : Walk(n)
  \/ runImport \/ Verification \/ Leave
  \/ \E h \in Host : Retry(h) \/ RetryEnds(h)

AdoptionSpec == AdoptionInit /\ [][AdoptionNext]_adoptionVars

-----------------------------------------------------------------------------
\* "Drop the suggestion either way so the action cannot repeat": a device that
\* was switched and tested again is not offered the switch a second time, by
\* no later round of the poll either.  A test that ends while the probe loop
\* is running is excepted: the loop's next update brings the result of the
\* first probe back, since it does not know of the second.
SwitchedOnce == \A h \in switched \ overlapped : ~shown[h].suggests

\* Every device that was imported gets a verdict: online, unreachable, not
\* checkable, or that the time was up; neither a probe endpoint that is
\* missing or limited, nor a list that fails, nor a second test prevents it.
VerdictReached ==
  phase \in {"probing", "polling"} ~>
    (\/ step = 0
     \/ /\ phase = "verified"
        /\ \A h \in added : shown[h].st \in {"online", "unreachable", "uncheckable", "timeout"})
=============================================================================
