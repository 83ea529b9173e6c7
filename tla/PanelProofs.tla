---------------------------- MODULE PanelProofs -----------------------------
(***************************************************************************)
(* Proofs about what the operator edits: ConfigPanel, the list of staged   *)
(* changes, PanelForm, the forms of the panels, and RecordPage, the forms  *)
(* of the record pages; for any number of changes, rows and requests.      *)
(***************************************************************************)
EXTENDS ConfigPanel, PanelForm, RecordPage, TLAPS

(***************************************************************************)
(* What ConfigPanel promises, for any number of changes, applies and       *)
(* visits.  An apply and the list share changes: the inductive invariant   *)
(* says which.  A change waits in one apply at a time; one that is on the  *)
(* list and in an apply is in an apply of this visit; while such an apply  *)
(* runs, what is on the list was handed to it, was staged since, or has    *)
(* been executed; and what has been executed and is still listed is either *)
(* being applied or was there when an apply failed.                        *)
(***************************************************************************)
InApply == \A a \in Apply : apply[a].todo # {} => apply[a].st = "run"

OneApply == \A a, b \in Apply : a # b => apply[a].todo \cap apply[b].todo = {}

ListedHere == \A a \in Apply : apply[a].todo \cap pending # {} => apply[a].by = visit

HandedOver ==
  \A a \in Apply : apply[a].st = "run" /\ apply[a].by = visit =>
    \A c \in pending : c \in raced \/ c \in apply[a].todo \/ ran[c] > 0

NotYetMade == \A c \in Change : c > staged => ran[c] = 0

RanAndListed == \A c \in pending : ran[c] > 0 => c \in failed \/ isApplying

RanAndWaiting == \A a \in Apply : \A c \in apply[a].todo : ran[c] > 0 => c \in failed

PanelInv ==
  /\ PanelTypeOK /\ InApply /\ OneApply /\ ListedHere /\ HandedOver
  /\ NotYetMade /\ RanAndListed /\ RanAndWaiting
  /\ LostOnlyInRace /\ RepeatedOnlyAfterFailure

\* What an apply may still send are changes that were staged.
LEMMA TodoStaged ==
  ASSUME PanelTypeOK, NEW a \in Apply
  PROVE  /\ apply[a].todo \subseteq 1 .. staged /\ apply[a].todo \subseteq Change
         /\ apply[a].by \in Nat /\ apply[a].by <= visit
BY PanelAssumption DEF PanelTypeOK, Change, Apply

\* The rows are loaded and nothing is staged.
LEMMA PanelInitInv == PanelInit => PanelInv
<1> SUFFICES ASSUME PanelInit PROVE PanelInv
  OBVIOUS
<1> USE PanelAssumption DEF PanelInit, NotRun
<1>1. PanelTypeOK
  <2>1. apply \in [Apply -> [st : {"none", "run", "ok", "err"}, todo : SUBSET (1 .. staged), by : 0 .. visit]]
    BY DEF Apply
  <2>2. discards \in BOOLEAN /\ unseen = "no"
    OBVIOUS
  <2>3. staged \in 0 .. MaxStaged /\ visit \in Nat
    OBVIOUS
  <2>4. ran \in [Change -> Nat]
    OBVIOUS
  <2> QED BY <2>1, <2>2, <2>3, <2>4 DEF PanelTypeOK
<1>2. InApply /\ OneApply /\ ListedHere /\ HandedOver
  BY DEF InApply, OneApply, ListedHere, HandedOver
<1>3. NotYetMade /\ RanAndListed /\ RanAndWaiting
  BY DEF NotYetMade, RanAndListed, RanAndWaiting
<1>4. LostOnlyInRace /\ RepeatedOnlyAfterFailure
  BY DEF LostOnlyInRace, RepeatedOnlyAfterFailure
<1> QED BY <1>1, <1>2, <1>3, <1>4 DEF PanelInv

-----------------------------------------------------------------------------
\* Staging, discarding, leaving the tab: no apply changes.
LEMMA ListStep ==
  ASSUME PanelInv, addChange \/ clearChanges \/ Remount
  PROVE  PanelInv'
<1> USE PanelAssumption DEF PanelInv
<1>t. ASSUME NEW a \in Apply PROVE apply[a].todo \subseteq 1 .. staged /\ apply[a].by \in Nat /\ apply[a].by <= visit
  BY <1>t, TodoStaged
<1>1. CASE addChange
  <2> USE <1>1 DEF addChange
  <2>1. PanelTypeOK'
    <3>1. staged \in Nat /\ staged' = staged + 1 /\ 1 .. staged \subseteq 1 .. staged'
      BY DEF PanelTypeOK
    <3> QED BY <3>1 DEF PanelTypeOK, queryVars
  <2>2. (InApply /\ OneApply)'
    BY DEF InApply, OneApply
  <2>3. ListedHere'
    BY <1>t DEF ListedHere, PanelTypeOK
  <2>4. HandedOver'
    BY DEF HandedOver, isApplying
  <2>5. (NotYetMade /\ RanAndListed /\ RanAndWaiting)'
    BY DEF NotYetMade, RanAndListed, RanAndWaiting, PanelTypeOK, isApplying, Change
  <2>6. (LostOnlyInRace /\ RepeatedOnlyAfterFailure)'
    BY DEF LostOnlyInRace, RepeatedOnlyAfterFailure
  <2> QED BY <2>1, <2>2, <2>3, <2>4, <2>5, <2>6
<1>2. CASE clearChanges
  <2> USE <1>2 DEF clearChanges
  <2>1. PanelTypeOK'
    BY DEF PanelTypeOK, queryVars
  <2>2. (InApply /\ OneApply /\ ListedHere /\ HandedOver)'
    BY DEF InApply, OneApply, ListedHere, HandedOver
  <2>3. (NotYetMade /\ RanAndListed /\ RanAndWaiting)'
    BY DEF NotYetMade, RanAndListed, RanAndWaiting
  <2>4. (LostOnlyInRace /\ RepeatedOnlyAfterFailure)'
    BY DEF LostOnlyInRace, RepeatedOnlyAfterFailure
  <2> QED BY <2>1, <2>2, <2>3, <2>4
<1>3. CASE Remount
  <2> USE <1>3 DEF Remount
  <2>1. PanelTypeOK'
    <3>1. visit' \in Nat /\ 0 .. visit \subseteq 0 .. visit'
      BY DEF PanelTypeOK
    <3> QED BY <3>1 DEF PanelTypeOK, queryVars
  <2>2. (InApply /\ OneApply /\ ListedHere /\ HandedOver)'
    BY DEF InApply, OneApply, ListedHere, HandedOver
  <2>3. (NotYetMade /\ RanAndListed /\ RanAndWaiting)'
    BY DEF NotYetMade, RanAndListed, RanAndWaiting
  <2>4. (LostOnlyInRace /\ RepeatedOnlyAfterFailure)'
    BY DEF LostOnlyInRace, RepeatedOnlyAfterFailure
  <2> QED BY <2>1, <2>2, <2>3, <2>4
<1> QED BY <1>1, <1>2, <1>3

\* The list is handed over: nothing of it waits in an earlier apply, for that
\* one would be running on this visit.
LEMMA ApplyBegins ==
  ASSUME PanelInv, NEW a \in Apply, applyChanges(a)
  PROVE  PanelInv'
<1> USE PanelAssumption DEF PanelInv
<1>1. /\ apply' = [apply EXCEPT ![a] = [st |-> "run", todo |-> pending, by |-> visit]]
      /\ ~isApplying
      /\ UNCHANGED <<discards, staged, pending, raced, lost, visit, ran, failed, fetch, unseen>>
  BY DEF applyChanges, listVars, queryVars
<1>2. /\ apply'[a].st = "run" /\ apply'[a].todo = pending /\ apply'[a].by = visit
      /\ \A b \in Apply : b # a => apply'[b] = apply[b]
  BY <1>1 DEF PanelTypeOK
<1>3. \A b \in Apply : apply[b].todo \cap pending = {}
  BY <1>1 DEF isApplying, InApply, ListedHere
<1>4. PanelTypeOK'
  <2>1. apply' \in [Apply -> [st : {"none", "run", "ok", "err"}, todo : SUBSET (1 .. staged), by : 0 .. visit]]
    BY <1>1 DEF PanelTypeOK
  <2> QED BY <1>1, <2>1 DEF PanelTypeOK
<1>5. InApply'
  BY <1>2 DEF InApply
<1>6. OneApply'
  BY <1>2, <1>3 DEF OneApply
<1>7. ListedHere'
  BY <1>1, <1>2, <1>3 DEF ListedHere
<1>8. HandedOver'
  BY <1>1, <1>2 DEF HandedOver, isApplying
<1>9. (NotYetMade /\ LostOnlyInRace /\ RepeatedOnlyAfterFailure)'
  BY <1>1 DEF NotYetMade, LostOnlyInRace, RepeatedOnlyAfterFailure
<1>10. RanAndListed'
  BY <1>1, <1>2 DEF RanAndListed
<1>11. RanAndWaiting'
  BY <1>1, <1>2 DEF RanAndWaiting, RanAndListed
<1> QED BY <1>4, <1>5, <1>6, <1>7, <1>8, <1>9, <1>10, <1>11

\* A change is executed: it waits nowhere else, and if it is still listed the
\* apply that sent it is of this visit.
LEMMA ChangeExecuted ==
  ASSUME PanelInv, NEW a \in Apply, NEW c \in Change, ApplyStep(a, c)
  PROVE  PanelInv'
<1> USE PanelAssumption DEF PanelInv
<1>1. /\ apply[a].st = "run" /\ c \in apply[a].todo
      /\ ran' = [ran EXCEPT ![c] = @ + 1]
      /\ apply' = [apply EXCEPT ![a].todo = @ \ {c}]
      /\ UNCHANGED <<discards, staged, pending, raced, lost, visit, failed>>
  BY DEF ApplyStep, Turn, TakesEffect, listVars
<1>2. /\ apply'[a].st = "run" /\ apply'[a].todo = apply[a].todo \ {c} /\ apply'[a].by = apply[a].by
      /\ \A b \in Apply : b # a => apply'[b] = apply[b]
  BY <1>1 DEF PanelTypeOK
<1>3. /\ ran[c] \in Nat /\ ran'[c] = ran[c] + 1
      /\ \A d \in Change : d # c => ran'[d] = ran[d]
  BY <1>1 DEF PanelTypeOK
<1>4. PanelTypeOK'
  <2>1. apply' \in [Apply -> [st : {"none", "run", "ok", "err"}, todo : SUBSET (1 .. staged), by : 0 .. visit]]
    BY <1>1 DEF PanelTypeOK
  <2>2. ran' \in [Change -> Nat]
    BY <1>1 DEF PanelTypeOK
  <2>3. fetch' \in {"idle", "out", "old", "error"}
    BY DEF ApplyStep, TakesEffect, PanelTypeOK
  <2>4. unseen' = "due"
    BY DEF ApplyStep
  <2> QED BY <1>1, <2>1, <2>2, <2>3, <2>4 DEF PanelTypeOK
<1>t. pending \subseteq Change /\ \A b \in Apply : apply[b].todo \subseteq Change
  BY TodoStaged DEF PanelTypeOK, Change
<1>5. InApply' /\ OneApply' /\ ListedHere'
  BY <1>1, <1>2 DEF InApply, OneApply, ListedHere
<1>6. HandedOver'
  BY <1>1, <1>2, <1>3, <1>t DEF HandedOver
<1>7. NotYetMade'
  <2>1. c <= staged /\ staged \in Nat /\ c \in Nat
    BY <1>1, TodoStaged DEF PanelTypeOK
  <2> QED BY <1>1, <1>3, <2>1 DEF NotYetMade
<1>8. RanAndListed'
  <2>1. isApplying => isApplying'
    BY <1>1, <1>2 DEF isApplying
  <2>2. c \in pending => isApplying'
    BY <1>1, <1>2 DEF isApplying, ListedHere
  <2> QED BY <1>1, <1>3, <1>t, <2>1, <2>2 DEF RanAndListed
<1>9. RanAndWaiting'
  <2>1. ASSUME NEW b \in Apply, NEW d \in apply'[b].todo PROVE d # c /\ d \in apply[b].todo
    BY <1>1, <1>2, <2>1 DEF OneApply
  <2> QED BY <1>1, <1>3, <1>t, <2>1 DEF RanAndWaiting
<1>10. (LostOnlyInRace /\ RepeatedOnlyAfterFailure)'
  BY <1>1, <1>3 DEF LostOnlyInRace, RepeatedOnlyAfterFailure, RanAndWaiting
<1> QED BY <1>4, <1>5, <1>6, <1>7, <1>8, <1>9, <1>10

\* An apply fails, its last change executed or not: what is listed on this
\* visit is marked as having met a failure.
LEMMA ApplyFails ==
  ASSUME PanelInv, NEW a \in Apply, NEW c \in Change,
         ApplyRefused(a, c) \/ ApplyUnanswered(a, c)
  PROVE  PanelInv'
<1> USE PanelAssumption DEF PanelInv
<1>1. /\ apply[a].st = "run" /\ c \in apply[a].todo
      /\ apply' = [apply EXCEPT ![a] = [NotRun EXCEPT !.st = "err"]]
      /\ failed' = IF apply[a].by = visit THEN failed \cup pending ELSE failed
      /\ UNCHANGED <<discards, staged, pending, raced, lost, visit>>
  BY DEF ApplyRefused, ApplyUnanswered, onError, Turn, listVars
<1>2. /\ apply'[a].st = "err" /\ apply'[a].todo = {} /\ apply'[a].by = 0
      /\ \A b \in Apply : b # a => apply'[b] = apply[b]
  BY <1>1 DEF PanelTypeOK, NotRun
<1>3. /\ ran[c] \in Nat /\ ran' \in [Change -> Nat]
      /\ ran'[c] = ran[c] \/ ran'[c] = ran[c] + 1
      /\ \A d \in Change : d # c => ran'[d] = ran[d]
  BY DEF PanelTypeOK, ApplyRefused, ApplyUnanswered, TakesEffect
<1>t. pending \subseteq Change /\ \A b \in Apply : apply[b].todo \subseteq Change
  BY TodoStaged DEF PanelTypeOK, Change
<1>4. PanelTypeOK'
  <2>1. apply' \in [Apply -> [st : {"none", "run", "ok", "err"}, todo : SUBSET (1 .. staged), by : 0 .. visit]]
    BY <1>1 DEF PanelTypeOK, NotRun
  <2>2. fetch' \in {"idle", "out", "old", "error"}
    BY DEF ApplyRefused, ApplyUnanswered, TakesEffect, queryVars, PanelTypeOK
  <2>3. unseen' \in {unseen, "unasked"}
    BY DEF ApplyRefused, ApplyUnanswered
  <2> QED BY <1>1, <1>3, <2>1, <2>2, <2>3 DEF PanelTypeOK
<1>5. InApply' /\ OneApply' /\ ListedHere'
  BY <1>1, <1>2 DEF InApply, OneApply, ListedHere
<1>6. HandedOver'
  <2>1. ASSUME NEW b \in Apply, apply'[b].st = "run", apply'[b].by = visit, NEW d \in pending
        PROVE  d \in raced \/ d \in apply'[b].todo \/ ran'[d] > 0
    <3>1. b # a /\ apply'[b] = apply[b]
      BY <1>2, <2>1
    <3>2. d \in raced \/ d \in apply[b].todo \/ ran[d] > 0
      BY <2>1, <3>1 DEF HandedOver
    <3> QED BY <1>3, <1>t, <3>1, <3>2
  <2> QED BY <1>1, <2>1 DEF HandedOver
<1>7. NotYetMade'
  <2>1. c <= staged /\ staged \in Nat /\ c \in Nat
    BY <1>1, TodoStaged DEF PanelTypeOK
  <2> QED BY <1>1, <1>3, <2>1 DEF NotYetMade, Change
<1>8. RanAndListed'
  <2>1. ASSUME NEW d \in pending, ran'[d] > 0 PROVE d \in failed' \/ isApplying'
    <3>1. CASE apply[a].by = visit
      BY <1>1, <3>1
    <3>2. CASE apply[a].by # visit
      <4>1. d # c
        BY <1>1, <3>2 DEF ListedHere
      <4>2. d \in failed \/ isApplying
        BY <1>3, <1>t, <2>1, <4>1 DEF RanAndListed
      <4>3. isApplying => isApplying'
        BY <1>1, <1>2, <3>2 DEF isApplying
      <4> QED BY <1>1, <3>2, <4>2, <4>3
    <3> QED BY <3>1, <3>2
  <2> QED BY <1>1, <2>1 DEF RanAndListed
<1>9. RanAndWaiting'
  <2>1. ASSUME NEW b \in Apply, NEW d \in apply'[b].todo PROVE d # c /\ d \in apply[b].todo
    BY <1>1, <1>2, <2>1 DEF OneApply
  <2> QED BY <1>1, <1>3, <1>t, <2>1 DEF RanAndWaiting
<1>10. (LostOnlyInRace /\ RepeatedOnlyAfterFailure)'
  BY <1>1, <1>3 DEF LostOnlyInRace, RepeatedOnlyAfterFailure, RanAndWaiting
<1> QED BY <1>4, <1>5, <1>6, <1>7, <1>8, <1>9, <1>10

\* An apply ends well: what its own panel clears was sent or was staged since.
LEMMA ApplyEnds ==
  ASSUME PanelInv, NEW a \in Apply, onSuccess(a)
  PROVE  PanelInv'
<1> USE PanelAssumption DEF PanelInv
<1>1. /\ apply[a].st = "run" /\ apply[a].todo = {}
      /\ apply' = [apply EXCEPT ![a] = [NotRun EXCEPT !.st = "ok"]]
      /\ fetch' = "out" /\ unseen' \in {unseen, "due"}
      /\ UNCHANGED <<discards, staged, raced, visit, ran, failed>>
  BY DEF onSuccess, AskRows
<1>2. /\ apply'[a].st = "ok" /\ apply'[a].todo = {} /\ apply'[a].by = 0
      /\ \A b \in Apply : b # a => apply'[b] = apply[b]
  BY <1>1 DEF PanelTypeOK, NotRun
<1>3. \/ apply[a].by = visit /\ pending' = {} /\ lost' = lost \cup {c \in pending : ran[c] = 0}
      \/ apply[a].by # visit /\ pending' = pending /\ lost' = lost
  BY DEF onSuccess
<1>4. PanelTypeOK'
  <2>1. apply' \in [Apply -> [st : {"none", "run", "ok", "err"}, todo : SUBSET (1 .. staged), by : 0 .. visit]]
    BY <1>1 DEF PanelTypeOK, NotRun
  <2> QED BY <1>1, <1>3, <2>1 DEF PanelTypeOK
<1>5. InApply' /\ OneApply' /\ ListedHere'
  BY <1>1, <1>2, <1>3 DEF InApply, OneApply, ListedHere
<1>6. HandedOver' /\ NotYetMade'
  BY <1>1, <1>2, <1>3 DEF HandedOver, NotYetMade
<1>7. RanAndListed'
  <2>1. apply[a].by # visit /\ isApplying => isApplying'
    BY <1>1, <1>2 DEF isApplying
  <2> QED BY <1>1, <1>3, <2>1 DEF RanAndListed
<1>8. RanAndWaiting' /\ RepeatedOnlyAfterFailure'
  BY <1>1, <1>2 DEF RanAndWaiting, RepeatedOnlyAfterFailure
<1>9. LostOnlyInRace'
  <2>1. ASSUME NEW c \in pending, apply[a].by = visit, ran[c] = 0 PROVE c \in raced
    BY <1>1, <2>1 DEF HandedOver
  <2> QED BY <1>1, <1>3, <2>1 DEF LostOnlyInRace
<1> QED BY <1>4, <1>5, <1>6, <1>7, <1>8, <1>9

\* The query of the rows touches neither the list nor an apply.
LEMMA QueryStep ==
  ASSUME PanelInv, refetch \/ FetchLand \/ FetchFail
  PROVE  PanelInv'
<1> USE DEF PanelInv
<1>1. UNCHANGED <<discards, staged, pending, raced, lost, visit, apply, ran, failed>>
  BY DEF refetch, FetchLand, FetchFail, listVars
<1>2. PanelTypeOK'
  <2>1. fetch' \in {"idle", "out", "old", "error"}
    BY DEF refetch, AskRows, FetchLand, FetchFail
  <2>2. unseen' \in {unseen, "due", "no"}
    BY DEF refetch, AskRows, FetchLand, FetchFail
  <2> QED BY <1>1, <2>1, <2>2 DEF PanelTypeOK
<1>3. (InApply /\ OneApply /\ ListedHere /\ HandedOver)'
  BY <1>1 DEF InApply, OneApply, ListedHere, HandedOver
<1>4. (NotYetMade /\ RanAndListed /\ RanAndWaiting)'
  BY <1>1 DEF NotYetMade, RanAndListed, RanAndWaiting, isApplying
<1>5. (LostOnlyInRace /\ RepeatedOnlyAfterFailure)'
  BY <1>1 DEF LostOnlyInRace, RepeatedOnlyAfterFailure
<1> QED BY <1>2, <1>3, <1>4, <1>5

\* Every step of the panel keeps the invariant.
LEMMA PanelStepInv == PanelInv /\ [PanelNext]_panelVars => PanelInv'
<1> SUFFICES ASSUME PanelInv, [PanelNext]_panelVars PROVE PanelInv'
  OBVIOUS
<1>1. CASE PanelNext
  <2>1. CASE addChange \/ clearChanges \/ Remount
    BY <2>1, ListStep
  <2>2. CASE \E a \in Apply : applyChanges(a)
    BY <2>2, ApplyBegins
  <2>3. CASE \E a \in Apply : Loop(a)
    BY <2>3, ApplyEnds, ChangeExecuted, ApplyFails DEF Loop
  <2>4. CASE refetch \/ FetchLand \/ FetchFail
    BY <2>4, QueryStep
  <2> QED BY <1>1, <2>1, <2>2, <2>3, <2>4 DEF PanelNext
<1>2. CASE UNCHANGED panelVars
  <2> USE <1>2 DEF panelVars, listVars, queryVars, PanelInv
  <2>1. PanelTypeOK'
    BY DEF PanelTypeOK
  <2>2. (InApply /\ OneApply /\ ListedHere /\ HandedOver)'
    BY DEF InApply, OneApply, ListedHere, HandedOver
  <2>3. (NotYetMade /\ RanAndListed /\ RanAndWaiting)'
    BY DEF NotYetMade, RanAndListed, RanAndWaiting, isApplying
  <2>4. (LostOnlyInRace /\ RepeatedOnlyAfterFailure)'
    BY DEF LostOnlyInRace, RepeatedOnlyAfterFailure
  <2> QED BY <2>1, <2>2, <2>3, <2>4
<1> QED BY <1>1, <1>2

\* The invariant holds throughout.
LEMMA PanelInvariant == PanelSpec => []PanelInv
BY PanelInitInv, PanelStepInv, PTL DEF PanelSpec

\* Whatever onSuccess clears without its having been sent was staged while
\* an apply of that visit was running.
THEOREM OnlyRacedChangesAreLost == PanelSpec => []LostOnlyInRace
<1>1. PanelInv => LostOnlyInRace
  BY DEF PanelInv
<1> QED BY <1>1, PanelInvariant, PTL

\* A change the device executes twice was on the list when an apply failed.
THEOREM OnlyFailureRepeats == PanelSpec => []RepeatedOnlyAfterFailure
<1>1. PanelInv => RepeatedOnlyAfterFailure
  BY DEF PanelInv
<1> QED BY <1>1, PanelInvariant, PTL

-----------------------------------------------------------------------------
\* What waits in some apply.
LEMMA InApproved == \A c : c \in Approved <=> \E a \in Apply : c \in apply[a].todo
BY DEF Approved

\* A panel just opened is an empty ledger.
LEMMA LedgerBegins == PanelInit => Ledger!LedgerInit
BY PanelAssumption DEF PanelInit, Ledger!LedgerInit, Approved, NotRun

\* Each step of the panel is one of the ledger, or leaves it alone.
LEMMA LedgerStep ==
  PanelInv /\ [PanelNext]_panelVars => [Ledger!LedgerNext]_(Ledger!ledgerVars)
<1> SUFFICES ASSUME PanelInv, [PanelNext]_panelVars
             PROVE  Ledger!LedgerNext \/ UNCHANGED Ledger!ledgerVars
  BY DEF Ledger!ledgerVars
<1> USE PanelAssumption
<1>a. UNCHANGED apply => Approved' = Approved
  BY DEF Approved
<1>1. CASE addChange
  <2>1. staged \in Nat /\ staged + 1 \in Change \ (1 .. staged) /\ 1 .. staged' = (1 .. staged) \cup {staged + 1}
    BY <1>1 DEF addChange, PanelInv, PanelTypeOK, Change
  <2>2. Ledger!Make(staged + 1)
    BY <1>1, <1>a, <2>1 DEF addChange, Ledger!Make
  <2> QED BY <2>1, <2>2 DEF Ledger!LedgerNext
<1>2. CASE clearChanges \/ Remount
  <2>1. Ledger!Clear
    BY <1>2, <1>a DEF clearChanges, Remount, Ledger!Clear
  <2> QED BY <2>1 DEF Ledger!LedgerNext
<1>3. ASSUME NEW a \in Apply, applyChanges(a) PROVE Ledger!LedgerNext
  <2>1. \A b \in Apply : apply[b].todo \cap pending = {}
    BY <1>3 DEF applyChanges, isApplying, PanelInv, InApply, ListedHere
  <2>2. /\ apply'[a].todo = pending /\ apply[a].todo = {}
        /\ \A b \in Apply : b # a => apply'[b] = apply[b]
    BY <1>3 DEF applyChanges, PanelInv, PanelTypeOK, NotRun
  <2>3. Approved' = Approved \cup pending
    BY <2>2 DEF Approved
  <2>4. Ledger!Approve
    BY <1>3, <2>1, <2>3, InApproved DEF applyChanges, listVars, Ledger!Approve
  <2> QED BY <2>4 DEF Ledger!LedgerNext
<1>4. ASSUME NEW a \in Apply, NEW c \in Change, ApplyStep(a, c) PROVE Ledger!LedgerNext
  <2>1. /\ c \in apply[a].todo /\ apply'[a].todo = apply[a].todo \ {c}
        /\ \A b \in Apply : b # a => apply'[b] = apply[b] /\ c \notin apply[b].todo
    BY <1>4 DEF ApplyStep, Turn, PanelInv, PanelTypeOK, OneApply
  <2>2. Approved' = Approved \ {c}
    BY <2>1 DEF Approved
  <2>3. Ledger!Take(c, {})
    BY <1>4, <2>1, <2>2, InApproved DEF ApplyStep, TakesEffect, listVars, Ledger!Take
  <2> QED BY <2>3 DEF Ledger!LedgerNext
<1>5. ASSUME NEW a \in Apply, NEW c \in Change, ApplyRefused(a, c) \/ ApplyUnanswered(a, c)
      PROVE  Ledger!LedgerNext
  <2>1. /\ c \in apply[a].todo /\ apply'[a].todo = {}
        /\ \A b \in Apply : b # a => apply'[b] = apply[b] /\ apply[b].todo \cap apply[a].todo = {}
    BY <1>5 DEF ApplyRefused, ApplyUnanswered, onError, Turn, NotRun, PanelInv, PanelTypeOK, OneApply
  <2>2. Approved' = Approved \ apply[a].todo /\ apply[a].todo \in SUBSET Approved
    BY <2>1 DEF Approved
  <2>3. CASE ApplyRefused(a, c)
    <3>1. Ledger!Withdraw(apply[a].todo)
      BY <2>2, <2>3 DEF ApplyRefused, onError, listVars, Ledger!Withdraw
    <3> QED BY <2>2, <3>1 DEF Ledger!LedgerNext
  <2>4. CASE ApplyUnanswered(a, c)
    <3>1. Ledger!Take(c, apply[a].todo)
      BY <2>1, <2>2, <2>4 DEF ApplyUnanswered, TakesEffect, onError, listVars, Ledger!Take
    <3> QED BY <2>2, <3>1 DEF Ledger!LedgerNext
  <2> QED BY <1>5, <2>3, <2>4
<1>6. ASSUME NEW a \in Apply, onSuccess(a) PROVE Ledger!LedgerNext \/ UNCHANGED Ledger!ledgerVars
  <2>1. /\ apply'[a].todo = {} /\ apply[a].todo = {}
        /\ \A b \in Apply : b # a => apply'[b] = apply[b]
    BY <1>6 DEF onSuccess, NotRun, PanelInv, PanelTypeOK
  <2>2. Approved' = Approved
    BY <2>1 DEF Approved
  <2>3. CASE apply[a].by = visit
    <3>1. Ledger!Clear
      BY <1>6, <2>2, <2>3 DEF onSuccess, Ledger!Clear
    <3> QED BY <3>1 DEF Ledger!LedgerNext
  <2>4. CASE apply[a].by # visit
    BY <1>6, <2>2, <2>4 DEF onSuccess, Ledger!ledgerVars
  <2> QED BY <2>3, <2>4
<1>7. CASE refetch \/ FetchLand \/ FetchFail \/ UNCHANGED panelVars
  BY <1>7, <1>a DEF refetch, FetchLand, FetchFail, panelVars, listVars, Ledger!ledgerVars
<1> QED BY <1>1, <1>2, <1>3, <1>4, <1>5, <1>6, <1>7 DEF PanelNext, Loop

\* The panel implements the ledger: the device executes nothing but what was
\* on the list when an apply was confirmed, once for each time it was.
THEOREM PanelImplementsLedger == PanelSpec => ImplementsLedger
BY LedgerBegins, LedgerStep, PanelInvariant, PTL DEF PanelSpec, ImplementsLedger, Ledger!LedgerSpec

-----------------------------------------------------------------------------
(***************************************************************************)
(* PanelForm.  As long as nothing was typed, a form that sends differences *)
(* shows the value that its difference is taken to; and any form that was  *)
(* loaded from a row shows what Loaded makes of that row, so that a change *)
(* carries the row's own value, its default or nothing.                    *)
(***************************************************************************)
FormTypes == field \in Behaviour /\ typed \in BOOLEAN

EditOffered == dialog \notin {Closed, New} => Standing \/ "edit" \in field.ops

StandingRow == Standing => dialog = 1

UntouchedForm ==
  ~typed /\ field.send \in {"diff", "diffset"} =>
    /\ field.load = "opener" /\ dialog \notin {Closed, New} => form = Loaded(base)
    /\ field.load = "effect" => form = Loaded(table[1])
    /\ field.load = "overlay" => form = Keep

LoadedForm == ~typed /\ base # Keep => form = Loaded(base)

LoadedChange ==
  change.op = "set" /\ ~change.typed /\ change.from # Keep =>
    change.val \in {Keep, change.from} \/ (change.from = Blank /\ change.val = Default)

ViewInv == EditOffered /\ StandingRow /\ UntouchedForm /\ LoadedForm

FormInv == FormTypes /\ ViewInv /\ LoadedChange /\ UntouchedNotSent

\* A freshly mounted panel: nothing is typed, a form shows its row.
LEMMA FormInitInv == FormInit => FormInv
<1> SUFFICES ASSUME FormInit PROVE FormInv
  OBVIOUS
<1>1. FormTypes /\ EditOffered /\ StandingRow
  BY DEF FormInit, FormTypes, EditOffered, StandingRow, Closed
<1>2. UntouchedForm /\ LoadedForm
  <2>1. field.load = "opener" => dialog = Closed
    BY DEF FormInit, Standing
  <2>2. Copied => form = Loaded(table[1])
    BY DEF FormInit, FirstForm, Copied
  <2>3. field.load = "overlay" => form = Keep
    BY DEF FormInit, FirstForm, Copied
  <2>4. LoadedForm
    BY <2>2 DEF FormInit, LoadedForm
  <2> QED BY <2>1, <2>2, <2>3, <2>4 DEF UntouchedForm, Copied
<1>3. LoadedChange /\ UntouchedNotSent
  BY DEF FormInit, LoadedChange, UntouchedNotSent, None
<1> QED BY <1>1, <1>2, <1>3 DEF FormInv, ViewInv

\* A step that leaves the change alone, or takes it off.
LEMMA ViewStep ==
  ASSUME FormInv, UNCHANGED field, typed' \in BOOLEAN, ViewInv', change' = change \/ change' = None
  PROVE  FormInv'
BY DEF FormInv, FormTypes, LoadedChange, UntouchedNotSent, None

\* A dialog is opened for a new row or for one there is.
LEMMA OpenStep ==
  ASSUME FormInv, NEW row, NEW value, Open(row, value),
         row \notin {Closed, New} => "edit" \in field.ops
  PROVE  FormInv'
<1>1. ViewInv'
  BY BehaviourAssumption
  DEF FormInv, FormTypes, ViewInv, EditOffered, StandingRow, UntouchedForm, LoadedForm, Open, Standing, Loaded
<1> QED BY <1>1, ViewStep DEF Open

\* The operator types.
LEMMA TypeStep ==
  ASSUME FormInv, NEW v \in Value, Type(v)
  PROVE  FormInv'
<1>1. ViewInv'
  BY DEF FormInv, ViewInv, EditOffered, StandingRow, UntouchedForm, LoadedForm, Type, Standing
<1> QED BY <1>1, ViewStep DEF Type

\* The form after it was closed, by Cancel or by a save.
LEMMA CloseFormStep ==
  ASSUME FormInv, CloseForm, UNCHANGED <<field, table>>
  PROVE  ViewInv' /\ typed' \in BOOLEAN
<1>1. EditOffered' /\ StandingRow' /\ typed' \in BOOLEAN
  BY DEF FormInv, FormTypes, ViewInv, EditOffered, StandingRow, CloseForm, Standing, Copied
<1>2. LoadedForm'
  BY DEF FormInv, FormTypes, ViewInv, LoadedForm, CloseForm, Copied, Loaded
<1>3. UntouchedForm'
  BY DEF FormInv, FormTypes, ViewInv, UntouchedForm, CloseForm, Copied, Standing, Loaded
<1> QED BY <1>1, <1>2, <1>3 DEF ViewInv

\* What an edit sends of a field that was loaded and left alone: nothing, the
\* row's value, or the default of a property it has not.
LEMMA SentLoaded ==
  ASSUME FormInv, ~typed, base # Keep
  PROVE  Sent(form) \in {Keep, base} \/ (base = Blank /\ Sent(form) = Default)
<1>1. form = Loaded(base)
  BY DEF FormInv, ViewInv, LoadedForm
<1>2. field.send \in {"always", "filled", "ifset", "ifother", "diff", "diffset", "never"}
  BY BehaviourAssumption DEF FormInv, FormTypes
<1>3. CASE field.hide
  <2>1. field.send = "ifset" /\ form = Blank
    BY <1>1, <1>3, BehaviourAssumption DEF FormInv, FormTypes, Loaded
  <2> QED BY <2>1 DEF Sent
<1>4. CASE ~field.hide
  <2>1. form = base \/ (base = Blank /\ form = Default)
    BY <1>1, <1>4 DEF Loaded
  <2>2. Sent(form) \in {Keep, form} \/ (form = Blank /\ Sent(form) = Default)
    BY <1>2 DEF Sent
  <2> QED BY <2>1, <2>2, FormAssumption
<1> QED BY <1>3, <1>4

\* A difference of a form that was not typed into is not sent.
LEMMA SentUntouched ==
  ASSUME FormInv, ~typed, dialog \notin {Closed, New}, field.send \in {"diff", "diffset"}
  PROVE  \/ Sent(form) = Keep
         \/ Row = Blank
         \/ field.vs = "shown" /\ field.load \in {"opener", "once"}
<1> USE DEF FormInv, FormTypes
<1>1. /\ ~field.hide /\ (field.load = "once" => field.vs = "shown")
      /\ field.load \in {"opener", "effect", "once", "overlay"}
      /\ field.vs \in {"opened", "shown"}
  BY BehaviourAssumption DEF ViewInv, EditOffered, Standing
<1>2. form = Keep => Sent(form) = Keep
  BY DEF Sent
<1>3. Row # Blank /\ form = Loaded(Row) => Sent(form) = Keep
  BY <1>1 DEF Sent, Was, Loaded
<1>4. CASE field.load = "opener" /\ field.vs = "opened"
  BY <1>3, <1>4 DEF ViewInv, UntouchedForm, Row, Standing
<1>5. CASE field.load = "effect"
  BY <1>3, <1>5 DEF ViewInv, UntouchedForm, StandingRow, Row, Standing
<1>6. CASE field.load = "overlay"
  BY <1>2, <1>6 DEF ViewInv, UntouchedForm
<1> QED BY <1>1, <1>4, <1>5, <1>6

\* The form is saved.
LEMMA SaveStep ==
  ASSUME FormInv, handleSave
  PROVE  FormInv'
<1>1. UNCHANGED <<field, table>> /\ CloseForm /\ dialog # Closed
  BY DEF handleSave
<1>2. ViewInv' /\ typed' \in BOOLEAN
  BY <1>1, CloseFormStep
<1>3. LoadedChange' /\ UntouchedNotSent'
  <2> DEFINE add == dialog = New
             val == IF add THEN form ELSE Sent(form)
  <2>1. CASE change' = change
    BY <1>1, <2>1 DEF FormInv, LoadedChange, UntouchedNotSent
  <2>2. CASE add \/ Stages(val)
    <3>1. change' = [op |-> IF add THEN "add" ELSE "set", id |-> dialog, val |-> val,
                     was |-> IF add THEN Keep ELSE Row, from |-> base, typed |-> typed]
      BY <2>2 DEF handleSave, Stage
    <3>2. CASE add
      BY <3>1, <3>2 DEF LoadedChange, UntouchedNotSent
    <3>3. CASE ~add
      <4>1. /\ change'.val = Sent(form) /\ change'.from = base /\ change'.was = Row /\ change'.typed = typed
            /\ dialog \notin {Closed, New}
        BY <1>1, <2>2, <3>1, <3>3
      <4> QED BY <1>1, <4>1, SentLoaded, SentUntouched DEF LoadedChange, UntouchedNotSent
    <3> QED BY <3>2, <3>3
  <2>3. change' = change \/ add \/ Stages(val)
    BY DEF handleSave
  <2> QED BY <2>1, <2>2, <2>3
<1> QED BY <1>1, <1>2, <1>3 DEF FormInv, FormTypes

\* The switch and the delete button stage a change without the field.
LEMMA RowStep ==
  ASSUME FormInv, NEW id, handleToggle(id) \/ handleDelete(id)
  PROVE  FormInv'
<1>1. UNCHANGED <<field, table, formVars>>
  BY DEF handleToggle, handleDelete
<1>2. change'.val = Keep
  BY DEF handleToggle, handleDelete, Stage, None
<1> QED BY <1>1, <1>2
  DEF FormInv, FormTypes, ViewInv, EditOffered, StandingRow, UntouchedForm, LoadedForm, LoadedChange,
      UntouchedNotSent, formVars, Standing, Loaded

\* The rows are read again, whatever they are.
LEMMA RefreshStep ==
  ASSUME FormInv, NEW rows, Refresh(rows), UNCHANGED field, change' = change \/ change' = None
  PROVE  FormInv'
<1>1. ViewInv' /\ typed' \in BOOLEAN
  <2>1. CASE field.load = "effect" /\ rows[1] # table[1]
    BY <2>1 DEF Refresh, FollowRow, FormInv, FormTypes, ViewInv, EditOffered, StandingRow, UntouchedForm,
                LoadedForm, Standing, Loaded
  <2>2. CASE ~(field.load = "effect" /\ rows[1] # table[1])
    BY <2>2 DEF Refresh, FollowRow, FormInv, FormTypes, ViewInv, EditOffered, StandingRow, UntouchedForm,
                LoadedForm, Standing, Loaded, formVars
  <2> QED BY <2>1, <2>2
<1> QED BY <1>1, ViewStep

\* The effect copies the row for another property.
LEMMA OtherPropertyStep ==
  ASSUME FormInv, OtherProperty
  PROVE  FormInv'
<1>1. ViewInv'
  BY DEF OtherProperty, FormInv, FormTypes, ViewInv, EditOffered, StandingRow, UntouchedForm, LoadedForm,
         Standing, Loaded
<1> QED BY <1>1, ViewStep DEF OtherProperty

\* Nothing that the page shows changes.
LEMMA QuietStep ==
  ASSUME FormInv, UNCHANGED <<field, table, formVars>>, change' = change \/ change' = None
  PROVE  FormInv'
<1>1. ViewInv' /\ typed' \in BOOLEAN
  BY DEF FormInv, FormTypes, ViewInv, EditOffered, StandingRow, UntouchedForm, LoadedForm, Standing, Loaded, formVars
<1> QED BY <1>1, ViewStep

\* The invariant holds throughout.
LEMMA FormInvariant == FormSpec => []FormInv
<1>1. FormInv /\ [FormNext]_pageVars => FormInv'
  <2> SUFFICES ASSUME FormInv, [FormNext]_pageVars PROVE FormInv'
    OBVIOUS
  <2>1. CASE handleAdd
    BY <2>1, OpenStep DEF handleAdd
  <2>2. CASE Cancel
    BY <2>2, CloseFormStep, ViewStep DEF Cancel
  <2>3. CASE Refetch
    BY <2>3, RefreshStep DEF Refetch
  <2>4. CASE Applied
    BY <2>4, RefreshStep DEF Applied
  <2>5. CASE Dropped
    BY <2>5, QuietStep DEF Dropped
  <2>6. ASSUME NEW id \in DOMAIN table, handleEdit(id) \/ handleToggle(id) \/ handleDelete(id) PROVE FormInv'
    BY <2>6, OpenStep, RowStep DEF handleEdit, Offered
  <2>7. ASSUME NEW id \in DOMAIN device, NEW v \in Value \cup {Keep}, Outside(id, v) PROVE FormInv'
    BY <2>7, QuietStep DEF Outside
  <2>8. CASE UNCHANGED pageVars
    BY <2>8, QuietStep DEF pageVars
  <2> QED BY <2>1, <2>2, <2>3, <2>4, <2>5, <2>6, <2>7, <2>8, TypeStep, SaveStep, OtherPropertyStep DEF FormNext
<1> QED BY FormInitInv, <1>1, PTL DEF FormSpec

\* A save handler that compares each field with the row (if (x !== entry.x),
\* components/config and components/simple-config) sends nothing the operator
\* left alone, but for the exceptions stated: for any fields that behave as
\* the panels' do, any values, any changes by others.
THEOREM UntouchedFieldsAreNotSent == FormSpec => []UntouchedNotSent
<1>1. FormInv => UntouchedNotSent
  BY DEF FormInv
<1> QED BY <1>1, FormInvariant, PTL

\* A field that was loaded into a form and saved untouched leaves the row as
\* it is, whatever the form does to load and to send it (the openers, effects
\* and save handlers of components/config and components/simple-config): for
\* any fields that behave as the panels' do, any rows and values.
THEOREM UntouchedFieldsStay == FormSpec => UntouchedStays
<1>1. FormInv /\ [FormNext]_pageVars =>
        [Applied /\ change.op = "set" /\ ~change.typed /\ change.from # Keep /\ device[change.id] = change.from
           => \/ device'[change.id] = device[change.id]
              \/ device[change.id] = Blank /\ device'[change.id] = Default]_pageVars
  <2> SUFFICES ASSUME FormInv, Applied, change.op = "set", ~change.typed, change.from # Keep,
                      device[change.id] = change.from
               PROVE  \/ device'[change.id] = device[change.id]
                      \/ device[change.id] = Blank /\ device'[change.id] = Default
    OBVIOUS
  <2>1. change.val \in {Keep, change.from} \/ (change.from = Blank /\ change.val = Default)
    BY DEF FormInv, LoadedChange
  <2>2. device' = IF change.val = Keep THEN device ELSE With(device, change.id, change.val)
    BY DEF Applied, Effect
  <2>3. CASE change.val = Keep
    BY <2>2, <2>3
  <2>4. CASE change.val # Keep
    <3>1. device'[change.id] = change.val
      BY <2>2, <2>4 DEF With
    <3> QED BY <2>1, <2>4, <3>1
  <2> QED BY <2>3, <2>4
<1> QED BY <1>1, FormInvariant, PTL DEF FormSpec, UntouchedStays

-----------------------------------------------------------------------------
(***************************************************************************)
(* RecordPage.  While an answer is due that will act on the form, nothing  *)
(* in it counts as typed but not sent; only the forms that close late have *)
(* a closing due, and a form that is part of its page is always shown.     *)
(***************************************************************************)
Target == Record \cup {NewRecord}

Texts == {"no", "typed", "beside", "sent", "gone"}

Requests ==
  [st : {"none", "sent", "closing", "refused", "unanswered", "ok"}, op : {"form", "free", "serial", "quiet"},
   to : Target, by : Nat]

PageTypes ==
  /\ screen \in Screen /\ target \in Target /\ text \in Texts
  /\ submit \in [Submits -> Requests]
  /\ opening \in Nat /\ asked \subseteq Record

AskedFor == asked # {} => screen.load = "fetched"

PageOpen == screen.load = "page" => opened

TypedUnawaited == text = "typed" => \A n \in Submits : ~Awaited(n)

ClosingLater ==
  \A n \in Submits : submit[n].st = "closing" => submit[n].op = "form" /\ screen.after = "later"

RecordInv == PageTypes /\ PageOpen /\ AskedFor /\ TypedUnawaited /\ ClosingLater

\* There is a record for a form to begin with, and a request not sent is one.
LEMMA FirstAndUnsent == First \in Target /\ Unsent \in Requests
BY RecordAssumption DEF First, Target, Unsent, Requests

\* Every page begins with a form that nothing was typed into.
LEMMA RecordInitInv == RecordInit => RecordInv
<1> SUFFICES ASSUME RecordInit PROVE RecordInv
  OBVIOUS
<1>1. PageTypes /\ text = "no"
  BY FirstAndUnsent DEF RecordInit, PageTypes, Texts
<1>2. \A n \in Submits : submit[n].st = "none"
  BY DEF RecordInit, Unsent
<1> QED BY <1>1, <1>2
  DEF RecordInit, RecordInv, AskedFor, PageOpen, TypedUnawaited, ClosingLater

\* A step that changes the form and no request: nothing is typed anew while
\* an answer is due.
LEMMA FieldsStep ==
  ASSUME RecordInv, UNCHANGED <<screen, submit>>,
         target' \in Target, text' \in Texts, opening' \in Nat, asked' \subseteq Record,
         PageOpen', AskedFor',
         text' = "typed" => text = "typed" \/ \A n \in Submits : ~Awaited(n)
  PROVE  RecordInv'
BY DEF RecordInv, PageTypes, TypedUnawaited, ClosingLater, Awaited

\* Opening the form for r.
LEMMA ReloadStep ==
  ASSUME RecordInv, NEW r \in Target, ~opened, Show(r), Reload(r), UNCHANGED screen
  PROVE  /\ target' \in Target /\ text' \in Texts /\ opening' \in Nat /\ PageOpen'
         /\ text' = "typed" => text = "typed"
<1> USE DEF RecordInv
<1>1. screen.load \in {"fresh", "fetched", "keyed", "kept"}
  BY ScreenAssumption DEF PageTypes, PageOpen
<1>2. target' = r /\ opened' /\ opening' \in Nat
  BY DEF Show, PageTypes
<1>3. text' \in {text, "no"}
  BY <1>1 DEF Reload
<1> QED BY <1>2, <1>3 DEF PageTypes, PageOpen, Texts

\* The form is opened, by its button or when the record arrives.
LEMMA OpeningStep ==
  ASSUME RecordInv,
         \/ \E r \in Target : openForm(r)
         \/ \E r \in Record : handleEditRecord(r) \/ RecordArrives(r) \/ RecordMissing(r)
  PROVE  RecordInv'
<1>1. ASSUME NEW r \in Target, openForm(r) PROVE RecordInv'
  <2>1. ~opened /\ Show(r) /\ Reload(r) /\ UNCHANGED <<screen, submit, asked>>
    BY <1>1 DEF openForm
  <2>2. asked' \subseteq Record /\ AskedFor'
    BY <2>1 DEF RecordInv, PageTypes, AskedFor
  <2> QED BY <2>1, <2>2, ReloadStep, FieldsStep
<1>2. ASSUME NEW r \in Record, handleEditRecord(r) PROVE RecordInv'
  <2>1. asked' \subseteq Record /\ AskedFor'
    BY <1>2 DEF handleEditRecord, RecordInv, PageTypes, AskedFor
  <2>2. PageOpen' /\ target' \in Target /\ text' \in Texts /\ opening' \in Nat
    BY <1>2 DEF handleEditRecord, RecordInv, PageTypes, PageOpen
  <2> QED BY <1>2, <2>1, <2>2, FieldsStep DEF handleEditRecord
<1>3. ASSUME NEW r \in Record, RecordArrives(r) PROVE RecordInv'
  <2>1. asked' \subseteq Record /\ AskedFor' /\ screen.load = "fetched" /\ UNCHANGED <<screen, submit>>
    BY <1>3 DEF RecordArrives, RecordInv, PageTypes, AskedFor
  <2>2. CASE opened
    <3>1. PageOpen' /\ target' \in Target /\ text' \in Texts /\ opening' \in Nat
      BY <1>3, <2>1, <2>2 DEF RecordArrives, RecordInv, PageTypes, PageOpen, Target
    <3> QED BY <1>3, <2>1, <2>2, <3>1, FieldsStep DEF RecordArrives
  <2>3. CASE ~opened
    BY <1>3, <2>1, <2>3, ReloadStep, FieldsStep DEF RecordArrives, Target
  <2> QED BY <2>2, <2>3
<1>4. ASSUME NEW r \in Record, RecordMissing(r) PROVE RecordInv'
  <2>1. asked' \subseteq Record /\ AskedFor'
    BY <1>4 DEF RecordMissing, RecordInv, PageTypes, AskedFor
  <2>2. PageOpen' /\ target' \in Target /\ text' \in Texts /\ opening' \in Nat
    BY <1>4 DEF RecordMissing, RecordInv, PageTypes, PageOpen
  <2> QED BY <1>4, <2>1, <2>2, FieldsStep DEF RecordMissing
<1> QED BY <1>1, <1>2, <1>3, <1>4

\* The form is typed into.
LEMMA TextStep ==
  ASSUME RecordInv, TypeText
  PROVE  RecordInv'
<1>1. text' \in Texts /\ (text' = "typed" => \A n \in Submits : ~Awaited(n))
  BY DEF TypeText, Texts
<1>2. PageOpen' /\ AskedFor' /\ target' \in Target /\ opening' \in Nat /\ asked' \subseteq Record
  BY DEF TypeText, RecordInv, PageTypes, PageOpen, AskedFor
<1> QED BY <1>1, <1>2, FieldsStep DEF TypeText

\* Closing the form leaves its text, or none.
LEMMA CloseFieldsStep ==
  ASSUME RecordInv, NEW cleared \in BOOLEAN, screen.load # "page", CloseFields(cleared), UNCHANGED screen
  PROVE  /\ target' \in Target /\ text' \in Texts /\ PageOpen'
         /\ text' \in {text, "no"}
<1>1. target' \in Target
  BY FirstAndUnsent DEF CloseFields, RecordInv, PageTypes
<1>2. text' \in {text, "no"}
  BY DEF CloseFields
<1> QED BY <1>1, <1>2 DEF RecordInv, PageTypes, PageOpen, Texts

\* The form is closed by its button.
LEMMA CloseStep ==
  ASSUME RecordInv, closeForm
  PROVE  RecordInv'
<1>1. opening' \in Nat /\ asked' \subseteq Record /\ AskedFor'
  BY DEF closeForm, RecordInv, PageTypes, AskedFor
<1> QED BY <1>1, CloseFieldsStep, FieldsStep DEF closeForm

\* A request is sent with what the form holds, or by a row.
LEMMA SendStep ==
  ASSUME RecordInv, NEW n \in Submits,
         handleSubmit(n) \/ \E op \in {"free", "serial", "quiet"} : rowButton(n, op)
  PROVE  RecordInv'
<1> USE DEF RecordInv
<1>1. CASE handleSubmit(n)
  <2> DEFINE req == [st |-> "sent", op |-> "form", to |-> target, by |-> opening]
  <2>1. req \in Requests
    BY DEF Requests, PageTypes
  <2>2. submit' = [submit EXCEPT ![n] = req] /\ UNCHANGED <<screen, opened, target, asked, opening>>
    BY <1>1 DEF handleSubmit
  <2>3. text' \in {"no", "sent"}
    BY <1>1 DEF handleSubmit
  <2>4. PageTypes' /\ PageOpen' /\ AskedFor' /\ TypedUnawaited'
    BY <2>1, <2>2, <2>3 DEF PageTypes, Texts, PageOpen, AskedFor, TypedUnawaited
  <2>5. ClosingLater'
    BY <2>2 DEF PageTypes, ClosingLater
  <2> QED BY <2>4, <2>5
<1>2. ASSUME NEW op \in {"free", "serial", "quiet"}, rowButton(n, op) PROVE RecordInv'
  <2> DEFINE req == [Unsent EXCEPT !.st = "sent", !.op = op]
  <2>1. req \in Requests /\ req.op # "form" /\ req.st = "sent"
    BY FirstAndUnsent DEF Requests
  <2>2. submit' = [submit EXCEPT ![n] = req] /\ UNCHANGED <<screen, opened, target, text, asked, opening>>
    BY <1>2 DEF rowButton
  <2> HIDE DEF req
  <2>3. PageTypes' /\ PageOpen' /\ AskedFor'
    BY <2>1, <2>2 DEF PageTypes, PageOpen, AskedFor
  <2>4. TypedUnawaited' /\ ClosingLater'
    BY <2>1, <2>2 DEF PageTypes, TypedUnawaited, Awaited, ClosingLater
  <2> QED BY <2>3, <2>4
<1> QED BY <1>1, <1>2

\* What became of a request that is settled: its status, and no other request.
LEMMA SettleStep ==
  ASSUME RecordInv, NEW n \in Submits, NEW st \in {"refused", "unanswered", "closing", "ok"}, Settle(n, st)
  PROVE  /\ submit' \in [Submits -> Requests]
         /\ submit'[n].st = st /\ submit'[n].op = submit[n].op
         /\ \A m \in Submits : m # n => submit'[m] = submit[m]
BY FirstAndUnsent DEF Settle, RecordInv, PageTypes, Requests

\* A request is settled and the form closed, replaced by an outcome or left:
\* what is typed into it is not taken.
LEMMA SettledStep ==
  ASSUME RecordInv, NEW n \in Submits, NEW st \in {"refused", "unanswered", "closing", "ok"}, Settle(n, st),
         submit[n].st \in {"sent", "closing"},
         st = "closing" => submit[n].op = "form" /\ screen.after = "later",
         UNCHANGED <<screen, asked, opening>>,
         target' \in Target, text' \in Texts, PageOpen',
         text' = text \/ text' # "typed"
  PROVE  RecordInv'
<1>1. PageTypes' /\ AskedFor'
  BY SettleStep DEF RecordInv, PageTypes, AskedFor
<1>2. ClosingLater'
  BY SettleStep DEF RecordInv, ClosingLater
<1>3. TypedUnawaited'
  <2> SUFFICES ASSUME text' = "typed", NEW m \in Submits PROVE ~Awaited(m)'
    BY DEF TypedUnawaited
  <2>1. ~Awaited(m) /\ ~Awaited(n)
    BY DEF RecordInv, TypedUnawaited
  <2>2. CASE m # n
    BY <2>1, <2>2, SettleStep DEF Awaited
  <2>3. CASE m = n
    BY <2>1, <2>3, SettleStep DEF Awaited
  <2> QED BY <2>2, <2>3
<1> QED BY <1>1, <1>2, <1>3 DEF RecordInv

\* An outcome is shown in place of the form, or nothing happens to it.
LEMMA OutcomeStep ==
  ASSUME RecordInv, NEW n \in Submits, NEW outcome, Outcome(n, outcome), UNCHANGED screen
  PROVE  /\ target' \in Target /\ text' \in Texts /\ PageOpen'
         /\ UNCHANGED opened
         /\ text' = text \/ (text' = "gone" /\ submit[n].op = "form" /\ outcome \in screen.hides)
<1>1. text' \in {text, "gone"}
  BY DEF Outcome
<1>2. target' \in Target /\ text' \in Texts /\ PageOpen'
  BY <1>1 DEF Outcome, RecordInv, PageTypes, PageOpen, Texts
<1> QED BY <1>2 DEF Outcome

\* An answer leaves the form as it is, or acts on the form it is due to.
FormAnswered(n) ==
  \/ UNCHANGED <<opened, text>>
  \/ Awaited(n) /\ (submit'[n].st \in {"closing", "ok"} \/ "failed" \in screen.hides)

\* A request is answered, or a delayed closing is due: nothing that was typed
\* and not sent is lost, and no other request is touched.
LEMMA AnswerStep ==
  ASSUME RecordInv, NEW n \in Submits, Answers(n)
  PROVE  RecordInv' /\ FormAnswered(n) /\ \A m \in Submits : m # n => submit'[m] = submit[m]
<1>0. screen.after \in {"close", "later"} => screen.load # "page"
  BY ScreenAssumption DEF RecordInv, PageTypes
<1>1. CASE onRefused(n)
  <2>1. PICK st \in {"refused", "unanswered"} : Settle(n, st)
    BY <1>1 DEF onRefused
  <2>2. submit[n].st = "sent" /\ Outcome(n, "failed") /\ UNCHANGED <<screen, asked, opening>>
    BY <1>1 DEF onRefused
  <2> QED BY <2>1, <2>2, OutcomeStep, SettleStep, SettledStep DEF FormAnswered, Awaited
<1>2. CASE onAccepted(n)
  <2> DEFINE st == IF submit[n].op = "form" /\ screen.after = "later" THEN "closing" ELSE "ok"
  <2>1. /\ submit[n].st = "sent" /\ Settle(n, st) /\ UNCHANGED <<screen, asked, opening>>
        /\ IF submit[n].op = "form" /\ screen.after = "close" THEN CloseFields(screen.clears) ELSE Outcome(n, "ok")
    BY <1>2 DEF onAccepted
  <2>2. st \in {"closing", "ok"} /\ (st = "closing" => submit[n].op = "form" /\ screen.after = "later")
    OBVIOUS
  <2> HIDE DEF st
  <2>3. CASE submit[n].op = "form" /\ screen.after = "close"
    <3>1. screen.clears \in BOOLEAN
      BY ScreenAssumption DEF RecordInv, PageTypes
    <3> QED BY <1>0, <2>1, <2>2, <2>3, <3>1, CloseFieldsStep, SettleStep, SettledStep DEF FormAnswered, Awaited
  <2>4. CASE ~(submit[n].op = "form" /\ screen.after = "close")
    BY <2>1, <2>2, <2>4, OutcomeStep, SettleStep, SettledStep DEF FormAnswered, Awaited
  <2> QED BY <2>3, <2>4
<1>3. CASE ClosingDue(n)
  <2>1. /\ submit[n].st = "closing" /\ Settle(n, "ok") /\ UNCHANGED <<screen, asked, opening>>
        /\ CloseFields(screen.clears)
    BY <1>3 DEF ClosingDue
  <2>2. submit[n].op = "form" /\ screen.after = "later" /\ screen.clears \in BOOLEAN
    BY <2>1, ScreenAssumption DEF RecordInv, PageTypes, ClosingLater
  <2> QED BY <1>0, <2>1, <2>2, CloseFieldsStep, SettleStep, SettledStep DEF FormAnswered, Awaited
<1> QED BY <1>1, <1>2, <1>3 DEF Answers

\* The list is asked for, read or shown: a form that is part of the page takes
\* the record again.
LEMMA RecordQueryStep ==
  ASSUME RecordInv, Recheck \/ ListAnswers
  PROVE  RecordInv' /\ UNCHANGED submit
<1>1. /\ UNCHANGED <<screen, opened, target, asked, opening, submit>>
      /\ text' \in {text, "no"}
  BY DEF Recheck, ListAnswers, ListRead, ListLands, ListFails
<1>2. text' \in Texts /\ PageOpen'
  BY <1>1 DEF RecordInv, PageTypes, PageOpen, Texts
<1>3. target' \in Target /\ opening' \in Nat /\ asked' \subseteq Record /\ AskedFor'
  BY <1>1 DEF RecordInv, PageTypes, AskedFor
<1> QED BY <1>1, <1>2, <1>3, FieldsStep

\* A step keeps the invariant, and is an answer or settles no request.
LEMMA RecordStep ==
  ASSUME RecordInv, [RecordNext]_recordVars
  PROVE  /\ RecordInv'
         /\ \A n \in Submits :
              submit'[n].st \in {"refused", "unanswered", "closing", "ok"} /\ submit'[n].st # submit[n].st
                => FormAnswered(n)
<1>1. CASE \/ \E r \in Target : openForm(r)
           \/ \E r \in Record : handleEditRecord(r) \/ RecordArrives(r) \/ RecordMissing(r)
  BY <1>1, OpeningStep DEF openForm, handleEditRecord, RecordArrives, RecordMissing
<1>2. CASE TypeText \/ closeForm
  BY <1>2, TextStep, CloseStep DEF TypeText, closeForm
<1>3. ASSUME NEW n \in Submits, handleSubmit(n) \/ \E op \in {"free", "serial", "quiet"} : rowButton(n, op)
      PROVE  /\ RecordInv'
             /\ \A m \in Submits : submit'[m] = submit[m] \/ submit'[m].st = "sent"
  <2>1. DOMAIN submit = Submits
    BY DEF RecordInv, PageTypes
  <2>2. CASE handleSubmit(n)
    BY <1>3, <2>1, <2>2, SendStep DEF handleSubmit
  <2>3. CASE \E op \in {"free", "serial", "quiet"} : rowButton(n, op)
    BY <1>3, <2>1, <2>3, SendStep DEF rowButton, Unsent
  <2> QED BY <1>3, <2>2, <2>3
<1>4. CASE \E n \in Submits : Answers(n)
  BY <1>4, AnswerStep
<1>5. CASE Recheck \/ ListAnswers
  BY <1>5, RecordQueryStep
<1>6. CASE UNCHANGED recordVars
  <2>1. PageOpen' /\ AskedFor'
    BY <1>6 DEF recordVars, RecordInv, PageOpen, AskedFor
  <2> QED BY <1>6, <2>1, FieldsStep DEF recordVars, RecordInv, PageTypes
<1> QED BY <1>1, <1>2, <1>3, <1>4, <1>5, <1>6 DEF RecordNext, Target

\* The invariant holds throughout.
LEMMA RecordInvariant == RecordSpec => []RecordInv
BY RecordInitInv, RecordStep, PTL DEF RecordSpec

\* An error leaves the form to be corrected (onError of the mutations shows a
\* message and nothing else), the answer to a row's button leaves it alone,
\* and an accepted request takes only its own text.
THEOREM AnswersKeepTheInput == RecordSpec => InputKept
<1>1. RecordInv /\ [RecordNext]_recordVars =>
        [\A n \in Submits :
           submit'[n].st \in {"refused", "unanswered", "closing", "ok"} /\ submit'[n].st # submit[n].st
             => \/ UNCHANGED <<opened, text>>
                \/ /\ submit[n].op = "form" /\ text # "typed"
                   /\ submit'[n].st \in {"closing", "ok"} \/ "failed" \in screen.hides]_recordVars
  BY RecordStep DEF RecordInv, TypedUnawaited, FormAnswered, Awaited
<1> QED BY <1>1, RecordInvariant, PTL DEF RecordSpec, InputKept
=============================================================================
