--------------------------- MODULE ConsoleProofs ----------------------------
(***************************************************************************)
(* Proofs about the parts of the console that have requests, timers or     *)
(* loops of their own: ApiClient, EventStream, BulkRun and Adoption, for   *)
(* any number of requests, tenants, devices, runs and rounds.  Each part   *)
(* has its own invariant; they share no state.                             *)
(***************************************************************************)
EXTENDS ApiClient, EventStream, BulkRun, Adoption, TLAPS

(***************************************************************************)
(* The session is refreshed by one request at a time, for any number of    *)
(* requests.  The invariant: refreshPromise names the refresh there is,    *)
(* and the requests that are held are the ones that await it.              *)
(***************************************************************************)
Where == {"idle", "sent", "held", "ok", "failed"}

ClientTypes ==
  /\ request \in [Request -> Where]
  /\ awaits \in [Request -> Request \cup {NoRequest}]
  /\ refreshPromise \in Request \cup {NoRequest}

OneShared == refresh = IF refreshPromise = NoRequest THEN {} ELSE {refreshPromise}

HeldAwait == \A r \in Request :
  awaits[r] = IF request[r] = "held" THEN refreshPromise ELSE NoRequest

HeldForSomething == \A r \in Request : request[r] = "held" => refreshPromise # NoRequest

ClientInv == ClientTypes /\ OneShared /\ HeldAwait /\ HeldForSomething

\* No request, no refresh.
LEMMA ClientInitInv == ClientInit => ClientInv
BY DEF ClientInit, ClientInv, ClientTypes, Where, OneShared, HeldAwait, HeldForSomething

\* A 401 either ends the request or has it await the refresh there is, or
\* the one it has just started.
LEMMA RefusedStep ==
  ASSUME ClientInv, NEW r \in Request, Refused401(r)
  PROVE  ClientInv'
<1> USE ClientAssumption DEF ClientInv
<1>1. CASE r \in retried
  <2> USE <1>1 DEF Refused401
  <2>1. ClientTypes' /\ OneShared'
    BY DEF ClientTypes, Where, OneShared
  <2>2. HeldAwait' /\ HeldForSomething'
    BY DEF ClientTypes, HeldAwait, HeldForSomething
  <2> QED BY <2>1, <2>2
<1>2. CASE r \notin retried
  <2> USE <1>2 DEF Refused401, JoinRefresh
  <2>1. ClientTypes' /\ OneShared'
    BY DEF ClientTypes, Where, OneShared
  <2>2. HeldAwait'
    BY DEF ClientTypes, HeldAwait, HeldForSomething
  <2>3. HeldForSomething'
    BY DEF ClientTypes, HeldForSomething
  <2> QED BY <2>1, <2>2, <2>3
<1> QED BY <1>1, <1>2

\* A refresh ends: it is the shared one, and all that are held go on.
LEMMA WakeStep ==
  ASSUME ClientInv, NEW s \in Request, Refreshed(s) \/ RefreshFailed(s)
  PROVE  ClientInv'
<1> USE ClientAssumption DEF ClientInv
<1>1. PICK st \in {"sent", "failed"} : s \in refresh /\ Wake(s, st)
  BY DEF Refreshed, RefreshFailed
<1>2. s = refreshPromise /\ refresh' = {} /\ refreshPromise' = NoRequest
  BY <1>1 DEF Wake, OneShared
<1>3. ClientTypes' /\ OneShared'
  BY <1>1, <1>2 DEF Wake, ClientTypes, Where, OneShared
<1>4. HeldAwait' /\ HeldForSomething'
  <2>1. ASSUME NEW r \in Request PROVE request'[r] # "held" /\ awaits'[r] = NoRequest
    <3>1. CASE request[r] = "held"
      BY <1>1, <1>2, <3>1 DEF Wake, HeldAwait
    <3>2. CASE request[r] # "held"
      BY <1>1, <1>2, <3>2 DEF Wake, HeldAwait
    <3> QED BY <3>1, <3>2
  <2> QED BY <1>2, <2>1 DEF HeldAwait, HeldForSomething
<1> QED BY <1>3, <1>4

\* A request that is sent, answered or asked anew is not held.
LEMMA ClientStep ==
  ASSUME ClientInv, NEW r \in Request, Send(r) \/ Answer(r) \/ AskAgain(r)
  PROVE  ClientInv'
<1> USE DEF ClientInv
<1>1. PICK st \in {"idle", "sent", "ok", "failed"} : request' = [request EXCEPT ![r] = st]
  BY DEF Send, Answer, AskAgain, Settled
<1>2. request[r] # "held" /\ UNCHANGED <<refresh, refreshPromise, awaits>>
  BY DEF Send, Answer, AskAgain, Settled
<1>3. ClientTypes' /\ OneShared'
  BY <1>1, <1>2 DEF ClientTypes, Where, OneShared
<1>4. HeldAwait' /\ HeldForSomething'
  BY <1>1, <1>2 DEF ClientTypes, HeldAwait, HeldForSomething
<1> QED BY <1>3, <1>4

\* The invariant holds throughout.
LEMMA ClientInvariant == ClientSpec => []ClientInv
<1>1. ClientInv /\ [ClientNext]_clientVars => ClientInv'
  <2> SUFFICES ASSUME ClientInv, [ClientNext]_clientVars PROVE ClientInv'
    OBVIOUS
  <2>1. CASE ClientNext
    BY <2>1, RefusedStep, WakeStep, ClientStep DEF ClientNext, Network
  <2>2. CASE UNCHANGED clientVars
    BY <2>2 DEF clientVars, ClientInv, ClientTypes, OneShared, HeldAwait, HeldForSomething
  <2> QED BY <2>1, <2>2
<1> QED BY ClientInitInv, <1>1, PTL DEF ClientSpec

\* "Singleton to track in-flight refresh" (lib/api.ts): however many requests
\* are refused together, there is one refresh, and all of them await it.
THEOREM OneRefreshAtATime == ClientSpec => []OneRefresh
<1>1. ClientInv => OneRefresh
  <2> SUFFICES ASSUME ClientInv PROVE OneRefresh
    OBVIOUS
  <2>1. \A p, q \in refresh : p = q
    BY DEF ClientInv, OneShared
  <2>2. \A r \in Request : request[r] = "held" => awaits[r] \in refresh
    BY DEF ClientInv, OneShared, HeldAwait, HeldForSomething
  <2> QED BY <2>1, <2>2 DEF OneRefresh
<1> QED BY <1>1, ClientInvariant, PTL

-----------------------------------------------------------------------------
(***************************************************************************)
(* EventStream.  As long as the tenant never changed while a token was     *)
(* asked for, the refs are right: an EventSource there is, is the one in   *)
(* eventSourceRef, a timer that runs is the one in reconnectTimerRef.  So  *)
(* what connect and cleanup close is all there is.                         *)
(***************************************************************************)
Links == [Link -> [st : {"none", "token", "opening", "open"}, of : Tenant \cup {NoTenant}]]
Timers == [Link -> [on : BOOLEAN, of : Tenant \cup {NoTenant}]]

LinkTypes ==
  /\ link \in Links
  /\ timer \in Timers
  /\ crossed \in BOOLEAN

FreeLinks == \A i \in Link : link[i].st = "none" => link[i] = NoLink

OneLink == \A i, j \in Link : link[i] # NoLink /\ link[j] # NoLink => i = j

OneTimer == \A i, j \in Link : timer[i].on /\ timer[j].on => i = j

LinkOrTimer == \A i, j \in Link : ~(link[i] # NoLink /\ timer[j].on)

RefsRight ==
  \A i \in Link :
    /\ link[i].st \in {"opening", "open"} => eventSource = i
    /\ timer[i].on => timerRef = i

OfTenant ==
  \A i \in Link :
    /\ link[i] # NoLink => link[i].of = tenant
    /\ timer[i].on => timer[i].of = tenant

Alone == OneLink /\ OneTimer /\ LinkOrTimer /\ RefsRight /\ OfTenant

StreamInv == LinkTypes /\ FreeLinks /\ (~crossed => Alone)

\* Nothing is connected before there is a tenant.
LEMMA StreamInitInv == StreamInit => StreamInv
<1> SUFFICES ASSUME StreamInit PROVE StreamInv
  OBVIOUS
<1>1. \A i \in Link : link[i] = NoLink /\ timer[i] = NoTimer
  BY DEF StreamInit
<1>2. LinkTypes
  BY DEF StreamInit, LinkTypes, Links, Timers, NoLink, NoTimer
<1>3. FreeLinks /\ Alone
  BY <1>1 DEF FreeLinks, Alone, OneLink, OneTimer, LinkOrTimer, RefsRight, OfTenant, NoLink, NoTimer
<1> QED BY <1>2, <1>3 DEF StreamInv

\* connect, where no connection and no timer is left, makes one connection.
LEMMA ConnectStep ==
  ASSUME NEW t \in Tenant \cup {NoTenant}, NEW L \in Links,
         \A i \in Link : L[i].st = "none" => L[i] = NoLink,
         timer' \in Timers, crossed' \in BOOLEAN,
         connect(t, L),
         ~crossed' => /\ \A i \in Link : L[i] = NoLink /\ ~timer'[i].on
                      /\ tenant' = t
  PROVE  StreamInv'
<1>1. PICK k : link' = [L EXCEPT ![k] = [st |-> "token", of |-> t]]
  BY DEF connect
<1>2. LinkTypes' /\ FreeLinks'
  BY <1>1 DEF LinkTypes, Links, Timers, FreeLinks
<1>3. ASSUME ~crossed' PROVE Alone'
  <2>1. \A i \in Link : i # k => link'[i] = NoLink
    BY <1>1, <1>3
  <2>2. \A i \in Link : link'[i] # NoLink => link'[i] = [st |-> "token", of |-> t]
    BY <1>1, <1>3
  <2>3. OneLink' /\ OneTimer' /\ LinkOrTimer'
    BY <1>3, <2>1 DEF OneLink, OneTimer, LinkOrTimer
  <2>4. RefsRight' /\ OfTenant'
    BY <1>3, <2>2 DEF RefsRight, OfTenant, NoLink
  <2> QED BY <2>3, <2>4 DEF Alone
<1> QED BY <1>2, <1>3 DEF StreamInv

\* A connection is given up and nothing takes its place.
LEMMA LinkGoneStep ==
  ASSUME StreamInv, NEW i \in Link, link' = [link EXCEPT ![i] = NoLink],
         UNCHANGED <<tenant, timer, timerRef, crossed>>,
         eventSource' = eventSource \/ link[i].st \in {"opening", "open"}
  PROVE  StreamInv'
<1> USE DEF StreamInv
<1>1. LinkTypes' /\ FreeLinks'
  BY DEF LinkTypes, Links, Timers, FreeLinks, NoLink
<1>2. ASSUME ~crossed PROVE Alone'
  <2> USE <1>2 DEF Alone
  <2>1. OneLink' /\ OneTimer' /\ LinkOrTimer'
    BY DEF LinkTypes, Links, Timers, OneLink, OneTimer, LinkOrTimer, NoLink
  <2>2. RefsRight' /\ OfTenant'
    BY DEF LinkTypes, Links, Timers, RefsRight, OfTenant, OneLink, NoLink
  <2> QED BY <2>1, <2>2
<1> QED BY <1>1, <1>2

\* handleReconnect, where a connection failed: its timer is the only one.
LEMMA ReconnectStep ==
  ASSUME StreamInv, NEW i \in Link, link[i].st # "none", link' = [link EXCEPT ![i] = NoLink],
         handleReconnect(link[i].of), UNCHANGED <<tenant, crossed>>
  PROVE  StreamInv'
<1> USE DEF StreamInv
<1>1. PICK k : timer' = [timer EXCEPT ![k] = [on |-> TRUE, of |-> link[i].of]] /\ timerRef' = k
  BY DEF handleReconnect
<1>2. LinkTypes' /\ FreeLinks'
  BY <1>1 DEF LinkTypes, Links, Timers, FreeLinks, NoLink
<1>3. ASSUME ~crossed PROVE Alone'
  <2> USE <1>3 DEF Alone
  <2>1. link[i] # NoLink
    BY DEF NoLink
  <2>2. \A j \in Link : link'[j] = NoLink
    BY <2>1 DEF LinkTypes, Links, Timers, OneLink
  <2>3. \A j \in Link : timer'[j].on => j = k /\ timer'[j].of = tenant
    BY <1>1, <2>1 DEF LinkTypes, Links, Timers, LinkOrTimer, OfTenant
  <2> QED BY <1>1, <2>2, <2>3 DEF OneLink, OneTimer, LinkOrTimer, RefsRight, OfTenant, NoLink
<1> QED BY <1>2, <1>3

\* A token is granted, an EventSource opens.
LEMMA OpenStep ==
  ASSUME StreamInv, NEW i \in Link, TokenGranted(i) \/ onopen(i)
  PROVE  StreamInv'
<1>1. CASE TokenGranted(i) /\ isUnmounted
  BY <1>1, LinkGoneStep DEF TokenGranted
<1>2. CASE (TokenGranted(i) /\ ~isUnmounted) \/ onopen(i)
  <2> USE DEF StreamInv
  <2>1. PICK st \in {"opening", "open"} : link' = [link EXCEPT ![i].st = st]
    BY <1>2 DEF TokenGranted, onopen
  <2>2. UNCHANGED <<tenant, timer, timerRef, crossed>> /\ link[i].st \in {"token", "opening"}
    BY <1>2 DEF TokenGranted, onopen
  <2>3. LinkTypes' /\ FreeLinks'
    BY <2>1, <2>2 DEF LinkTypes, Links, Timers, FreeLinks
  <2>4. ASSUME ~crossed PROVE Alone'
    <3> USE <2>4 DEF Alone
    <3>1. link[i] # NoLink
      BY <2>2 DEF NoLink
    <3>2. \A j \in Link : j # i => link'[j] = NoLink /\ link'[j] = link[j]
      BY <2>1, <3>1 DEF LinkTypes, Links, Timers, OneLink
    <3>3. link'[i].of = tenant /\ eventSource' = i
      BY <1>2, <2>1, <3>1 DEF LinkTypes, Links, Timers, OfTenant, RefsRight, TokenGranted, onopen
    <3> QED BY <2>2, <3>1, <3>2, <3>3 DEF OneLink, OneTimer, LinkOrTimer, RefsRight, OfTenant, NoLink
  <2> QED BY <2>2, <2>3, <2>4
<1> QED BY <1>1, <1>2 DEF TokenGranted

\* A token is refused, an EventSource fails.
LEMMA FailStep ==
  ASSUME StreamInv, NEW i \in Link, TokenRefused(i) \/ onerror(i)
  PROVE  StreamInv'
<1>1. CASE isUnmounted
  BY <1>1, LinkGoneStep DEF TokenRefused, onerror
<1>2. CASE ~isUnmounted
  BY <1>2, ReconnectStep DEF TokenRefused, onerror
<1> QED BY <1>1, <1>2

\* Shut gives links, and gives up the one of the ref.
LEMMA ShutLinks ==
  ASSUME StreamInv
  PROVE  /\ Shut(link) \in Links
         /\ \A i \in Link : Shut(link)[i] = link[i] \/ Shut(link)[i] = NoLink
         /\ eventSource \in Link => Shut(link)[eventSource] = NoLink
<1>1. eventSource \in Link => eventSource # Nil
  BY DEF Link, Nil
<1>2. CASE eventSource = Nil
  BY <1>1, <1>2 DEF Shut, StreamInv, LinkTypes, Links, Timers
<1>3. CASE eventSource # Nil
  BY <1>3 DEF Shut, StreamInv, LinkTypes, Links, Timers, NoLink
<1> QED BY <1>2, <1>3

\* A timer fires: it was the only one, and there was no connection.
LEMMA TimerStep ==
  ASSUME StreamInv, NEW i \in Link, TimerFires(i)
  PROVE  StreamInv'
<1> USE DEF StreamInv
<1>1. /\ timer[i].on /\ timer' = [timer EXCEPT ![i] = NoTimer]
      /\ UNCHANGED <<tenant, crossed>>
  BY DEF TimerFires
<1>2. timer' \in Timers
  BY <1>1 DEF LinkTypes, Links, Timers, NoTimer
<1>3. ~crossed => \A j \in Link : link[j] = NoLink /\ ~timer'[j].on
  BY <1>1 DEF LinkTypes, Links, Timers, Alone, OneTimer, LinkOrTimer, NoTimer
<1>4. CASE isUnmounted
  <2>1. UNCHANGED link
    BY <1>4 DEF TimerFires
  <2> QED BY <1>1, <1>2, <1>3, <2>1
    DEF LinkTypes, Links, Timers, FreeLinks, Alone, OneLink, OneTimer, LinkOrTimer, RefsRight, OfTenant, NoLink
<1>5. CASE ~isUnmounted
  <2>1. connect(timer[i].of, Shut(link))
    BY <1>5 DEF TimerFires
  <2>2. timer[i].of \in Tenant \cup {NoTenant} /\ (~crossed => timer[i].of = tenant)
    BY <1>1 DEF LinkTypes, Links, Timers, Alone, OfTenant
  <2>3. \A j \in Link : Shut(link)[j].st = "none" => Shut(link)[j] = NoLink
    BY ShutLinks DEF FreeLinks
  <2>4. ~crossed => \A j \in Link : Shut(link)[j] = NoLink
    BY <1>3, ShutLinks
  <2>5. crossed' \in BOOLEAN
    BY <1>1 DEF LinkTypes, Links, Timers
  <2> QED BY <1>1, <1>2, <1>3, <2>1, <2>2, <2>3, <2>4, <2>5, ShutLinks, ConnectStep
<1> QED BY <1>4, <1>5

\* cleanup leaves no timer; closing the stream of the ref leaves no
\* connection but one that still asks for its token.
LEMMA CleanupLeaves ==
  ASSUME StreamInv, cleanup
  PROVE  /\ timer' \in Timers
         /\ \A i \in Link : timer'[i].on => timer'[i] = timer[i]
         /\ ~crossed => /\ \A i \in Link : ~timer'[i].on
                        /\ \A i \in Link : Shut(link)[i] # NoLink => Shut(link)[i] = link[i] /\ link[i].st = "token"
<1> USE DEF StreamInv
<1>1. /\ timer' \in Timers
      /\ \A i \in Link : timer'[i].on => timer'[i] = timer[i]
  BY DEF cleanup, LinkTypes, Links, Timers, NoTimer
<1>2. ASSUME ~crossed, NEW i \in Link PROVE ~timer'[i].on
  BY <1>2 DEF cleanup, LinkTypes, Links, Timers, Alone, RefsRight, NoTimer, Link, Nil
<1>3. ASSUME ~crossed, NEW i \in Link, Shut(link)[i] # NoLink
      PROVE  Shut(link)[i] = link[i] /\ link[i].st = "token"
  <2>1. Shut(link)[i] = link[i] /\ eventSource # i
    BY <1>3, ShutLinks
  <2>2. link[i].st \in {"none", "token", "opening", "open"}
    BY DEF LinkTypes, Links, Timers
  <2> QED BY <1>3, <2>1, <2>2 DEF Alone, RefsRight, FreeLinks
<1> QED BY <1>1, <1>2, <1>3

\* The tenant changes.
LEMMA SwitchStep ==
  ASSUME StreamInv, NEW t \in Tenant \cup {NoTenant}, SwitchTenant(t)
  PROVE  StreamInv'
<1>1. cleanup /\ tenant' = t /\ crossed' = (crossed \/ \E i \in Link : link[i].st = "token")
  BY DEF SwitchTenant
<1>2. crossed' \in BOOLEAN /\ (~crossed' => \A i \in Link : Shut(link)[i] = NoLink /\ ~timer'[i].on)
  BY <1>1, CleanupLeaves DEF StreamInv, LinkTypes, Links, Timers
<1>3. \A j \in Link : Shut(link)[j].st = "none" => Shut(link)[j] = NoLink
  BY ShutLinks DEF StreamInv, FreeLinks
<1>4. CASE t = NoTenant
  <2>1. link' = Shut(link)
    BY <1>4 DEF SwitchTenant
  <2>2. LinkTypes' /\ FreeLinks'
    BY <1>1, <1>2, <1>3, <2>1, ShutLinks, CleanupLeaves DEF StreamInv, LinkTypes, FreeLinks
  <2>3. ASSUME ~crossed' PROVE Alone'
    <3>1. \A i \in Link : link'[i] = NoLink /\ ~timer'[i].on
      BY <1>2, <2>1, <2>3
    <3> QED BY <3>1 DEF Alone, OneLink, OneTimer, LinkOrTimer, RefsRight, OfTenant, NoLink
  <2> QED BY <2>2, <2>3 DEF StreamInv
<1>5. CASE t # NoTenant
  <2>1. connect(t, Shut(link))
    BY <1>5 DEF SwitchTenant
  <2> QED BY <1>1, <1>2, <1>3, <2>1, ShutLinks, CleanupLeaves, ConnectStep
<1> QED BY <1>4, <1>5

\* The layout is unmounted: a token that is asked for is all that may be left.
LEMMA UnmountStep ==
  ASSUME StreamInv, Unmount
  PROVE  StreamInv'
<1>1. cleanup /\ link' = Shut(link) /\ UNCHANGED <<tenant, crossed>>
  BY DEF Unmount
<1>2. LinkTypes' /\ FreeLinks'
  BY <1>1, ShutLinks, CleanupLeaves DEF StreamInv, LinkTypes, Links, Timers, FreeLinks
<1>3. ASSUME ~crossed PROVE Alone'
  <2>1. \A i \in Link : ~timer'[i].on /\ (link'[i] # NoLink => link'[i] = link[i] /\ link[i].st = "token")
    BY <1>1, <1>3, CleanupLeaves
  <2>2. OneLink' /\ OneTimer' /\ LinkOrTimer'
    BY <1>3, <2>1 DEF StreamInv, Alone, OneLink, OneTimer, LinkOrTimer
  <2>3. RefsRight' /\ OfTenant'
    BY <1>1, <1>3, <2>1 DEF StreamInv, Alone, RefsRight, OfTenant, NoLink
  <2> QED BY <2>2, <2>3 DEF Alone
<1> QED BY <1>1, <1>2, <1>3 DEF StreamInv

\* The invariant holds throughout.
LEMMA StreamInvariant == StreamSpec => []StreamInv
<1>1. StreamInv /\ [StreamNext]_streamVars => StreamInv'
  <2> SUFFICES ASSUME StreamInv, [StreamNext]_streamVars PROVE StreamInv'
    OBVIOUS
  <2>1. CASE StreamNext
    BY <2>1, OpenStep, FailStep, TimerStep, SwitchStep, UnmountStep DEF StreamNext, LinkSteps
  <2>2. CASE UNCHANGED streamVars
    BY <2>2 DEF streamVars, StreamInv, LinkTypes, Links, Timers, FreeLinks, Alone, OneLink, OneTimer, LinkOrTimer,
                RefsRight, OfTenant
  <2> QED BY <2>1, <2>2
<1> QED BY StreamInitInv, <1>1, PTL DEF StreamSpec

\* One connection or one timer at a time, of the tenant shown, for any number
\* of tenants, changes and failures: connect closes eventSourceRef.current
\* first, and the cleanup of the effect clears both refs
\* (hooks/useEventStream.ts).  Excepted is a change of the tenant while a
\* token was asked for.
THEOREM OneStreamAtATime == StreamSpec => []OneStreamUnlessCrossed
<1>1. StreamInv => OneStreamUnlessCrossed
  <2> SUFFICES ASSUME StreamInv, ~crossed PROVE OneStreamUnlessCrossed
    BY DEF OneStreamUnlessCrossed
  <2> DEFINE busy == {i \in Link : link[i] # NoLink}
             due == {i \in Link : timer[i].on}
  <2>1. (\A i, j \in busy : i = j) /\ (\A i, j \in due : i = j) /\ (busy = {} \/ due = {})
    BY DEF StreamInv, Alone, OneLink, OneTimer, LinkOrTimer
  <2>2. (\A i \in busy : link[i].of = tenant) /\ (\A i \in due : timer[i].of = tenant)
    BY DEF StreamInv, Alone, OfTenant
  <2> QED BY <2>1, <2>2 DEF OneStreamUnlessCrossed
<1> QED BY <1>1, StreamInvariant, PTL

-----------------------------------------------------------------------------
(***************************************************************************)
(* BulkRun.  A visit of the page has one loop at a time, and while it runs *)
(* the page stays at the last step.  Unless the list has moved, the rows   *)
(* that are not skipped are those of the devices the loop has sent to or   *)
(* has still to send to, and those it is done with say how it went.        *)
(***************************************************************************)
RowState == {"no", "pending", "running", "success", "error", "skipped"}

RunState ==
  [st : {"none", "run", "done"}, by : Nat, todo : SUBSET Member, cur : Member \cup {Nobody}, sent : SUBSET Member]

BulkTypes ==
  /\ kind \in {"command", "batch"} /\ mount \in Nat /\ stage \in 1 .. 3
  /\ status \in [Member -> {"online", "offline", "gone"}]
  /\ picked \in [Member -> {"no", "online", "offline"}]
  /\ rows \in [Member -> RowState]
  /\ moved \in BOOLEAN /\ complete \in BOOLEAN
  /\ runs \in [Runs -> RunState]

\* A loop of this visit of the page.
Current(n) == runs[n].st = "run" /\ runs[n].by = mount

Reported == {m \in HasRow : rows[m] # "skipped"}

LoopsOfVisits ==
  /\ \A n \in Runs : runs[n].by <= mount /\ (runs[n].cur # Nobody => runs[n].st = "run" /\ runs[n].cur \in runs[n].sent)
  /\ \A n, k \in Runs : Current(n) /\ Current(k) => n = k

AtLastStep == (isRunning \/ complete => stage = 3) /\ ~(isRunning /\ complete)

SomePicked == stage > 1 => Picked # {}

CommandRows == kind = "command" => ~moved /\ (isRunning \/ complete => HasRow # {})

BatchRows ==
  kind = "batch" /\ stage = 3 /\ ~moved /\ ~complete /\ ~isRunning =>
    rows = [m \in Member |-> IF m \in StillListed THEN "pending" ELSE "no"]

Progress ==
  \A n \in Runs : Current(n) /\ ~moved =>
    /\ Reported = runs[n].todo \cup runs[n].sent
    /\ \A m \in runs[n].sent : m # runs[n].cur => rows[m] \in {"success", "error"}

WizardInv == AtLastStep /\ SomePicked /\ CommandRows /\ BatchRows

BulkInv == BulkTypes /\ LoopsOfVisits /\ WizardInv /\ Progress /\ RunReported

\* isRunning, in terms of Current.
LEMMA RunningIsCurrent == isRunning <=> \E n \in Runs : Current(n)
BY DEF isRunning, Current

\* An empty page, and a loop that has not begun.
LEMMA EmptyTypes ==
  /\ Fold("no") \in [Member -> RowState] /\ Fold("no") \in [Member -> {"no", "online", "offline"}]
  /\ NoRun \in RunState
BY DEF Fold, RowState, NoRun, RunState

\* A page just visited: nothing is picked, no loop is its own.
LEMMA BulkInitInv == BulkInit => BulkInv
<1> SUFFICES ASSUME BulkInit PROVE BulkInv
  OBVIOUS
<1>1. \A n \in Runs : runs[n] = NoRun /\ ~Current(n)
  BY DEF BulkInit, NoRun, Current
<1>2. BulkTypes
  <2>1. /\ rows \in [Member -> RowState] /\ picked \in [Member -> {"no", "online", "offline"}]
        /\ runs \in [Runs -> RunState]
    BY EmptyTypes DEF BulkInit
  <2>2. status \in [Member -> {"online", "offline", "gone"}] /\ mount \in Nat /\ stage \in 1 .. 3
    BY DEF BulkInit
  <2> QED BY <2>1, <2>2 DEF BulkInit, BulkTypes
<1>3. LoopsOfVisits /\ Progress
  <2>1. \A n \in Runs : runs[n].by <= mount /\ runs[n].cur = Nobody
    BY DEF BulkInit, NoRun
  <2> QED BY <1>1, <2>1 DEF LoopsOfVisits, Progress
<1>4. ~isRunning /\ ~complete /\ ~moved /\ stage = 1
  BY <1>1, RunningIsCurrent DEF BulkInit
<1>5. WizardInv /\ RunReported
  BY <1>4 DEF WizardInv, AtLastStep, SomePicked, CommandRows, BatchRows, RunReported
<1> QED BY <1>2, <1>3, <1>5 DEF BulkInv

\* The page is made anew while no loop is its own.
LEMMA FreshStep ==
  ASSUME BulkInv, FreshView, UNCHANGED <<kind, status, runs>>, mount' \in Nat, mount' >= mount,
         \A n \in Runs : ~Current(n)'
  PROVE  BulkInv'
<1>1. BulkTypes'
  <2>1. /\ rows' \in [Member -> RowState] /\ picked' \in [Member -> {"no", "online", "offline"}]
        /\ stage' \in 1 .. 3
    BY EmptyTypes DEF FreshView
  <2> QED BY <2>1 DEF BulkInv, BulkTypes, FreshView
<1>2. LoopsOfVisits'
  BY DEF BulkInv, BulkTypes, RunState, LoopsOfVisits
<1>3. ~isRunning'
  BY DEF isRunning, Current
<1>4. WizardInv' /\ Progress' /\ RunReported'
  BY <1>3 DEF FreshView, WizardInv, AtLastStep, SomePicked, CommandRows, BatchRows, Progress, RunReported
<1> QED BY <1>1, <1>2, <1>4 DEF BulkInv

\* New Command, Start New Batch; another visit, whose loops are yet to come.
LEMMA AnewStep ==
  ASSUME BulkInv, resetWizard \/ Revisit
  PROVE  BulkInv'
<1>1. CASE resetWizard
  BY <1>1, FreshStep, RunningIsCurrent DEF resetWizard, BulkInv, BulkTypes, Current
<1>2. CASE Revisit
  <2>1. mount' = mount + 1 /\ FreshView /\ UNCHANGED <<kind, status, runs>>
    BY <1>2 DEF Revisit
  <2>2. mount \in Nat /\ \A n \in Runs : runs[n].by <= mount
    BY DEF BulkInv, BulkTypes, LoopsOfVisits
  <2>3. \A n \in Runs : ~Current(n)'
    BY <2>1, <2>2 DEF Current
  <2>4. mount' \in Nat /\ mount' >= mount
    BY <2>1, <2>2
  <2> QED BY <2>1, <2>3, <2>4, FreshStep
<1> QED BY <1>1, <1>2

\* Devices are picked, at the first step.
LEMMA PickStep ==
  ASSUME BulkInv, NEW f \in [Member -> {"no", "online", "offline"}], Pick(f)
  PROVE  BulkInv'
<1> USE DEF BulkInv
<1>1. BulkTypes' /\ LoopsOfVisits'
  BY DEF Pick, BulkTypes, LoopsOfVisits, Current
<1>2. isRunning' = isRunning /\ HasRow' = HasRow /\ Reported' = Reported
  BY DEF Pick, isRunning, HasRow, Reported
<1>3. Progress'
  BY <1>2 DEF Pick, Progress, Current
<1>4. WizardInv'
  BY <1>2 DEF Pick, WizardInv, AtLastStep, SomePicked, CommandRows, BatchRows
<1>5. RunReported'
  BY <1>2 DEF Pick, RunReported
<1> QED BY <1>1, <1>3, <1>4, <1>5

\* The selection buttons and check boxes.
LEMMA SelectStep ==
  ASSUME BulkInv,
         (\E m \in Member : toggleDevice(m)) \/ (\E S \in SUBSET Member : selectAll(S))
  PROVE  BulkInv'
<1>1. ASSUME NEW m \in Member, toggleDevice(m) PROVE BulkInv'
  <2>1. [picked EXCEPT ![m] = IF @ = "no" THEN status[m] ELSE "no"] \in [Member -> {"no", "online", "offline"}]
    BY <1>1 DEF toggleDevice, BulkInv, BulkTypes
  <2> QED BY <1>1, <2>1, PickStep DEF toggleDevice
<1>2. ASSUME NEW S \in SUBSET Member, selectAll(S) PROVE BulkInv'
  <2>1. [m \in Member |-> IF m \in S THEN status[m] ELSE "no"] \in [Member -> {"no", "online", "offline"}]
    BY <1>2 DEF selectAll, BulkInv, BulkTypes
  <2> QED BY <1>2, <2>1, PickStep DEF selectAll
<1> QED BY <1>1, <1>2

\* A refetch of the list.
LEMMA MovesStep ==
  ASSUME BulkInv, NEW m \in Member, NEW st \in {"online", "offline", "gone"}, ListMoves(m, st)
  PROVE  BulkInv'
<1> USE DEF BulkInv
<1>1. BulkTypes' /\ LoopsOfVisits'
  BY DEF ListMoves, BulkTypes, LoopsOfVisits, Current
<1>2. isRunning' = isRunning /\ HasRow' = HasRow /\ Picked' = Picked /\ (moved => moved')
  BY DEF ListMoves, isRunning, HasRow, Picked
<1>3. AtLastStep' /\ SomePicked' /\ CommandRows' /\ BatchRows'
  BY <1>2 DEF ListMoves, WizardInv, AtLastStep, SomePicked, CommandRows, BatchRows
<1>4. Progress' /\ RunReported'
  BY <1>2 DEF ListMoves, Progress, RunReported, Current, Reported
<1> QED BY <1>1, <1>3, <1>4 DEF WizardInv

\* Next and Back.
LEMMA WalkStep ==
  ASSUME BulkInv, handleNext \/ handleBack
  PROVE  BulkInv'
<1> USE DEF BulkInv
<1>1. BulkTypes' /\ LoopsOfVisits'
  <2>1. rows' \in [Member -> RowState]
    BY EmptyTypes DEF handleNext, handleBack, BulkTypes, RowState
  <2>2. stage' \in 1 .. 3
    BY DEF handleNext, handleBack, BulkTypes
  <2>3. moved' \in BOOLEAN /\ complete' \in BOOLEAN
    BY DEF handleNext, handleBack, BulkTypes
  <2> QED BY <2>1, <2>2, <2>3 DEF handleNext, handleBack, BulkTypes, LoopsOfVisits, Current
<1>2. ~isRunning /\ ~isRunning' /\ \A n \in Runs : ~Current(n)'
  BY DEF handleNext, handleBack, WizardInv, AtLastStep, isRunning, Current
<1>3. ~complete' /\ Picked' = Picked /\ (stage' > 1 => Picked # {})
  <2>1. ~complete'
    BY DEF handleNext, handleBack, WizardInv, AtLastStep
  <2>2. Picked' = Picked
    BY DEF handleNext, handleBack, Picked
  <2>3. stage' > 1 => Picked # {}
    BY DEF handleNext, handleBack, BulkTypes, WizardInv, SomePicked
  <2> QED BY <2>1, <2>2, <2>3
<1>4. AtLastStep' /\ SomePicked' /\ CommandRows'
  BY <1>2, <1>3 DEF handleNext, handleBack, WizardInv, AtLastStep, SomePicked, CommandRows
<1>5. BatchRows'
  BY DEF handleNext, handleBack, BatchRows, BulkTypes, StillListed, Picked
<1>6. Progress' /\ RunReported'
  BY <1>2, <1>3 DEF Progress, RunReported
<1> QED BY <1>1, <1>4, <1>5, <1>6 DEF WizardInv

\* A loop begins, with the devices that the rows, as they are now, are for.
LEMMA BeginStep ==
  ASSUME BulkInv, NEW n \in Runs, NEW S \in SUBSET Member, Begin(n, S),
         stage = 3, ~isRunning, ~complete,
         UNCHANGED <<kind, status, mount, stage, picked, moved, complete>>,
         rows' \in [Member -> RowState],
         ~moved => Reported' = S, kind = "command" => HasRow' # {}
  PROVE  BulkInv'
<1> USE DEF BulkInv
<1> DEFINE run == [NoRun EXCEPT !.st = "run", !.by = mount, !.todo = S]
<1>1. /\ run \in RunState
      /\ run.st = "run" /\ run.by = mount /\ run.todo = S /\ run.sent = {} /\ run.cur = Nobody
  BY DEF NoRun, RunState, BulkTypes
<1>2. runs' = [runs EXCEPT ![n] = run]
  BY DEF Begin
<1> HIDE DEF run
<1>3. \A k \in Runs : Current(k)' => k = n
  BY <1>1, <1>2 DEF BulkTypes, isRunning, Current
<1>4. BulkTypes'
  BY <1>1, <1>2 DEF BulkTypes
<1>5. LoopsOfVisits'
  <2>1. runs'[n] = run /\ \A k \in Runs : k # n => runs'[k] = runs[k]
    BY <1>2 DEF BulkTypes
  <2>2. mount \in Nat
    BY DEF BulkTypes
  <2>3. runs'[n].by <= mount /\ runs'[n].cur = Nobody
    BY <1>1, <2>1, <2>2
  <2>4. \A k \in Runs : k # n =>
          /\ runs'[k].by <= mount
          /\ runs'[k].cur # Nobody => runs'[k].st = "run" /\ runs'[k].cur \in runs'[k].sent
    BY <2>1 DEF LoopsOfVisits
  <2> QED BY <1>3, <2>3, <2>4 DEF LoopsOfVisits
<1>6. isRunning' /\ Picked' = Picked
  BY <1>1, <1>2 DEF BulkTypes, isRunning, Picked
<1>7. AtLastStep' /\ SomePicked' /\ CommandRows' /\ BatchRows' /\ RunReported'
  BY <1>6 DEF WizardInv, AtLastStep, SomePicked, CommandRows, BatchRows, RunReported
<1>8. Progress'
  BY <1>1, <1>2, <1>3 DEF BulkTypes, Progress
<1> QED BY <1>4, <1>5, <1>7, <1>8 DEF WizardInv

\* executeAll makes its rows from what was picked, handleExecute takes the
\* devices listed, which the rows are for unless the list has moved.
LEMMA ExecuteStep ==
  ASSUME BulkInv, NEW n \in Runs, executeAll(n) \/ handleExecute(n)
  PROVE  BulkInv'
<1> USE DEF BulkInv
<1>1. CASE executeAll(n)
  <2> DEFINE S == {m \in Member : picked[m] = "online"}
  <2>1. /\ stage = 3 /\ ~isRunning /\ HasRow = {} /\ kind = "command" /\ Begin(n, S)
        /\ UNCHANGED <<kind, status, mount, stage, picked, moved, complete>>
        /\ rows' = [m \in Member |-> CASE picked[m] = "no" -> "no" [] picked[m] = "online" -> "pending"
                                       [] OTHER -> "skipped"]
    BY <1>1 DEF executeAll
  <2>2. ~complete
    BY <2>1 DEF WizardInv, CommandRows
  <2>3. \A m \in Member : /\ rows'[m] \in {"no", "pending", "skipped"}
                          /\ rows'[m] = "no" <=> picked[m] = "no"
                          /\ rows'[m] = "pending" <=> picked[m] = "online"
    BY <2>1 DEF BulkTypes
  <2>4. rows' \in [Member -> RowState]
    BY <2>1, <2>3 DEF RowState
  <2>5. Reported' = S /\ HasRow' = Picked
    BY <2>3 DEF Reported, HasRow, Picked
  <2>6. HasRow' # {}
    BY <2>1, <2>5 DEF WizardInv, SomePicked
  <2> QED BY <2>1, <2>2, <2>4, <2>5, <2>6, BeginStep
<1>2. CASE handleExecute(n)
  <2>1. /\ stage = 3 /\ ~isRunning /\ ~complete /\ kind = "batch" /\ Begin(n, StillListed)
        /\ UNCHANGED <<kind, status, mount, stage, picked, moved, complete, rows>>
    BY <1>2 DEF handleExecute, viewVars
  <2>2. StillListed \in SUBSET Member /\ rows' \in [Member -> RowState]
    BY <2>1 DEF BulkTypes, StillListed, Picked
  <2>3. ASSUME ~moved PROVE Reported' = StillListed
    <3>1. rows = [m \in Member |-> IF m \in StillListed THEN "pending" ELSE "no"]
      BY <2>1, <2>3 DEF WizardInv, BatchRows
    <3> QED BY <2>1, <2>2, <3>1 DEF Reported, HasRow
  <2> QED BY <2>1, <2>2, <2>3, BeginStep
<1> QED BY <1>1, <1>2

\* What a step of the loop n may change: its own record, not whose it is, and
\* one row that there is, if the page is the loop's.
LoopChanges(n, run) ==
  /\ runs' = [runs EXCEPT ![n] = run] /\ run.by = runs[n].by
  /\ HasRow' = HasRow
  /\ runs[n].by # mount => rows' = rows
  /\ UNCHANGED <<kind, status, mount, stage, picked, moved>>

\* Marking a row gives no device a row and takes none away.
LEMMA MarkRow ==
  ASSUME BulkInv, NEW n \in Runs, NEW m \in Member, NEW st \in RowState \ {"no"}, Mark(n, m, st)
  PROVE  /\ rows' \in [Member -> RowState] /\ HasRow' = HasRow
         /\ runs[n].by # mount => rows' = rows
         /\ \A k \in Member : k # m => rows'[k] = rows[k]
         /\ runs[n].by = mount /\ m \in HasRow => rows'[m] = st
BY DEF Mark, BulkInv, BulkTypes, HasRow, RowState

\* A step of a loop that does not end it.
LEMMA GoesOnStep ==
  ASSUME BulkInv, NEW n \in Runs, NEW run \in RunState, LoopChanges(n, run), UNCHANGED complete,
         rows' \in [Member -> RowState],
         runs[n].st = "run", run.st = "run", run.cur # Nobody => run.cur \in run.sent,
         Current(n) /\ ~moved =>
           /\ Reported' = run.todo \cup run.sent
           /\ \A m \in run.sent : m # run.cur => rows'[m] \in {"success", "error"}
  PROVE  BulkInv'
<1> USE DEF BulkInv
<1>0. runs'[n] = run /\ \A k \in Runs : k # n => runs'[k] = runs[k]
  BY DEF LoopChanges, BulkTypes
<1>1. \A k \in Runs : Current(k)' <=> Current(k)
  BY <1>0 DEF LoopChanges, Current
<1>2. BulkTypes'
  BY DEF LoopChanges, BulkTypes
<1>3. LoopsOfVisits'
  <2>1. ASSUME NEW k \in Runs
        PROVE  /\ runs'[k].by <= mount
               /\ runs'[k].cur # Nobody => runs'[k].st = "run" /\ runs'[k].cur \in runs'[k].sent
    BY <1>0 DEF LoopChanges, LoopsOfVisits
  <2>2. \A k, l \in Runs : Current(k)' /\ Current(l)' => k = l
    BY <1>1 DEF LoopsOfVisits
  <2> QED BY <2>1, <2>2 DEF LoopChanges, LoopsOfVisits
<1>4. isRunning' = isRunning /\ Picked' = Picked /\ StillListed' = StillListed
  BY <1>1 DEF LoopChanges, isRunning, Current, Picked, StillListed
<1>5. AtLastStep' /\ SomePicked' /\ CommandRows'
  BY <1>4 DEF LoopChanges, WizardInv, AtLastStep, SomePicked, CommandRows
<1>6. BatchRows'
  <2>1. ~isRunning => rows' = rows
    BY DEF LoopChanges, isRunning
  <2> QED BY <1>4, <2>1 DEF LoopChanges, WizardInv, BatchRows
<1>7. Progress'
  <2> SUFFICES ASSUME NEW k \in Runs, Current(k), ~moved
               PROVE  /\ Reported' = runs'[k].todo \cup runs'[k].sent
                      /\ \A m \in runs'[k].sent : m # runs'[k].cur => rows'[m] \in {"success", "error"}
    BY <1>1 DEF LoopChanges, Progress
  <2>1. CASE k = n
    BY <1>0, <2>1 DEF LoopChanges, Current
  <2>2. CASE k # n
    <3>1. ~Current(n)
      BY <2>2 DEF LoopsOfVisits
    <3>2. rows' = rows
      BY <3>1 DEF LoopChanges, Current
    <3> QED BY <1>0, <2>2, <3>2 DEF Progress, Reported, HasRow
  <2> QED BY <2>1, <2>2
<1>8. RunReported'
  <2> SUFFICES ASSUME complete, ~moved PROVE RunReported'
    BY DEF LoopChanges, RunReported
  <2>1. runs[n].by # mount /\ rows' = rows /\ ~isRunning
    BY DEF LoopChanges, WizardInv, AtLastStep, isRunning
  <2> QED BY <1>0, <1>4, <2>1 DEF LoopChanges, RunReported
<1> QED BY <1>2, <1>3, <1>5, <1>6, <1>7, <1>8 DEF WizardInv

\* The loop sends to its next device, which has a row.
LEMMA SendsStep ==
  ASSUME BulkInv, NEW n \in Runs, NEW m \in Member, Sends(n, m)
  PROVE  BulkInv'
<1> DEFINE run == [runs[n] EXCEPT !.cur = m, !.todo = @ \ {m}, !.sent = @ \cup {m}]
<1>0. runs[n] \in RunState /\ DOMAIN runs = Runs
  BY DEF BulkInv, BulkTypes
<1>1. /\ run \in RunState /\ run.st = runs[n].st /\ run.by = runs[n].by /\ run.cur = m
      /\ run.todo = runs[n].todo \ {m} /\ run.sent = runs[n].sent \cup {m}
  BY <1>0 DEF RunState
<1>2. runs' = [runs EXCEPT ![n] = run]
  BY DEF Sends
<1> HIDE DEF run
<1>3. Mark(n, m, "running") /\ "running" \in RowState \ {"no"}
  BY DEF Sends, RowState
<1>4. LoopChanges(n, run) /\ UNCHANGED complete
  BY <1>0, <1>1, <1>2, <1>3, MarkRow DEF Sends, LoopChanges
<1>5. runs[n].st = "run" /\ m \in runs[n].todo /\ runs[n].cur = Nobody
  BY DEF Sends
<1>6. ASSUME Current(n), ~moved
      PROVE  /\ Reported' = run.todo \cup run.sent
             /\ \A k \in run.sent : k # run.cur => rows'[k] \in {"success", "error"}
  <2>1. /\ Reported = runs[n].todo \cup runs[n].sent
        /\ \A k \in runs[n].sent : k # Nobody => rows[k] \in {"success", "error"}
    BY <1>5, <1>6 DEF BulkInv, Progress
  <2>2. rows'[m] = "running" /\ HasRow' = HasRow /\ \A k \in Member : k # m => rows'[k] = rows[k]
    BY <1>3, <1>5, <1>6, <2>1, MarkRow DEF Reported, Current
  <2>3. Reported' = Reported
    BY <1>5, <2>1, <2>2 DEF Reported, HasRow
  <2>4. \A k \in runs[n].sent : k \in Member /\ k # Nobody
    BY <1>0 DEF RunState, Member, Nobody
  <2>5. Reported' = run.todo \cup run.sent
    BY <1>1, <1>5, <2>1, <2>3
  <2>6. ASSUME NEW k \in run.sent, k # m PROVE rows'[k] \in {"success", "error"}
    BY <1>1, <2>1, <2>2, <2>4, <2>6
  <2> QED BY <1>1, <2>5, <2>6
<1> QED BY <1>1, <1>3, <1>4, <1>5, <1>6, MarkRow, GoesOnStep

\* A device has answered, or failed to.
LEMMA AnsweredStep ==
  ASSUME BulkInv, NEW n \in Runs, NEW st \in {"success", "error"}, Answered(n, st)
  PROVE  BulkInv'
<1> DEFINE run == [runs[n] EXCEPT !.cur = Nobody]
           m == runs[n].cur
<1>0. runs[n] \in RunState /\ DOMAIN runs = Runs
  BY DEF BulkInv, BulkTypes
<1>1. /\ run \in RunState /\ run.st = runs[n].st /\ run.by = runs[n].by /\ run.cur = Nobody
      /\ run.todo = runs[n].todo /\ run.sent = runs[n].sent
  BY <1>0 DEF RunState
<1>2. runs' = [runs EXCEPT ![n] = run]
  BY DEF Answered
<1>3. Mark(n, m, st) /\ st \in RowState \ {"no"} /\ m \in Member
  BY <1>0 DEF Answered, RowState, RunState
<1> HIDE DEF run, m
<1>4. LoopChanges(n, run) /\ UNCHANGED complete
  BY <1>0, <1>1, <1>2, <1>3, MarkRow DEF Answered, LoopChanges
<1>5. runs[n].st = "run" /\ m \in runs[n].sent
  BY DEF Answered, BulkInv, LoopsOfVisits, m
<1>6. ASSUME Current(n), ~moved
      PROVE  /\ Reported' = run.todo \cup run.sent
             /\ \A k \in run.sent : k # run.cur => rows'[k] \in {"success", "error"}
  <2>1. /\ Reported = runs[n].todo \cup runs[n].sent
        /\ \A k \in runs[n].sent : k # m => rows[k] \in {"success", "error"}
    BY <1>6 DEF BulkInv, Progress, m
  <2>2. /\ HasRow' = HasRow /\ \A k \in Member : k # m => rows'[k] = rows[k]
        /\ m \in HasRow => rows'[m] = st
    BY <1>3, <1>6, MarkRow DEF Current
  <2>3. m \in HasRow /\ rows'[m] = st /\ rows[m] # "skipped"
    BY <1>5, <2>1, <2>2 DEF Reported
  <2>4. Reported' = Reported
    BY <2>2, <2>3 DEF Reported, HasRow
  <2>5. \A k \in runs[n].sent : k \in Member
    BY <1>0 DEF RunState
  <2> QED BY <1>1, <2>1, <2>2, <2>3, <2>4, <2>5
<1> QED BY <1>1, <1>3, <1>4, <1>5, <1>6, MarkRow, GoesOnStep

\* The loop is over: all its devices have been sent to, and have answered.
LEMMA EndsStep ==
  ASSUME BulkInv, NEW n \in Runs, Ends(n)
  PROVE  BulkInv'
<1> USE DEF BulkInv
<1> DEFINE run == [runs[n] EXCEPT !.st = "done"]
<1>0. runs[n] \in RunState /\ DOMAIN runs = Runs
  BY DEF BulkTypes
<1>1. /\ run \in RunState /\ run.st = "done" /\ run.by = runs[n].by /\ run.cur = Nobody
      /\ run.todo = runs[n].todo /\ run.sent = runs[n].sent
  BY <1>0 DEF RunState, Ends
<1>2. runs' = [runs EXCEPT ![n] = run] /\ UNCHANGED <<kind, status, mount, stage, picked, rows, moved>>
  BY DEF Ends
<1> HIDE DEF run
<1>3. /\ \A k \in Runs : k # n => runs'[k] = runs[k]
      /\ runs'[n] = run
  BY <1>0, <1>2
<1>4. \A k \in Runs : Current(k)' <=> Current(k) /\ k # n
  BY <1>1, <1>2, <1>3 DEF Current
<1>5. BulkTypes'
  BY <1>0, <1>1, <1>2 DEF BulkTypes, Ends
<1>6. LoopsOfVisits'
  BY <1>1, <1>2, <1>3, <1>4 DEF LoopsOfVisits
<1>7. Progress'
  BY <1>2, <1>3, <1>4 DEF Progress, Reported, HasRow
<1>8. HasRow' = HasRow /\ Picked' = Picked /\ StillListed' = StillListed
  BY <1>2 DEF HasRow, Picked, StillListed
<1>9. CASE runs[n].by # mount
  <2>1. isRunning' = isRunning /\ complete' = complete
    BY <1>4, <1>9, RunningIsCurrent DEF isRunning, Current, Ends
  <2>2. AtLastStep' /\ SomePicked' /\ CommandRows' /\ BatchRows'
    <3>1. AtLastStep' /\ SomePicked'
      BY <1>2, <1>8, <2>1 DEF WizardInv, AtLastStep, SomePicked
    <3>2. CommandRows' /\ BatchRows'
      BY <1>2, <1>8, <2>1 DEF WizardInv, CommandRows, BatchRows
    <3> QED BY <3>1, <3>2
  <2>3. RunReported'
    <3> SUFFICES ASSUME complete, ~moved PROVE RunReported'
      BY <1>2, <2>1 DEF RunReported
    <3>1. PICK k \in Runs : runs[k].by = mount /\ runs[k].sent = {m \in HasRow : rows[m] # "skipped"}
      BY DEF RunReported
    <3>2. runs'[k] = runs[k]
      BY <1>3, <1>9, <3>1
    <3>3. (\A m \in HasRow : rows[m] \in Final) /\ ~isRunning
      BY DEF RunReported
    <3> QED BY <1>2, <1>8, <2>1, <3>1, <3>2, <3>3 DEF RunReported
  <2> QED BY <1>5, <1>6, <1>7, <2>2, <2>3 DEF WizardInv
<1>10. CASE runs[n].by = mount
  <2>1. Current(n) /\ isRunning /\ complete'
    BY <1>10 DEF Current, isRunning, Ends
  <2>2. \A k \in Runs : ~Current(k)'
    BY <1>4, <2>1 DEF LoopsOfVisits
  <2>3. ~isRunning'
    BY <2>2 DEF isRunning, Current
  <2>4. AtLastStep' /\ SomePicked' /\ CommandRows' /\ BatchRows'
    BY <1>2, <1>8, <2>1, <2>3 DEF WizardInv, AtLastStep, SomePicked, CommandRows, BatchRows
  <2>5. RunReported'
    <3> SUFFICES ASSUME ~moved
                 PROVE  /\ \A m \in HasRow : rows[m] \in Final
                        /\ run.sent = Reported
      BY <1>1, <1>2, <1>3, <1>8, <1>10, <2>3 DEF RunReported, Reported
    <3>1. /\ Reported = runs[n].sent
          /\ \A m \in runs[n].sent : m # Nobody => rows[m] \in {"success", "error"}
      BY <2>1 DEF Progress, Ends
    <3>2. Nobody \notin Member
      BY DEF Nobody, Member
    <3> QED BY <1>1, <3>1, <3>2 DEF Reported, HasRow, Final
  <2> QED BY <1>5, <1>6, <1>7, <2>4, <2>5 DEF WizardInv
<1> QED BY <1>9, <1>10

\* The invariant holds throughout.
LEMMA BulkInvariant == BulkSpec => []BulkInv
<1>1. BulkInv /\ [BulkNext]_bulkVars => BulkInv'
  <2> SUFFICES ASSUME BulkInv, [BulkNext]_bulkVars PROVE BulkInv'
    OBVIOUS
  <2>1. CASE BulkNext
    BY <2>1, SelectStep, MovesStep, WalkStep, AnewStep, ExecuteStep, SendsStep, AnsweredStep, EndsStep
    DEF BulkNext, RunSteps
  <2>2. CASE UNCHANGED bulkVars
    <3>1. UNCHANGED <<kind, status, mount, stage, picked, rows, moved, complete, runs>>
      BY <2>2 DEF bulkVars, viewVars
    <3>2. (BulkTypes /\ LoopsOfVisits)'
      BY <3>1 DEF BulkInv, BulkTypes, LoopsOfVisits, Current
    <3>3. UNCHANGED <<isRunning, HasRow, Picked, StillListed, Reported>>
      BY <3>1 DEF isRunning, HasRow, Picked, StillListed, Reported
    <3>4. (WizardInv /\ Progress /\ RunReported)'
      BY <3>1, <3>3 DEF BulkInv, WizardInv, AtLastStep, SomePicked, CommandRows, BatchRows, Progress,
                        RunReported, Current
    <3> QED BY <3>2, <3>4 DEF BulkInv
  <2> QED BY <2>1, <2>2
<1> QED BY BulkInitInv, <1>1, PTL DEF BulkSpec

\* The result tables of the bulk wizards (operations/BulkCommandWizard.tsx,
\* config/BatchConfigPanel.tsx) are complete when they say so: for any fleet
\* and any number of runs and visits, every row has its outcome and every
\* device written to has a row, unless the list moved under the batch panel.
THEOREM RunsAreReported == BulkSpec => []RunReported
<1>1. BulkInv => RunReported
  BY DEF BulkInv
<1> QED BY <1>1, BulkInvariant, PTL

-----------------------------------------------------------------------------
(***************************************************************************)
(* Adoption.  Until the probes begin nothing is shown and nothing retried; *)
(* a second test that ends while they run is excepted; the poll has no     *)
(* suggestions of its own.  So what a device that was switched has in      *)
(* verifyResults.current suggests nothing, and everything shown from then  *)
(* on is made from that.                                                   *)
(***************************************************************************)
Status == {"none", "waiting", "online", "unreachable", "uncheckable", "timeout"}
Results == [Host -> [st : Status, suggests : BOOLEAN]]

WizardTypes ==
  /\ results \in Results /\ current \in Results /\ shown \in Results
  /\ retrying \subseteq Host /\ switched \subseteq Host

QuietBefore ==
  phase \in {"idle", "importing", "assigning"} =>
    shown = NoResults /\ current = NoResults /\ retrying = {} /\ switched = {}

ProbedOverlap == phase = "probing" => switched \subseteq overlapped

PollSuggestsNothing == phase = "polling" => \A h \in Host : ~results[h].suggests

KeptAndShown == \A h \in switched \ overlapped : ~current[h].suggests /\ ~shown[h].suggests

AdoptionInv == WizardTypes /\ QuietBefore /\ ProbedOverlap /\ PollSuggestsNothing /\ KeptAndShown

\* What the helpers on results return: results, and {...a, ...b} suggests a
\* switch only where a or b does.
LEMMA MergeResults ==
  ASSUME NEW a \in Results, NEW b \in Results
  PROVE  /\ Merge(a, b) \in Results
         /\ \A h \in Host : ~a[h].suggests /\ ~b[h].suggests => ~Merge(a, b)[h].suggests
BY DEF Results, Merge, NoResult

\* Over writes a status without a suggestion for some devices.
LEMMA OverResults ==
  ASSUME NEW r \in Results, NEW S, NEW st \in Status
  PROVE  /\ Over(r, S, st) \in Results
         /\ \A h \in Host : ~r[h].suggests => ~Over(r, S, st)[h].suggests
BY DEF Results, Over, Is

\* No entries: results, none of which suggests anything.
LEMMA NoResultsResults == NoResults \in Results /\ \A h \in Host : ~NoResults[h].suggests
BY DEF Results, Status, NoResults, NoResult

\* Nothing is shown when the wizard is opened.
LEMMA AdoptionInitInv == AdoptionInit => AdoptionInv
BY NoResultsResults
DEF AdoptionInit, AdoptionInv, WizardTypes, QuietBefore, ProbedOverlap, PollSuggestsNothing, KeptAndShown

\* The steps that lead to the verification change no result.
LEMMA WizardStep ==
  ASSUME AdoptionInv,
         UNCHANGED <<verifyVars, retryVars>>,
         phase' \notin {"probing", "polling"} \/ phase' = phase,
         phase' \in {"idle", "importing", "assigning"} => phase \in {"idle", "importing", "assigning"}
  PROVE  AdoptionInv'
BY DEF AdoptionInv, WizardTypes, QuietBefore, ProbedOverlap, PollSuggestsNothing, KeptAndShown,
       verifyVars, retryVars

\* runVerification begins: no device was switched so far.
LEMMA StartStep ==
  ASSUME AdoptionInv, StartVerification
  PROVE  AdoptionInv'
<1>1. results' \in Results
  BY NoResultsResults, OverResults DEF StartVerification, Status
<1>2. switched = {} /\ retrying = {} /\ UNCHANGED <<current, retryVars>> /\ phase' \in {"verified", "probing"}
  BY DEF AdoptionInv, QuietBefore, StartVerification
<1>3. shown' \in Results
  BY <1>1, MergeResults DEF AdoptionInv, WizardTypes, StartVerification
<1> QED BY <1>1, <1>2, <1>3
  DEF AdoptionInv, WizardTypes, QuietBefore, ProbedOverlap, PollSuggestsNothing, KeptAndShown, retryVars

\* The probe loop is over: who was switched while it ran is excepted, and the
\* poll that may follow begins with "waiting" everywhere.
LEMMA EndProbesStep ==
  ASSUME AdoptionInv, phase = "probing", UNCHANGED retryVars,
         NEW r \in Results, NEW open, EndProbes(r, open)
  PROVE  AdoptionInv'
<1>1. results' \in Results /\ \A h \in Host : ~results'[h].suggests
  BY NoResultsResults, OverResults DEF EndProbes, Status
<1>2. Merge(current, r) \in Results
  BY MergeResults DEF AdoptionInv, WizardTypes
<1>3. current' \in Results /\ shown' \in Results
  BY <1>1, <1>2, MergeResults DEF EndProbes
<1>4. phase' \in {"verified", "polling"} /\ switched \subseteq overlapped
  BY DEF EndProbes, AdoptionInv, ProbedOverlap
<1> QED BY <1>1, <1>3, <1>4
  DEF AdoptionInv, WizardTypes, QuietBefore, ProbedOverlap, PollSuggestsNothing, KeptAndShown, retryVars

\* A probe is answered, or the endpoint is missing or limited.
LEMMA ProbeStep ==
  ASSUME AdoptionInv, NEW h \in Host,
         ProbeStops(h) \/ \E r \in ProbeResult : Probe(h, r)
  PROVE  AdoptionInv'
<1> USE DEF AdoptionInv
<1>1. CASE ProbeStops(h)
  BY <1>1, EndProbesStep DEF ProbeStops, WizardTypes
<1>2. ASSUME NEW r \in ProbeResult, Probe(h, r) PROVE AdoptionInv'
  <2> DEFINE now == [results EXCEPT ![h] = r]
  <2>1. now \in Results
    <3>1. r \in [st : Status, suggests : BOOLEAN]
      <4>1. \A s \in Status : Is(s) \in [st : Status, suggests : BOOLEAN]
        BY DEF Is
      <4>2. [st |-> "unreachable", suggests |-> TRUE] \in [st : Status, suggests : BOOLEAN]
        BY DEF Status
      <4> QED BY <4>1, <4>2 DEF ProbeResult, Status
    <3> QED BY <3>1 DEF WizardTypes, Results
  <2>2. phase = "probing" /\ UNCHANGED retryVars
    BY <1>2 DEF Probe
  <2>3. CASE toProbe = {h}
    BY <1>2, <2>1, <2>2, <2>3, EndProbesStep DEF Probe
  <2>4. CASE toProbe # {h}
    <3>1. results' = now /\ shown' = Merge(current, now) /\ UNCHANGED <<phase, current>>
      BY <1>2, <2>4 DEF Probe
    <3>2. shown' \in Results
      BY <2>1, <3>1, MergeResults DEF WizardTypes
    <3> QED BY <2>1, <2>2, <3>1, <3>2
      DEF WizardTypes, QuietBefore, ProbedOverlap, PollSuggestsNothing, KeptAndShown, retryVars
  <2> QED BY <2>3, <2>4
<1> QED BY <1>1, <1>2

\* The poll reports r, which suggests nothing, and goes on or ends.
LEMMA UpdateStep ==
  ASSUME AdoptionInv, phase = "polling", UNCHANGED retryVars,
         NEW r \in Results, \A h \in Host : ~r[h].suggests, onUpdate(r),
         results' \in Results, \A h \in Host : ~results'[h].suggests,
         phase' \in {"polling", "verified"}
  PROVE  AdoptionInv'
<1>1. current' \in Results /\ shown' = current'
  BY MergeResults DEF onUpdate, AdoptionInv, WizardTypes
<1>2. \A h \in switched \ overlapped : ~current'[h].suggests
  BY MergeResults DEF onUpdate, AdoptionInv, WizardTypes, KeptAndShown
<1> QED BY <1>1, <1>2
  DEF AdoptionInv, WizardTypes, QuietBefore, ProbedOverlap, PollSuggestsNothing, KeptAndShown, retryVars

\* A round of the poll, or one whose list fails.
LEMMA PollStep ==
  ASSUME AdoptionInv,
         PollFails \/ \E f \in [Unsettled -> {"waiting", "online", "unreachable"}] : PollRound(f)
  PROVE  AdoptionInv'
<1>0. phase = "polling" => results \in Results /\ \A h \in Host : ~results[h].suggests
  BY DEF AdoptionInv, WizardTypes, PollSuggestsNothing
<1>1. CASE PollFails
  <2> DEFINE end == [h \in Host |-> IF results[h].st = "waiting" THEN Is("timeout") ELSE results[h]]
  <2>1. phase = "polling" /\ UNCHANGED retryVars
    BY <1>1 DEF PollFails
  <2>2. end \in Results /\ \A h \in Host : ~end[h].suggests
    BY <1>0, <2>1 DEF Results, Status, Is
  <2>3. CASE attempt + 1 < MaxAttempts
    BY <1>1, <2>3
    DEF PollFails, AdoptionInv, WizardTypes, QuietBefore, ProbedOverlap, PollSuggestsNothing, KeptAndShown, retryVars
  <2>4. CASE ~(attempt + 1 < MaxAttempts)
    BY <1>1, <2>1, <2>2, <2>4, UpdateStep, NoResultsResults DEF PollFails
  <2> QED BY <2>3, <2>4
<1>2. ASSUME NEW f \in [Unsettled -> {"waiting", "online", "unreachable"}], PollRound(f)
      PROVE  AdoptionInv'
  <2> DEFINE read == [h \in Host |-> IF h \in Unsettled THEN Is(f[h]) ELSE results[h]]
             end == [h \in Host |-> IF read[h].st = "waiting" THEN Is("timeout") ELSE read[h]]
             over == attempt + 1 = MaxAttempts \/ \A h \in Watched : IsSettled(read[h])
  <2>1. phase = "polling" /\ UNCHANGED retryVars
    BY <1>2 DEF PollRound
  <2>2. read \in Results /\ \A h \in Host : ~read[h].suggests
    BY <1>0, <2>1 DEF Results, Status, Is
  <2>3. end \in Results /\ \A h \in Host : ~end[h].suggests
    BY <2>2 DEF Results, Status, Is
  <2>4. /\ results' = IF over THEN NoResults ELSE read
        /\ onUpdate(IF over THEN end ELSE read)
        /\ phase' = IF over THEN "verified" ELSE "polling"
    BY <1>2 DEF PollRound
  <2> HIDE DEF read, end, over
  <2> QED BY <2>1, <2>2, <2>3, <2>4, UpdateStep, NoResultsResults
<1> QED BY <1>1, <1>2

\* The second test ends: its result, without a suggestion, is kept and shown.
LEMMA RetriedStep ==
  ASSUME AdoptionInv, NEW h \in Host, NEW st \in Status, Retried(h, Is(st))
  PROVE  AdoptionInv'
<1> USE DEF AdoptionInv
<1>1. phase \notin {"idle", "importing", "assigning"}
  BY DEF QuietBefore, Retried
<1>2. WizardTypes'
  BY DEF WizardTypes, Retried, Results, Is
<1>3. KeptAndShown'
  BY DEF KeptAndShown, ProbedOverlap, WizardTypes, Results, Retried, Is
<1>4. QuietBefore' /\ ProbedOverlap' /\ PollSuggestsNothing'
  BY <1>1 DEF QuietBefore, ProbedOverlap, PollSuggestsNothing, Retried
<1> QED BY <1>2, <1>3, <1>4

\* A device is retried because a suggestion is shown for it, or its test ends.
LEMMA RetryStep ==
  ASSUME AdoptionInv, NEW h \in Host, Retry(h) \/ RetryEnds(h)
  PROVE  AdoptionInv'
<1>1. CASE Retry(h)
  BY <1>1, NoResultsResults
  DEF Retry, AdoptionInv, WizardTypes, QuietBefore, ProbedOverlap, PollSuggestsNothing, KeptAndShown, verifyVars
<1>2. CASE RetryEnds(h)
  <2>1. \A r \in ProbeResult : r.st \in Status
    BY DEF ProbeResult, Status, Is
  <2>2. current[h].st \in Status
    BY DEF AdoptionInv, WizardTypes, Results
  <2> QED BY <1>2, <2>1, <2>2, RetriedStep DEF RetryEnds, RetryFails, RetryAnswers, Status
<1> QED BY <1>1, <1>2

\* The wizard is left: everything is forgotten.
LEMMA LeaveStep ==
  ASSUME AdoptionInv, Leave
  PROVE  AdoptionInv'
BY NoResultsResults
DEF Leave, AdoptionInv, WizardTypes, QuietBefore, ProbedOverlap, PollSuggestsNothing, KeptAndShown

\* The invariant holds throughout.
LEMMA AdoptionInvariant == AdoptionSpec => []AdoptionInv
<1>1. AdoptionInv /\ [AdoptionNext]_adoptionVars => AdoptionInv'
  <2> SUFFICES ASSUME AdoptionInv, [AdoptionNext]_adoptionVars PROVE AdoptionInv'
    OBVIOUS
  <2>1. ASSUME NEW S \in SUBSET Host,
               scan(S) \/ Choose(S) \/ ImportFails(S) \/ \E n \in 0 .. 1 : ImportAnswers(S, n)
        PROVE  AdoptionInv'
    BY <2>1, WizardStep DEF scan, Choose, ImportFails, ImportAnswers
  <2>2. ASSUME NEW n \in 1 .. 5, Walk(n) PROVE AdoptionInv'
    BY <2>2, WizardStep DEF Walk
  <2>3. CASE runImport \/ Assign
    BY <2>3, WizardStep DEF runImport, Assign
  <2>4. CASE Verification
    BY <2>3, <2>4, StartStep, ProbeStep, PollStep DEF Verification
  <2>5. CASE UNCHANGED adoptionVars
    BY <2>5, WizardStep DEF adoptionVars
  <2> QED BY <2>1, <2>2, <2>3, <2>4, <2>5, LeaveStep, RetryStep DEF AdoptionNext
<1> QED BY AdoptionInitInv, <1>1, PTL DEF AdoptionSpec

\* "Drop the suggestion either way so the action cannot repeat"
\* (fleet/AdoptionWizard.tsx): for any number of devices and of rounds, a
\* device that was switched and tested again is not offered the switch again,
\* unless its test ended while the probe loop was running.
THEOREM SwitchIsOfferedOnce == AdoptionSpec => []SwitchedOnce
<1>1. AdoptionInv => SwitchedOnce
  BY DEF AdoptionInv, KeptAndShown, SwitchedOnce
<1> QED BY <1>1, AdoptionInvariant, PTL
=============================================================================
