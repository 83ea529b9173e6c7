# TLA+ models of The Other Dude

The Other Dude (TOD) manages fleets of MikroTik routers. This directory holds TLA+ models of
its concurrent parts, of the services behind it and of the web console in front of it, the
TLC runs that check them on small instances, and TLAPS proofs of the main safety properties
for every instance. All paths below are relative to `src/`.

1. [The system](#1-the-system)
2. [How the models correspond to the code](#2-how-the-models-correspond-to-the-code)
3. [Runs](#3-runs)
4. [Bounds](#4-bounds)
5. [Fairness](#5-fairness)
6. [Proofs](#6-proofs)
7. [Where code and comments disagree](#7-where-code-and-comments-disagree)
8. [What is only model-checked, and what is not modelled](#8-what-is-only-model-checked-and-what-is-not-modelled)

## 1. The system

| process | language | role |
|---|---|---|
| console (`frontend`) | TypeScript, React | the operator's pages: what is staged, selected, typed and shown, and the requests that are out |
| API (`backend/app`) | Python, FastAPI, asyncio | users, tenants, devices, alerts, config pushes, firmware, browser sessions |
| poller (`poller`) | Go | polls devices, backs up configurations, opens tunnels, relays SSH |
| WinBox worker (`winbox-worker`) | Go | runs WinBox under xpra for the browser |
| PostgreSQL, Redis, NATS JetStream, OpenBao | | rows; locks, tokens, session records; events and requests; encryption keys |

How they interact, as far as state is concerned:

* The poller reads the device table every refresh period and runs one goroutine per device
  and replica. Replicas exclude each other with a Redis lock per device. Poll results go to
  the API over NATS.
* A poll needs credentials: the row's ciphertext is decrypted by OpenBao and cached in the
  poller. The API announces credential changes over NATS.
* A browser WinBox session exists in three places at once: a Redis record written by the
  API, a session of the worker, and a tunnel of the poller. A periodic sweep in the API
  repairs disagreements.
* An SSH terminal is a token in Redis, issued by the API and consumed by the poller's relay,
  which then bridges a WebSocket to the router.
* A config push runs in the API under RouterOS safe mode; the poller watches for devices that
  disappear after a push and asks the API to roll back.
* The console talks to the API with requests, each answered, refused or lost, and listens to
  one event stream per tenant. Its components are event handlers over their own state; what
  makes it concurrent is that answers, timers, refetches and the operator come in any order.

The full inventory of parts, with what is modelled of each, is `components` in
`PROJECT.json`. What is hard to test in them is `hazards` in the same file.

| part | sources | module |
|---|---|---|
| WinBox worker | `winbox-worker/internal/session`, `cmd/worker/main.go` | `WinboxWorker` |
| tunnel manager | `poller/internal/tunnel` | `TunnelManager` |
| SSH relay and its audit events | `poller/internal/sshrelay`, `store/devices.go`, `session_audit_subscriber.py` | `SshRelay` |
| poll scheduler | `poller/internal/poller/scheduler.go` | `PollScheduler`, `CircuitBreaker` |
| credential cache | `poller/internal/vault`, `bus/credential_subscriber.go`, `services/device.py` | `CredentialCache` |
| browser WinBox sessions | `backend/app/routers/winbox_remote.py`, `services/winbox_remote.py`, `services/winbox_reconcile.py` | `WinboxRemote` |
| staged configuration changes | `frontend/src/hooks/useConfigPanel.ts` | `ConfigPanel`, implementing `ChangeLedger` |
| forms of the configuration panels | `frontend/src/components/config`, `simple-config` | `PanelForm`, `PanelCatalogue`, `SimpleCatalogue` |
| event stream | `frontend/src/hooks/useEventStream.ts` | `EventStream` |
| HTTP client | `frontend/src/lib/api.ts` | `ApiClient` |
| bulk commands, batch changes | `operations/BulkCommandWizard.tsx`, `config/BatchConfigPanel.tsx` | `BulkRun` |
| adoption of devices | `fleet/AdoptionWizard.tsx`, `fleet/adoptionVerify.ts` | `Adoption` |
| pages of records | 27 pages under `frontend/src/components` and `routes` | `RecordPage`, `PageCatalogue` |
| config push, firmware, alerts, links, backups, SSE, VPN, ... | `backend/app/services` | not modelled, section 8 |

## 2. How the models correspond to the code

`map` in `PROJECT.json` gives the source lines of every definition. Definitions keep the
name of the function they model where there is one. A definition marked "Mutant" is a
deliberately wrong variant of the definition after it; it is not part of the model and
serves to show that a property depends on the code.

**`WinboxWorker`.** A session owns a display, a WebSocket port, an xpra process and an Xvfb.
One step is one critical section of `m.mu` / `sess.mu`, or one call made outside the locks.
Five kinds of goroutine interleave: the creator (`cpc`), the one effective
`terminateSession` (`tpc`, with its local snapshot in `snapProc`, `snapDir`), the exit
watcher, the 30 s cleanup loop (`poll`, which keeps the values it copied before the
unlocked xpra query) and the grace timers (`armed`, and `expiry` for callbacks that have
started). Deadlines succeed or fail freely: time is abstract. `Faults` selects which of
mkdir failure, start failure, spontaneous exit and survival of SIGKILL can happen.

**`TunnelManager`.** A tunnel goes through listen, register, open, unmapped, wait, release,
closed. `closer` holds the three goroutines that may call `CloseTunnel`: the NATS handler,
the idle loop and Shutdown. A connection is accepted, counted (`conns.Add`), dialled and
proxied; the gap between Accept and Add is a state of its own. Connections are slots that are
used again when `handleConn` returns. `foreign` is the set of ports another program has
bound.

**`SshRelay`.** One request per WebSocket: token consumed (`validateToken`), limits checked,
device looked up, dialled, host key pinned, registered, ended. The idle loop, Shutdown, the
router (which may change its key), the publication of end events (which may fail) and their
consumer in the API run beside it. Sessions become idle nondeterministically. The two
fingerprints a handler holds (`known`, `seen`) are cleared once it no longer reads them.

**`PollScheduler`.** `rows` is the device table. A loop is one goroutine; its replica and
device are constants (`RepOf`, `DevOf`), so a device that is removed and comes back uses
another loop. A poll obtains the lock, collects, releases, and counts the outcome for the
circuit breaker. Redis calls may fail, with or without effect on the server. `lost` records
polls whose lock expired under them. Replicas shut down and restart.

**`CircuitBreaker`.** The backoff arithmetic in 64-bit words, as operators without state. A
word is the set of positions of its one bits, so that shifting out of the word is visible.
`MCPollScheduler` joins it to the scheduler: whenever a loop is in backoff, the duration
computed for its failure count is compared with the one that the comment gives, in unbounded
arithmetic (`documentedBackoff`).

**`CredentialCache`.** `row` holds versions of the device's own and of its profile's
credentials, `copy` the rows the polling loops were started with, `pending` the events on
their way, `cache` the entries by replica and source. A caller picks the source, looks in the
cache, decrypts and stores in separate steps. Editing is event first, commit after
(`draft`). Events can be lost, and reach one replica only.

**`WinboxRemote`.** The composition across services. It has the whole create request with
every rollback path, termination, the WebSocket's re-save of the record, and both passes of
the sweep. Worker and poller appear by their promises: the worker has a session or not, may
lose it at any time, and its DELETE is idempotent; a tunnel may end at any time.
`WinboxWorker` and `TunnelManager` are the detailed models of those two. One step is one
awaited call. Failed calls and restarts draw on one budget, `faults`.

Three modelling decisions of `WinboxRemote` deserve mention.

* `Ages` (a session reaches `ORPHAN_MIN_AGE_SECONDS`, 120 s) is not enabled while the
  session's create request is between POST and save. The worker client's timeout is 15 s with
  5 s to connect, so the request is over long before. A Redis that hangs for two minutes
  between the answer and the save would break this; the sweep itself asks the same Redis
  before it acts.
* There is one API replica, which is what the docstring of `reconcile_loop` assumes.
* A record outlives its session: its TTL is `max_lifetime + 60` s, and 14400 s after the
  WebSocket's re-save, which is the largest lifetime a request may ask for.

**`ConfigPanel`.** One panel of the device page. `pending` is the list of staged changes,
numbered in the order of staging; an apply takes the list as it is when it is confirmed and
sends one change after the other (`Loop`), each executed, refused, or executed with its answer
lost. `onSuccess` clears the list of the panel if it is still mounted,
whatever is on it by then; `onError` leaves it. Choosing
another tab unmounts the panel (`Remount`), and the loop goes on. `fetch` is the request of
the table's rows, `unseen` whether the table lacks an effect and whether a request that will
bring it is due.

**`ChangeLedger`.** What the panel promises: a change is made and listed, the list is approved
as a whole, and an approval lets a change take effect once or is withdrawn; clearing the list
takes no approval back. `ImplementsLedger` maps the panel to it:
the changes that running applies still have to send are the approved ones, the counts of
executions the effects.

**`PanelForm`, `PanelCatalogue`, `SimpleCatalogue`.** The forms of the 30 panels do four things
with a field, each in a handful of ways: load it from the row, let the operator change it,
decide whether it is sent, compare it with something. The catalogues read these off each
panel, form by form, in the vocabulary at the top of `PanelCatalogue`; the comment beside a
word is the code it stands for. `PanelForm` follows one field of one form through opening,
typing, saving, applying, refetching, and changes that others make on the device; `base` is the
value of the row that the form was loaded from. TLC takes every combination that occurs in the
catalogues (`PageFields`).

**`EventStream`.** A link is a `connect` call with the token it waits for and the stream it
opens; a timer is a `setTimeout` of `handleReconnect`. Both carry the tenant of the closure
that made them. `crossed` records that the tenant changed while a token was asked for; the
answer then opens a stream beside the new tenant's, for `isUnmountedRef` is false again. The
hook's manual `reconnect` has no action: no component calls it.

**`ApiClient`.** Requests that are sent, refused with 401, held until the shared refresh is
over and sent once more.

**`BulkRun`.** Both wizards: selection, steps, the loop over the devices, going back, starting
again and leaving, while the query of the devices changes underneath. They differ in what they
remember of a device and in when they make their rows; `kind` tells them apart.

**`Adoption`.** The wizard from the scan to the verdicts. The probe loop and the poll keep
results of their own; `current` and `shown` are the ref and the state that the screen shows.
A retry may end during either.

**`RecordPage`, `PageCatalogue`.** A page with a list, a form that is opened for a new or a
listed record, and buttons in the rows. The header of `RecordPage` names the nine attributes in
which the pages differ; `PageCatalogue` gives them for 27 pages, with the reason where it is
not evident. What the form holds is abstracted to what became of its text (`text`); whose values
the other fields have is not followed. A "Try Again" after an error is an opening of the form. Of
the partial reset of the SMTP password only the refetch is kept.

`MCConsole` holds all of these side by side. They share no state, so a behaviour runs one of
them (`part`) and keeps the others as they start; its states are the sum of theirs, not the
product. In the same way `MCSessions` has `WinboxRemote` and `SshRelay`, and `MCPoller` has
`TunnelManager` and `CredentialCache`.

## 3. Runs

States are distinct states found by TLC.

| run | instance | states | shows |
|---|---|---|---|
| `worker_slots` | 2 sessions, 2 displays, 2 ports; mkdir fails, xpra exits or survives SIGKILL | 1,337,474 | `SlotsAccounted`: no slot lost, shared or released twice. `CapacityGuardsPools`: the capacity test keeps the pools from running dry. `LeakOnlyByEarlyTeardown`: a process outlives its session only if the teardown came before it was attached, or SIGKILL failed |
| `worker_life` | 1 session, every fault, clients come and go | 21,719 | `NoResurrection`, `TeardownCompletes`, `LifetimeCapEnds` |
| `relay_limits` | 3 requests, 3 tokens, 2 host keys, limits 2/1/1, 2 in flight | 363,506 | `TokenSingleUse`; `LimitOvershoot`: limits are exceeded by at most the other handshakes in flight. `NoEarlyEnd`: no end is published or recorded of a session that goes on |
| `poll_locks` | 2 replicas, 1 device, 3 loops; up to 70 failures in a row | 539,420 | `OverlapNeedsExpiry`: two polls of a device overlap only if a lock expired; `NoStrayLoop`; `BackoffSound`: the computed backoff is the documented one or, after more than 46 failures, zero |
| `poll_life` | 1 replica, 2 devices, one without collector | 45,952 | `CancelledStops`, `PolledForever` |
| `poller_keeps` | 2 tunnels, 2 ports, 2 connections; or the credentials of a device in 2 replicas, one with a polling loop and another caller, lost events | 314,745 | `PortsAccounted`: a port is used exactly while one tunnel owns it. `OneStraggler`: at most one late connection outlives its port. `IdleReclaimed`; `SourceSeparated`, `StalenessHeals` |
| `remote_sweep` | 2 sessions, 1 fault | 2,563,492 | `MidCreateSpared`: the sweep never kills a session that is being created. `LiveSessionRecorded`: until the first fault, no create, terminate, handler or sweep takes the record of a session that runs |
| `sessions_life` | 1 WinBox session with 2 faults; or 2 SSH requests, 1 host key | 62,693 | `OrphanReaped`, `StaleRecordDropped`; `CancelledLeaves`, `IdleEnds` |
| `console` | every part of the console, one in each behaviour | 201,654 | the table below |

What `console` checks, by part. Several properties name an exception; it is what the code
does, and section 7 lists it.

| part | property |
|---|---|
| staged changes | `ImplementsLedger`: the panel implements `ChangeLedger`. `LostOnlyInRace`: a change is cleared unsent only if it was staged during the apply. `RepeatedOnlyAfterFailure`: what runs twice was on the list when an apply failed. `TableCatchesUp`: the table comes to show what an apply did unless the query failed, and what a failed apply did once the rows are asked for again |
| forms | `UntouchedNotSent`: a form that sends differences leaves alone what the operator did. `UntouchedStays`: a row that is loaded and saved untouched stays as it is, but for defaults |
| event stream | `OneStreamUnlessCrossed`: one connection or timer at a time, of the tenant shown. `StreamComesBack`: it is reopened without anybody pressing a button |
| HTTP client | `OneRefresh`: one refresh at a time, which all who wait await. `RequestsSettle`: no request waits or is sent for ever |
| bulk runs | `RunReported`: a run that is complete has an outcome for every device it wrote to |
| adoption | `SwitchedOnce`: a TLS switch that was taken is not offered again. `VerdictReached`: every imported device gets a verdict |
| record pages | `InputKept`: an answer takes no text but that of its own request. `ListCatchesUp`: the list comes to show all that was accepted, unless its query failed |

Three more runs, `worker_leak`, `backoff_wraps` and `creds_stale`, each exhibit a disagreement
between code and comment, section 7. Deadlock is checked except in `console`, where an operator may
stop pressing buttons and the bounds on what they do run out. Elsewhere, where a finite set of ids is used up,
a stuttering step named for it (`IdsExhausted`, `MainExits`) says so.

## 4. Bounds

Every bound is a constant of the module it limits.

* **Ids.** Sessions, tunnels, requests and loops are used once, as the code uses fresh UUIDs
  and goroutines. Two of each are enough for one to reuse what the other gave back, which is
  where accounting and sharing can go wrong; three requests let the limit of two in flight
  bind. The proofs hold for any number.
* **`MaxGen`** (worker) stops clients from toggling after so many grace generations. Two
  generations let a stale timer meet a newer one; `worker_slots` has no grace timers.
* **`Faults`** (worker) selects faults. `worker_life` has all; `worker_slots` leaves out a
  failed start, whose clean-up is that of a failed mkdir with the directory removed too.
* **`MaxInFlight`** (relay) is the number of handshakes that overlap. The code has no such
  limit; the property is stated relative to it.
* **`FailureCap`** (scheduler) saturates the failure counter: in `poll_locks` at the threshold,
  where it stands for every count up to **`FailureBound`** (breaker), which is 70. A 64-bit word
  has lost every bit after 64 shifts, so nothing new happens beyond; the counter of the code has
  no bound. `backoff_wraps` counts to 55, where the default of 30 s has lost its last bit.
* **`MaxVer`** (credentials) is two versions: an old and a new one.
* **`MaxFaults`** (browser sessions) bounds failed calls and restarts together. One fault at
  any point with two sessions, and two faults with one session, cover a failed step whose
  compensation fails too.
* **Staged changes.** Three changes, two applies and two mounts: an apply can fail midway and be
  repeated, with a change staged meanwhile, and one can outlive its panel.
* **Forms.** A field is blank, the default, or something else, which is all that the handlers
  tell apart. One change by somebody else meets one save.
* **Event stream.** Two tenants and three switches go to another tenant and back; three links
  hold an old connection, a new one and a timer.
* **HTTP client.** Three requests: one starts the refresh, one joins it, one comes late.
* **Bulk runs.** Two devices, two runs, one change of the list, two visits of the page.
* **Adoption.** Three devices (one probed, one in turn, one waiting), two rounds of the poll, two
  imports.
* **Record pages.** One listed record and a new one, two openings and two requests: an answer can
  meet an opening, or a request, that is not its own.

Symmetry is used for ids that no action or property orders, and never in a run that checks
liveness.

## 5. Fairness

| module | assumed | because |
|---|---|---|
| `WinboxWorker` | WF of a create's steps, `Teardown(s)`, `watchProcessExit(s)`, `Poll` | Go runs runnable goroutines; the calls outside the locks have timeouts |
| | nothing of users, xpra, timers | `LifetimeCapEnds` states its own assumption: the loop sometimes finds the lifetime over |
| `TunnelManager` | WF of `Close(k)`, `HandleConn(c)`, `CleanupIdle` | dial has a 10 s timeout, a cancelled context ends the copy, the ticker runs |
| `SshRelay` | WF of `Handshake(r)`, `EndSession(r)`, `Sweep` | timeouts on every call; the ticker runs |
| `PollScheduler` | WF of `reconcileDevices`, `LoopStep`, `BackoffEnds`, `LockExpires` | tickers and TTLs |
| | SF, per device, of `Obtain` | Redis may fail any number of calls, but not every one for ever |
| `CredentialCache` | WF of `CallStep`, `CacheExpires` | decryption has a timeout; entries have a TTL |
| `WinboxRemote` | WF of started requests, the worker's handlers, `Sweep`, `Ages` | timeouts on every call; the sweep's loop runs |
| `ConfigPanel` | WF of `Loop(a)` per apply, of `FetchLand` or `FetchFail` | a request is answered or fails; an async loop goes on |
| `EventStream` | WF of `LinkSteps(i)` per link | the same, and `setTimeout` fires |
| `ApiClient` | WF of `Network(r)` per request | the same |
| `Adoption` | WF of `Verification` | the same |
| `RecordPage` | WF of `Answers(n)` per request, of `ListAnswers` | the same |

The fairness of the console is in `MCConsole`; `MCSessions` and `MCPoller` restate that of their two
modules, for the part that runs. No liveness property assumes that a user acts or that a fault stays
away. Faults are finite in `WinboxRemote`, through `MaxFaults`, and dropped connections in
`EventStream`, through `MaxDrops`: a network that fails for ever has no stream.

## 6. Proofs

TLAPS checks the theorems below for all values of the constants that satisfy the named
`ASSUME` of the module (finite pools, `None` or `Nil` not an id, positive limits). Every safety invariant
and every action property that a passing run checks has a theorem.

**Worker** (`WinboxWorkerProofs`, from `WorkerAssumption`). The inductive invariant is

    SlotInv == TypeOK /\ LifecycleOK /\ SlotsAccounted /\ IsFiniteSet(sessions)

`SlotsAccounted` is not inductive alone: that a second release cannot happen depends on how
the state of a session, its place in the teardown and its place in the create relate.
`LifecycleOK` states that relation. Finiteness of the map is needed to count it. From
`SlotInv` follow `SlotAccounting`, `LeaksAreEarlyTeardowns`, `XvfbNeverOrphaned`,
`DisplaysNotShared` and, by counting the displays of the sessions in the map,
`CapacitySuffices`. `NeverResurrected` is an action property from the same invariant.
`GraceNeedsConnect` adds what the poll remembers of `everConnected`.

**Tunnels** (`TunnelManagerProofs`, from `TunnelAssumption`). `PortInv == TunnelTypes /\
Ownership /\ PortsAccounted`, where `Ownership` says that a closer holds only a tunnel that
left the map through it, so that one of three closers releases the port. Theorem
`PortAccounting`. `AtMostOneStraggler` has an invariant of its own, `TunnelTypes /\ Stragglers`: the
accept loop has one uncounted connection of a tunnel in hand, and a tunnel past `Wait` has no
other.

**Relay** (`SshRelayProofs`, from `RelayAssumption`). `RelayInv == TypeOK /\ TokenLife /\
TokenSingleUse /\ MapIsBridged /\ ClaimsBounded`. The limits count registered sessions only,
so no bound on them is inductive; the bound on claims, registered sessions together with
handshakes in flight, is. Theorems `TokensSingleUse`, `OvershootBounded`, `PinsWrittenOnce`.
`NoEndIsEarly` adds `CancelledFirst`: whom the sweep is about to report, and whose handler is past
the bridge, was cancelled, which nothing undoes.

**Scheduler** (`PollSchedulerProofs`, from `SchedulerAssumption`). `PollInv == TypeOK /\
LockHeld /\ NoStrayLoop`, where `LockHeld` says that a poll whose lock has not expired is the
one the lock names. Theorems `PollsKeptApart`, `NoLoopForgotten`, `TypeCorrect`.

**Circuit breaker** (same module, with `BreakerAssumption`: bases and maximum of 1 to 1000
seconds). `BackoffsAreSound` has no bound on the failures: the backoff that a loop enters is the
documented one up to 46 failures in a row, and after that the documented one or zero. The argument
is about bits. Up to 25 failures none leaves the word (`ExactWithoutLoss`). After that the product
without a word size is over the maximum, and the code returns the maximum as long as one bit lands
above those of the maximum and inside the word (`ExactByOneBit`). Up to 46 failures the duration
has such a bit: one of its middle ones up to 31 failures (`MiddleBit`), its lowest one after that
(`LowBit`; `ExactWhileABitIsKept`). Beyond 46 any bit that is still in the word is such a bit
(`ExactOrZero`), so that no base wraps to a wrong positive length. That every word has a highest
bit is taken from the well-foundedness of the naturals.

**Credentials** (`CredentialCacheProofs`, from `CacheAssumption`). `CacheInv == TypeOK /\
FiledBySource /\ AskedForWhatIs /\ SomeSource /\ DraftFits /\ SourceSeparated`. What a caller
gets may come from a cache entry filed by another, so the entries and the questions under way
need to be of their source too. Theorem `SourcesSeparated`.

**Browser sessions** (`WinboxRemoteProofs`, from `RemoteAssumption`). `SweepInv == TypeOK /\
PostedOnly /\ SavesWhatIsThere /\ OldIsSettled /\ OldIsKilled`: a session is old only when its
create request is over, and the sweep's victim is old. Theorems `MidCreateNeverKilled` and
`RecordsAreConfirmed`. The first rests on the guard of `Ages`, section 2. For
`LiveSessionsKeepTheirRecord`, `CleanInv` is added: before the first fault, whoever is about to
clean up (a create that met another record, a terminate, the sweep) holds a session that was
confirmed and has ended, and no create is undone.

**Staged changes** (`PanelProofs`, from `PanelAssumption`). `PanelInv` says, besides the types
and the two properties: only a running apply has changes to send, and no two have the same
(`InApply`, `OneApply`); an apply with a change that is still listed is of this visit
(`ListedHere`); what is listed while it runs was handed to it or staged since (`HandedOver`);
and a change that ran, if it is listed or waiting, was in a failure or is being applied
(`NotYetMade`, `RanAndListed`, `RanAndWaiting`). Theorems `OnlyRacedChangesAreLost`,
`OnlyFailureRepeats` and `PanelImplementsLedger`: the initial state maps to the ledger's, and
every step to a step of it or a stutter.

**Panel forms** (`PanelProofs`, from `FormAssumption` and `BehaviourAssumption`). The second
describes the fields a panel may have, and what those of the panels have in common: a form that
sends differences hides nothing, is not filled by the handler of an edit, and if it is loaded
once is compared with the row shown; a field that is loaded empty is sent if it is set. The run
evaluates it on both catalogues, so the theorems cover every field listed there and every other
of the kind. `FormInv` adds to `UntouchedNotSent` what the form shows as long as nothing was
typed: what the difference will be taken to (`UntouchedForm`), and what `Loaded` makes of the row
it was loaded from (`LoadedForm`); a change staged from it then carries nothing, the row's own
value or its default (`LoadedChange`). Theorems `UntouchedFieldsAreNotSent` and, as an action
property, `UntouchedFieldsStay`.

**Record pages** (`PanelProofs`, from `RecordAssumption` and `ScreenAssumption`, the kinds of
page there are: one whose form is part of it never closes it). `RecordInv == PageTypes /\
PageOpen /\ AskedFor /\ TypedUnawaited /\ ClosingLater`. `InputKept` needs that nothing counts as
typed while an answer is due that will act on the form (`TypedUnawaited`), and that only the forms
that close late have a closing due. Theorem `AnswersKeepTheInput`.

**HTTP client** (`ConsoleProofs`, from `ClientAssumption`). `ClientInv == ClientTypes /\
OneShared /\ HeldAwait /\ HeldForSomething`: whoever is held awaits the shared promise, and
there is one. Theorem `OneRefreshAtATime`.

**Event stream** (`ConsoleProofs`, from no assumption). `StreamInv == LinkTypes /\
FreeLinks /\ (~crossed => Alone)`. The code closes what its two refs hold; `Alone` says that
this is all there is: an open stream is the one in `eventSourceRef`, a timer that runs the one
in `reconnectTimerRef`. It is what a change of the tenant during the request for a token
destroys. Theorem `OneStreamAtATime`.

**Bulk runs** (`ConsoleProofs`, from no assumption). `BulkInv == BulkTypes /\ LoopsOfVisits
/\ WizardInv /\ Progress /\ RunReported`. A loop goes on after its page is gone; `LoopsOfVisits`
says that a visit has one loop at a time, `Progress` that the rows that are not skipped are
those of the devices the loop has sent to or has still to send to, and `WizardInv` that the page
stays at its last step meanwhile. Theorem `RunsAreReported`.

**Adoption** (`ConsoleProofs`, from no assumption). `AdoptionInv` says that nothing is
shown or retried before the probes begin (`QuietBefore`), that a test that ends while they run
counts as overlapping (`ProbedOverlap`), that the poll suggests nothing of its own
(`PollSuggestsNothing`), and that of a device that was switched neither what is kept nor what is
shown suggests anything (`KeptAndShown`): it is from what is kept that every later round is
shown. Theorem `SwitchIsOfferedOnce`.

The proof that a step keeps an invariant is split by actions. The theorems are about the
components' own specifications; the runs of `MCConsole`, `MCSessions` and `MCPoller` check the
same definitions.

## 7. Where code and comments disagree

Three have a run whose counterexample shows them; `findings` in `PROJECT.json` quotes the text.

| run | the text says | the code does |
|---|---|---|
| `worker_leak` (`TornDownMeansDead`) | a create that finds its session down was beaten by the exit watcher | a DELETE before the process is attached leaves xpra running |
| `backoff_wraps` (`BackoffCapped`) | the backoff is base * 2^(failures-1), capped at the maximum | the 55th failure in a row shifts every bit of 30 s out of the word: the backoff is zero |
| `creds_stale` (`FreshCredentials`) | fresh credentials on the next poll | the loop keeps the row it started with |

`LeakOnlyByEarlyTeardown`, `BackoffSound` and `StalenessHeals` say how far these can go.

The models show more places where a comment promises more than the code gives. No run is
spent on them; where a property bounds the effect it is named.

* A grace timer that was cancelled can still act between its generation check and its
  verdict.
* A tunnel that is being opened while Shutdown runs is registered afterwards.
* A connection accepted but not yet counted outlives `Tunnel.Close` (`OneStraggler`).
* Handshakes in flight do not count towards the relay's limits (`LimitOvershoot`).
* An idle SSH session is reported ended twice, as "idle_timeout" by the sweep and as "normal" by its
  handler (`NoEarlyEnd`: it does end); "shutdown", the third reason that the audit subscriber
  documents, is never published.
* A device that is removed and comes back can have two goroutines for a while; the Redis lock
  keeps their polls apart (`OverlapNeedsExpiry`).
* The list of browser sessions drops records of sessions whose worker does not answer, as if
  the worker had none (`OrphanReaped`: the sweep then removes the session; `LiveSessionRecorded`:
  it takes a fault).
* The idle sweep of the tunnels can close one that a new connection has just come to.

In the console, what the properties except or, where none is named, do not speak of:

* A change that is staged while an apply runs is cleared by its success, unsent
  (`LostOnlyInRace`).
* An apply that fails leaves the whole list, and the next one repeats what was executed
  (`RepeatedOnlyAfterFailure`).
* A form that is loaded once and compared with the row as it is now shown sends fields nobody
  touched (`UntouchedNotSent`). A form that sends a field only if it is set cannot blank it.
* An edit dialog of `InterfacesPanel` is opened by its parent, which does not call the
  `onOpenChange` that would load it; saved untouched it writes what it happens to hold
  (`UntouchedStays` asks that the form was loaded).
* An effect that copies the row into a form writes over what was typed since.
* An apply that fails does not ask for the rows; the table shows what it did when something else
  asks for them (`TableCatchesUp`).
* A tenant switch during the request of a token leaves a second stream
  (`OneStreamUnlessCrossed`).
* The batch panel makes its rows before it decides on the devices; if the list changes in
  between, rows and devices differ (`RunReported`).
* A TLS switch whose test ends while other devices are probed is offered again (`SwitchedOnce`),
  although a comment says "so the action cannot repeat" (`AdoptionWizard.tsx:1002`).
* A late answer closes the form of another opening, with what was typed since (`InputKept`).
* `TemplatesPage`, `EditDeviceDialog` and `EntryForm` can save the fields of one record to
  another.

## 8. What is only model-checked, and what is not modelled

Only model-checked: all liveness (fairness is beyond the prover used).

Left out of the modelled parts: bytes on the wire, terminal messages, xpra traffic, logging
and metrics; the worker's `CleanupOrphans` and zombie reaper; the validation of requests; the
number of sessions two concurrent creates of one user can make, of which the code promises
nothing. A rate limit is a refusal that may happen at any time. In the console: what is sent at
once and not staged (moving firewall rules, flushing the ARP table, running scripts), what an
event does to the caches of the queries, the manual `reconnect` of the event stream, whose values
the form of a record page holds, and the contents of fields beyond what their handlers tell apart.

Not modelled:

* **Concurrent parts of the backend and the poller without a module**: config push and rollback,
  firmware upgrades, alert evaluation, wireless links, backups and their scheduler, the server
  end of the event stream, VPN allocation. They are of a size with the parts that are modelled,
  and nothing here speaks for them; `hazards` lists the main risks of push, upgrades and alerts.
* **Refinement between services**: the worker and the tunnels of `WinboxRemote` are abstract by
  construction. That `WinboxWorker` and `TunnelManager` implement them is not shown.
* **Console**: the VPN onboarding and template push wizards, upgrade progress, the command
  executor, terminals and WinBox buttons, password and SRP dialogs, the authentication store:
  single sequences of requests whose state is the backend's. Diagnostic tools, reports,
  dashboards, charts and maps: queries and rendering.
* CRUD routes and queries; parsers, formatting and e-mail; cryptography; device protocols
  (RouterOS API, SNMP, SFTP); installer and infrastructure.
