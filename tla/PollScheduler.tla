---------------------------- MODULE PollScheduler ----------------------------
(***************************************************************************)
(* The device polling of the poller replicas:                              *)
(* poller/internal/poller/scheduler.go.                                    *)
(*                                                                         *)
(* In every replica one goroutine runs Scheduler.Run, which keeps one      *)
(* polling goroutine ("loop") per row FetchDevices returns.  Loops of all  *)
(* replicas meet at the Redis lock poll:device:<id>.  A step is one call   *)
(* to PostgreSQL, Redis or the router, with the local assignments that     *)
(* follow it.  Time is abstract: a lock's TTL and a backoff may end at any *)
(* moment.  What a poll does is module CredentialCache's and the router's  *)
(* business: here it ends well or fails.  Log lines, metrics and the skip  *)
(* counter that only feeds a log line are left out.                        *)
(***************************************************************************)
EXTENDS Naturals, FiniteSets

CONSTANTS Replica, Device,
          Loop,          \* goroutines that may be started; each runs once
          RepOf, DevOf,  \* the replica and the device of a loop
          NoCollector,   \* devices of a type no Collector is registered for
          MaxFailures,   \* circuit breaker threshold
          FailureCap,    \* bound: failures are counted up to here
          None

ASSUME SchedulerAssumption ==
  /\ RepOf \in [Loop -> Replica]
  /\ DevOf \in [Loop -> Device]
  /\ NoCollector \subseteq Device
  /\ MaxFailures \in Nat \ {0}
  /\ FailureCap \in Nat /\ FailureCap >= MaxFailures
  /\ None \notin Loop

VARIABLES
  rows,       \* devices FetchDevices returns (they have credentials)
  up,         \* replicas whose context is not cancelled
  active,     \* the loops in the activeDevices maps
  cancelled,  \* loops whose context is cancelled
  pc,         \* where a loop is
  fails,      \* ds.consecutiveFailures
  backoff,    \* loops with now before ds.backoffUntil
  lock,       \* the holder of poll:device:<id>
  lost        \* loops whose lock expired while they were polling

loopVars == <<active, cancelled, fails, backoff>>
vars == <<rows, up, loopVars, pc, lock, lost>>

Polling == {"collect", "polled", "failed"}
Running == {"idle"} \cup Polling

\* Types, and the circuit breaker: a loop is in backoff only if the polls since
\* the last good one, MaxFailures of them or more, all failed.
TypeOK ==
  /\ rows \subseteq Device
  /\ up \subseteq Replica
  /\ active \subseteq Loop
  /\ cancelled \subseteq Loop
  /\ pc \in [Loop -> {"unused", "done"} \cup Running]
  /\ fails \in [Loop -> 0 .. FailureCap]
  /\ backoff \subseteq {l \in Loop : fails[l] >= MaxFailures}
  /\ lock \in [Device -> Loop \cup {None}]
  /\ lost \subseteq Loop

Init ==
  /\ rows \in SUBSET Device
  /\ up = Replica
  /\ active = {}
  /\ cancelled = {}
  /\ pc = [l \in Loop |-> "unused"]
  /\ fails = [l \in Loop |-> 0]
  /\ backoff = {}
  /\ lock = [d \in Device |-> None]
  /\ lost = {}

ActiveIn(r) == {l \in active : RepOf[l] = r}

-----------------------------------------------------------------------------
(* Scheduler.Run                                                           *)

\* The rows of the query, but for devices whose loops the model has used up.
Startable(r) ==
  {d \in rows : \E l \in Loop : pc[l] = "unused" /\ RepOf[l] = r /\ DevOf[l] = d}

\* Fresh goroutines of replica r for exactly the devices in D.
Starts(r, D) ==
  {S \in SUBSET {l \in Loop : pc[l] = "unused" /\ RepOf[l] = r} :
     /\ {DevOf[l] : l \in S} = D
     /\ Cardinality(S) = Cardinality(D)}

\* Mutant: the entry of a removed device is deleted without cancel().
reconcileDevicesNoCancel(r) ==
  LET gone == {l \in ActiveIn(r) : DevOf[l] \notin rows}
      new == Startable(r) \ {DevOf[l] : l \in ActiveIn(r)}
  IN  /\ r \in up
      /\ gone # {} \/ new # {}
      /\ \E S \in Starts(r, new) :
           /\ active' = (active \ gone) \cup S
           /\ pc' = [l \in Loop |-> IF l \in S THEN "idle" ELSE pc[l]]
      /\ UNCHANGED <<rows, up, cancelled, fails, backoff, lock, lost>>

\* FetchDevices, then under s.mu: a loop for every new device, cancel() for
\* every loop whose device is gone.
reconcileDevices(r) ==
  LET gone == {l \in ActiveIn(r) : DevOf[l] \notin rows}
      new == Startable(r) \ {DevOf[l] : l \in ActiveIn(r)}
  IN  /\ r \in up
      /\ gone # {} \/ new # {}
      /\ \E S \in Starts(r, new) :
           /\ active' = (active \ gone) \cup S
           /\ pc' = [l \in Loop |-> IF l \in S THEN "idle" ELSE pc[l]]
      /\ cancelled' = cancelled \cup gone
      /\ UNCHANGED <<rows, up, fails, backoff, lock, lost>>

\* SIGTERM: the context of Run, parent of every loop's context, is cancelled.
Shutdown(r) ==
  /\ r \in up
  /\ up' = up \ {r}
  /\ cancelled' = cancelled \cup {l \in Loop : RepOf[l] = r /\ pc[l] \in Running}
  /\ UNCHANGED <<rows, active, fails, backoff, pc, lock, lost>>

\* The state of a goroutine is gone when it returns.
Forget(S) ==
  /\ pc' = [l \in Loop |-> IF l \in S THEN "done" ELSE pc[l]]
  /\ fails' = [l \in Loop |-> IF l \in S THEN 0 ELSE fails[l]]
  /\ backoff' = backoff \ S
  /\ lost' = lost \ S

\* A replica that has stopped, or crashes, comes back with empty maps; its locks
\* stay in Redis.
Restart(r) ==
  /\ r \notin up => \A l \in Loop : RepOf[l] = r => pc[l] \notin Running
  /\ up' = up \cup {r}
  /\ active' = active \ ActiveIn(r)
  /\ Forget({l \in Loop : RepOf[l] = r /\ pc[l] \in Running})
  /\ UNCHANGED <<rows, cancelled, lock>>

-----------------------------------------------------------------------------
(* runDeviceLoop                                                           *)

\* A tick that is not skipped; Obtain with a cancelled context fails.
CanTick(l) ==
  /\ pc[l] = "idle" /\ l \notin backoff /\ l \notin cancelled
  /\ DevOf[l] \notin NoCollector

\* Mutant: after MaxFailures failures the device is given up.
ObtainGivesUp(l) ==
  /\ CanTick(l)
  /\ fails[l] < MaxFailures
  /\ lock[DevOf[l]] = None
  /\ lock' = [lock EXCEPT ![DevOf[l]] = l]
  /\ pc' = [pc EXCEPT ![l] = "collect"]
  /\ UNCHANGED <<rows, up, loopVars, lost>>

\* A tick outside backoff obtains the lock.  A tick in backoff, one that finds
\* the lock held, or one whose SET never reaches Redis, changes nothing.
Obtain(l) ==
  /\ CanTick(l)
  /\ lock[DevOf[l]] = None
  /\ lock' = [lock EXCEPT ![DevOf[l]] = l]
  /\ pc' = [pc EXCEPT ![l] = "collect"]
  /\ UNCHANGED <<rows, up, loopVars, lost>>

\* The SET reaches Redis and its answer is lost, or the context is cancelled
\* meanwhile: Obtain returns an error and the key stays until its TTL.
ObtainFails(l) ==
  /\ CanTick(l)
  /\ lock[DevOf[l]] = None
  /\ lock' = [lock EXCEPT ![DevOf[l]] = l]
  /\ UNCHANGED <<rows, up, loopVars, pc, lost>>

\* collector.Collect.
Collect(l) ==
  /\ pc[l] = "collect"
  /\ \E o \in {"polled", "failed"} : pc' = [pc EXCEPT ![l] = o]
  /\ UNCHANGED <<rows, up, loopVars, lock, lost>>

\* Mutant: DEL without comparing the token.
ReleaseAny(l) ==
  lock' \in {lock, [lock EXCEPT ![DevOf[l]] = None]}

\* lock.Release: deletes the key only while it holds this loop's token; with a
\* cancelled context or a Redis error it deletes nothing.
Release(l) ==
  \/ UNCHANGED lock
  \/ /\ l \notin cancelled
     /\ lock[DevOf[l]] = l
     /\ lock' = [lock EXCEPT ![DevOf[l]] = None]

\* Release, then the circuit breaker.
PollEnds(l) ==
  /\ pc[l] \in {"polled", "failed"}
  /\ Release(l)
  /\ pc' = [pc EXCEPT ![l] = "idle"]
  /\ IF pc[l] = "polled"
     THEN fails' = [fails EXCEPT ![l] = 0] /\ backoff' = backoff \ {l}
     ELSE LET n == IF fails[l] < FailureCap THEN fails[l] + 1 ELSE fails[l]
          IN  /\ fails' = [fails EXCEPT ![l] = n]
              /\ backoff' = IF n >= MaxFailures THEN backoff \cup {l} ELSE backoff
  /\ lost' = lost \ {l}
  /\ UNCHANGED <<rows, up, active, cancelled>>

\* No collector for the device's type: the goroutine returns and its map entry
\* stays.
GiveUp(l) ==
  /\ pc[l] = "idle" /\ DevOf[l] \in NoCollector
  /\ Forget({l})
  /\ UNCHANGED <<rows, up, active, cancelled, lock>>

\* Mutant: ctx.Done() is noticed and the loop goes on.
StopContinues(l) == pc[l] = "idle" /\ l \in cancelled /\ UNCHANGED vars

\* <-ctx.Done().
Stop(l) ==
  /\ pc[l] = "idle" /\ l \in cancelled
  /\ Forget({l})
  /\ UNCHANGED <<rows, up, active, cancelled, lock>>

-----------------------------------------------------------------------------
(* Time and the database                                                   *)

\* A device gains its first credentials, or loses its last, or is deleted.
RowChanges(d) ==
  /\ rows' = IF d \in rows THEN rows \ {d} ELSE rows \cup {d}
  /\ UNCHANGED <<up, loopVars, pc, lock, lost>>

BackoffEnds(l) ==
  /\ l \in backoff
  /\ backoff' = backoff \ {l}
  /\ UNCHANGED <<rows, up, active, cancelled, fails, pc, lock, lost>>

\* lockTTL = pollInterval + connTimeout + 15 s, which a slow poll can exceed.
LockExpires(d) ==
  /\ lock[d] # None
  /\ lock' = [lock EXCEPT ![d] = None]
  /\ lost' = IF pc[lock[d]] \in Polling THEN lost \cup {lock[d]} ELSE lost
  /\ UNCHANGED <<rows, up, loopVars, pc>>

LoopStep(l) == Collect(l) \/ PollEnds(l) \/ GiveUp(l) \/ Stop(l)

Next ==
  \/ \E r \in Replica : reconcileDevices(r) \/ Shutdown(r) \/ Restart(r)
  \/ \E l \in Loop : Obtain(l) \/ ObtainFails(l) \/ LoopStep(l) \/ BackoffEnds(l)
  \/ \E d \in Device : RowChanges(d) \/ LockExpires(d)

Spec == Init /\ [][Next]_vars

\* Goroutines that can run do, every call has a timeout, and TTLs and backoffs
\* end.  Redis does not lose the answer to every SET of a device's lock (strong
\* fairness, for the device: no loop is promised its turn).  Operators, routers
\* and crashes owe nothing.
Fairness ==
  /\ \A r \in Replica : WF_vars(reconcileDevices(r))
  /\ \A l \in Loop : WF_vars(LoopStep(l)) /\ WF_vars(BackoffEnds(l))
  /\ \A d \in Device :
       /\ SF_vars(\E l \in Loop : DevOf[l] = d /\ Obtain(l))
       /\ WF_vars(LockExpires(d))

FairSpec == Spec /\ Fairness

-----------------------------------------------------------------------------
\* The distributed lock: two loops, of the same or of two replicas, poll one
\* device at a time only if the lock of one of them expired under it.  Removal
\* and return of a device, restarts and failed releases never cause it.
OverlapNeedsExpiry ==
  \A l, m \in Loop :
    l # m /\ DevOf[l] = DevOf[m] /\ pc[l] \in Polling /\ pc[m] \in Polling
      => l \in lost \/ m \in lost

\* reconcileDevices loses track of no goroutine: a loop that nobody has told to
\* stop is the one its replica's map holds for the device.
NoStrayLoop ==
  \A l \in Loop : pc[l] \in Running /\ l \notin cancelled => l \in active

\* A cancelled loop ends, whatever poll it is in.
CancelledStops == \A l \in Loop : l \in cancelled ~> pc[l] = "done"

\* While a replica stays up and the device keeps its row, the device is polled
\* again and again, by that replica or another: neither the circuit breaker nor a
\* lock that nobody released ends it.  (A replica that has used up the loops the
\* model gives it is excepted.)
PolledForever ==
  \A d \in Device \ NoCollector, r \in Replica :
    <>[](/\ d \in rows /\ r \in up
         /\ \E l \in Loop : RepOf[l] = r /\ DevOf[l] = d /\ pc[l] # "done")
      => []<>(\E l \in Loop : DevOf[l] = d /\ pc[l] \in Polling)
=============================================================================
