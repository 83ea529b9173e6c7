---------------------------- MODULE WinboxRemote ----------------------------
(***************************************************************************)
(* Browser WinBox sessions across services: the API routes of              *)
(* backend/app/routers/winbox_remote.py, the sweep of                      *)
(* services/winbox_reconcile.py, and the three places that hold a piece of *)
(* a session: a Redis record, a session of the WinBox worker, a tunnel of  *)
(* the poller.                                                             *)
(*                                                                         *)
(* The worker and the poller appear by what modules WinboxWorker and       *)
(* TunnelManager show of them: the worker has a session or has not, may    *)
(* end it at any time, and DELETE is idempotent; the poller may close a    *)
(* tunnel that is idle.  All sessions are of one user and one device, the  *)
(* case in which the duplicate check compares them.  A step is one awaited *)
(* call with the code up to the next.                                      *)
(***************************************************************************)
EXTENDS Naturals

CONSTANTS Session,    \* the uuid4 each create request draws
          MaxFaults,  \* bound: failed calls and restarts, all kinds together
          None

ASSUME RemoteAssumption == MaxFaults \in Nat /\ None \notin Session

VARIABLES
  api,      \* where the create request is
  scan,     \* its duplicate check: the keys left, and the stale one in hand
  post,     \* its POST /sessions
  record,   \* the keys winbox-remote:<id>
  worker,   \* sessions the worker has
  old,      \* sessions it created ORPHAN_MIN_AGE_SECONDS ago, or earlier
  tunnel,   \* the tunnel opened for a session
  del,      \* where the terminate request of a session is
  ws,       \* WebSocket proxies that have read the record and not saved it yet
  sweep,    \* reconcile_once
  unknown,  \* the ids in unknown_since
  faults    \* how many calls may still fail

sweepVars == <<sweep, unknown>>
vars == <<api, scan, post, record, worker, old, tunnel, del, ws, sweepVars, faults>>

NoScan == [todo |-> {}, cur |-> None]
SweepIdle == [pc |-> "idle", todo |-> {}, cur |-> None, seen |-> {}]
MidCreate == {"await", "save"}
Rollback == {"rbWorker", "rbTunnel"}
Undo == {"undoWorker", "undoTunnel", "undoRedis"}

\* Types, and: there is a record only of a session the worker has confirmed.
TypeOK ==
  /\ api \in [Session -> {"new", "scan", "staleTunnel", "staleRedis", "open", "post",
                          "done", "failed"} \cup MidCreate \cup Rollback \cup Undo]
  /\ scan \in [Session -> [todo : SUBSET Session, cur : Session \cup {None}]]
  /\ post \in [Session -> {"none", "sent", "launching", "ok", "capacity", "launch"}]
  /\ record \cup ws \subseteq {s \in Session : post[s] = "ok"}
  /\ worker \subseteq Session
  /\ old \subseteq Session
  /\ tunnel \in [Session -> {"none", "open", "closed"}]
  /\ del \in [Session -> {"none", "worker", "tunnel", "redis"}]
  /\ sweep \in [pc : {"idle", "A", "Atunnel", "Aredis", "B", "Bkill"}, todo : SUBSET Session,
                cur : Session \cup {None}, seen : SUBSET Session]
  /\ unknown \subseteq Session
  /\ faults \in 0 .. MaxFaults

Init ==
  /\ api = [s \in Session |-> "new"]
  /\ scan = [s \in Session |-> NoScan]
  /\ post = [s \in Session |-> "none"]
  /\ record = {}
  /\ worker = {}
  /\ old = {}
  /\ tunnel = [s \in Session |-> "none"]
  /\ del = [s \in Session |-> "none"]
  /\ ws = {}
  /\ sweep = SweepIdle
  /\ unknown = {}
  /\ faults = MaxFaults

Goto(s, l) == api' = [api EXCEPT ![s] = l]

\* A call that fails, or whose answer is lost.
Fault == faults > 0 /\ faults' = faults - 1
Works == UNCHANGED faults

-----------------------------------------------------------------------------
(* Calls that several callers make                                         *)

Gone(s) == worker' = worker \ {s}

\* DELETE /sessions/{id}: done; answered with an error status, which is logged and
\* returned like a success; or (~ok) an exception, done or not.
terminate_session(s, ok) ==
  \/ ok /\ Gone(s) /\ Works
  \/ ok /\ UNCHANGED worker /\ Fault
  \/ ~ok /\ (Gone(s) \/ UNCHANGED worker) /\ Fault

Closed(s) == [tunnel EXCEPT ![s] = IF @ = "open" THEN "closed" ELSE @]

\* _close_tunnel swallows every error.
_close_tunnel(s) ==
  \/ tunnel' = Closed(s) /\ Works
  \/ UNCHANGED tunnel /\ Fault

-----------------------------------------------------------------------------
(* create_winbox_remote_session                                            *)

\* SCAN returns the records there are.
StartCreate(s) ==
  /\ api[s] = "new"
  /\ scan' = [scan EXCEPT ![s] = [todo |-> record, cur |-> None]]
  /\ Goto(s, "scan")
  /\ UNCHANGED <<post, record, worker, old, tunnel, del, ws, sweepVars, faults>>

\* Mutant: another record of the user and the device is taken for a stale one
\* without asking the worker.
CheckDuplicateBlind(s, k) ==
  /\ api[s] = "scan" /\ k \in scan[s].todo
  /\ IF k \in record
     THEN Goto(s, "staleTunnel") /\ scan' = [scan EXCEPT ![s] = [todo |-> @.todo \ {k}, cur |-> k]]
     ELSE Goto(s, "scan") /\ scan' = [scan EXCEPT ![s] = [todo |-> @.todo \ {k}, cur |-> None]]
  /\ UNCHANGED <<post, record, worker, old, tunnel, del, ws, sweepVars, faults>>

\* The next record: gone, or 409 because the worker has the session, or stale.
\* An exception or an error status of the worker counts as "does not have it".
CheckDuplicate(s, k) ==
  /\ api[s] = "scan" /\ k \in scan[s].todo
  /\ LET rest == scan[s].todo \ {k}
         next(l, c) == Goto(s, l) /\ scan' = [scan EXCEPT ![s] = [todo |-> rest, cur |-> c]]
     IN  \/ k \notin record /\ next("scan", None) /\ Works
         \/ k \in record /\ k \in worker /\ Goto(s, "failed") /\ Works
              /\ scan' = [scan EXCEPT ![s] = NoScan]
         \/ k \in record /\ k \notin worker /\ next("staleTunnel", k) /\ Works
         \/ k \in record /\ next("staleTunnel", k) /\ Fault
  /\ UNCHANGED <<post, record, worker, old, tunnel, del, ws, sweepVars>>

CloseStale(s) ==
  /\ api[s] = "staleTunnel"
  /\ _close_tunnel(scan[s].cur)
  /\ Goto(s, "staleRedis")
  /\ UNCHANGED <<scan, post, record, worker, old, del, ws, sweepVars>>

DropStale(s) ==
  /\ api[s] = "staleRedis"
  /\ \/ /\ record' = record \ {scan[s].cur} /\ Works
        /\ Goto(s, "scan")
        /\ scan' = [scan EXCEPT ![s].cur = None]
     \/ /\ UNCHANGED record /\ Fault
        /\ Goto(s, "failed")
        /\ scan' = [scan EXCEPT ![s] = NoScan]
  /\ UNCHANGED <<post, worker, old, tunnel, del, ws, sweepVars>>

\* The rate limit and the credentials: 429, 503, or on to the tunnel.
CheckRate(s) ==
  /\ api[s] = "scan" /\ scan[s].todo = {}
  /\ \E l \in {"open", "failed"} : Goto(s, l)
  /\ UNCHANGED <<scan, post, record, worker, old, tunnel, del, ws, sweepVars, faults>>

\* _open_tunnel: a request whose answer is lost, or refused for its port, leaves
\* the tunnel open.
OpenTunnel(s) ==
  /\ api[s] = "open"
  /\ \/ tunnel' = [tunnel EXCEPT ![s] = "open"] /\ Goto(s, "post") /\ Works
     \/ tunnel' \in {tunnel, [tunnel EXCEPT ![s] = "open"]} /\ Goto(s, "failed") /\ Fault
  /\ UNCHANGED <<scan, post, record, worker, old, del, ws, sweepVars>>

PostSession(s) ==
  /\ api[s] = "post"
  /\ post' = [post EXCEPT ![s] = "sent"]
  /\ Goto(s, "await")
  /\ UNCHANGED <<scan, record, worker, old, tunnel, del, ws, sweepVars, faults>>

\* 201; 503; any other status; httpx.TransportError while the POST is anywhere; or
\* a 201 that cannot be parsed, which leaves worker_launched false.
PostAnswered(s) ==
  /\ api[s] = "await"
  /\ \/ post[s] = "ok" /\ Goto(s, "save") /\ Works
     \/ post[s] = "capacity" /\ Goto(s, "rbTunnel") /\ Works
     \/ post[s] = "launch" /\ Goto(s, "rbWorker") /\ Works
     \/ Goto(s, "rbWorker") /\ Fault
     \/ post[s] = "ok" /\ Goto(s, "undoTunnel") /\ Fault
  /\ UNCHANGED <<scan, post, record, worker, old, tunnel, del, ws, sweepVars>>

\* SETEX; if it fails, in Redis or on the way back, everything is rolled back.
SaveSession(s) ==
  /\ api[s] = "save"
  /\ \/ record' = record \cup {s} /\ Goto(s, "done") /\ Works
     \/ record' \in {record, record \cup {s}} /\ Goto(s, "undoWorker") /\ Fault
  /\ UNCHANGED <<scan, post, worker, old, tunnel, del, ws, sweepVars>>

\* The handlers of a failed POST raise when worker and tunnel are rolled back; the
\* handler of any other exception deletes the record too.
\* _rollback_worker_session never raises.
RollbackWorker(s) ==
  /\ api[s] \in {"rbWorker", "undoWorker"}
  /\ \E ok \in BOOLEAN : terminate_session(s, ok)
  /\ Goto(s, IF api[s] = "rbWorker" THEN "rbTunnel" ELSE "undoTunnel")
  /\ UNCHANGED <<scan, post, record, old, tunnel, del, ws, sweepVars>>

RollbackTunnel(s) ==
  /\ api[s] \in {"rbTunnel", "undoTunnel"}
  /\ _close_tunnel(s)
  /\ Goto(s, IF api[s] = "rbTunnel" THEN "failed" ELSE "undoRedis")
  /\ UNCHANGED <<scan, post, record, worker, old, del, ws, sweepVars>>

RollbackRedis(s) ==
  /\ api[s] = "undoRedis"
  /\ \/ record' = record \ {s} /\ Works
     \/ UNCHANGED record /\ Fault
  /\ Goto(s, "failed")
  /\ UNCHANGED <<scan, post, worker, old, tunnel, del, ws, sweepVars>>

Create(s) ==
  \/ StartCreate(s) \/ CloseStale(s) \/ DropStale(s) \/ CheckRate(s) \/ OpenTunnel(s)
  \/ PostSession(s) \/ PostAnswered(s) \/ SaveSession(s)
  \/ RollbackWorker(s) \/ RollbackTunnel(s) \/ RollbackRedis(s)
  \/ \E k \in Session : CheckDuplicate(s, k)

-----------------------------------------------------------------------------
(* terminate_winbox_remote_session and winbox_remote_ws_proxy              *)

StartTerminate(s) ==
  /\ del[s] = "none" /\ s \in record
  /\ del' = [del EXCEPT ![s] = "worker"]
  /\ UNCHANGED <<api, scan, post, record, worker, old, tunnel, ws, sweepVars, faults>>

\* An exception from the worker ends the request here.
TerminateWorker(s) ==
  /\ del[s] = "worker"
  /\ \E ok \in BOOLEAN :
       terminate_session(s, ok) /\ del' = [del EXCEPT ![s] = IF ok THEN "tunnel" ELSE "none"]
  /\ UNCHANGED <<api, scan, post, record, old, tunnel, ws, sweepVars>>

TerminateTunnel(s) ==
  /\ del[s] = "tunnel"
  /\ _close_tunnel(s)
  /\ del' = [del EXCEPT ![s] = "redis"]
  /\ UNCHANGED <<api, scan, post, record, worker, old, ws, sweepVars>>

TerminateRedis(s) ==
  /\ del[s] = "redis"
  /\ \/ record' = record \ {s} /\ Works
     \/ UNCHANGED record /\ Fault
  /\ del' = [del EXCEPT ![s] = "none"]
  /\ UNCHANGED <<api, scan, post, worker, old, tunnel, ws, sweepVars>>

Terminate(s) == TerminateWorker(s) \/ TerminateTunnel(s) \/ TerminateRedis(s)

WsConnect(s) ==
  /\ s \in record \ ws
  /\ ws' = ws \cup {s}
  /\ UNCHANGED <<api, scan, post, record, worker, old, tunnel, del, sweepVars, faults>>

\* last_client_connect_at: the record that was read is written back.
WsSave(s) ==
  /\ s \in ws
  /\ ws' = ws \ {s}
  /\ \/ record' = record \cup {s} /\ Works
     \/ UNCHANGED record /\ Fault
  /\ UNCHANGED <<api, scan, post, worker, old, tunnel, del, sweepVars>>

-----------------------------------------------------------------------------
(* reconcile_once                                                          *)

SweepUnchanged == UNCHANGED <<api, scan, post, del, ws>>

\* An exception ends the sweep; unknown_since stays as it was.
SweepFails ==
  /\ sweep.pc # "idle"
  /\ sweep' = SweepIdle
  /\ Fault
  /\ UNCHANGED <<record, worker, old, tunnel, unknown>> /\ SweepUnchanged

StartSweep ==
  /\ sweep.pc = "idle"
  /\ sweep' = [SweepIdle EXCEPT !.pc = "A", !.todo = record]
  /\ UNCHANGED <<record, worker, old, tunnel, unknown, faults>> /\ SweepUnchanged

\* Pass A, one record: does the worker have it?  An error status says no.
PassA(k) ==
  /\ sweep.pc = "A" /\ k \in sweep.todo
  /\ \E lost \in BOOLEAN :
       /\ sweep' = [sweep EXCEPT !.pc = IF lost THEN "Atunnel" ELSE "A",
                                 !.cur = IF lost THEN k ELSE None, !.todo = @ \ {k}]
       /\ \/ lost = (k \in record \ worker) /\ Works
          \/ lost /\ k \in record /\ Fault
  /\ UNCHANGED <<record, worker, old, tunnel, unknown>> /\ SweepUnchanged

PassATunnel ==
  /\ sweep.pc = "Atunnel"
  /\ _close_tunnel(sweep.cur)
  /\ sweep' = [sweep EXCEPT !.pc = "Aredis"]
  /\ UNCHANGED <<record, worker, old, unknown>> /\ SweepUnchanged

\* Mutant: the tunnel of a lost session is closed and its record kept.
PassARedisKeeps ==
  /\ sweep.pc = "Aredis"
  /\ sweep' = [sweep EXCEPT !.pc = "A", !.cur = None]
  /\ UNCHANGED <<record, worker, old, tunnel, unknown, faults>> /\ SweepUnchanged

PassARedis ==
  /\ sweep.pc = "Aredis"
  /\ record' = record \ {sweep.cur}
  /\ sweep' = [sweep EXCEPT !.pc = "A", !.cur = None]
  /\ UNCHANGED <<worker, old, tunnel, unknown, faults>> /\ SweepUnchanged

\* Pass B begins with GET /sessions; an error status gives an empty list.
ListSessions ==
  /\ sweep.pc = "A" /\ sweep.todo = {}
  /\ \/ sweep' = [SweepIdle EXCEPT !.pc = "B", !.todo = worker] /\ Works
     \/ sweep' = [SweepIdle EXCEPT !.pc = "B"] /\ Fault
  /\ UNCHANGED <<record, worker, old, tunnel, unknown>> /\ SweepUnchanged

\* Mutant: two strikes are enough, however young the session is.
PassBNoAge(k) ==
  /\ sweep.pc = "B" /\ k \in sweep.todo
  /\ LET orphan == k \notin record /\ k \in unknown
     IN  sweep' = [sweep EXCEPT !.todo = @ \ {k},
                                !.pc = IF orphan THEN "Bkill" ELSE "B",
                                !.cur = IF orphan THEN k ELSE None,
                                !.seen = IF k \in record THEN @ ELSE @ \cup {k}]
  /\ UNCHANGED <<record, worker, old, tunnel, unknown, faults>> /\ SweepUnchanged

\* One listed session: it has a record; or this is its first strike; or it is
\* too young; or it is an orphan.
PassB(k) ==
  /\ sweep.pc = "B" /\ k \in sweep.todo
  /\ LET orphan == k \notin record /\ k \in unknown /\ k \in old
     IN  sweep' = [sweep EXCEPT !.todo = @ \ {k},
                                !.pc = IF orphan THEN "Bkill" ELSE "B",
                                !.cur = IF orphan THEN k ELSE None,
                                !.seen = IF k \in record THEN @ ELSE @ \cup {k}]
  /\ UNCHANGED <<record, worker, old, tunnel, unknown, faults>> /\ SweepUnchanged

\* A failed DELETE is logged; the sweep goes on.
PassBKill ==
  /\ sweep.pc = "Bkill"
  /\ \E ok \in BOOLEAN : terminate_session(sweep.cur, ok)
  /\ sweep' = [sweep EXCEPT !.pc = "B", !.cur = None]
  /\ UNCHANGED <<record, old, tunnel, unknown>> /\ SweepUnchanged

\* Mutant: the map is not carried into the next sweep.
EndSweepForgets ==
  /\ sweep.pc = "B" /\ sweep.todo = {}
  /\ sweep' = SweepIdle
  /\ UNCHANGED <<record, worker, old, tunnel, unknown, faults>> /\ SweepUnchanged

EndSweep ==
  /\ sweep.pc = "B" /\ sweep.todo = {}
  /\ unknown' = sweep.seen
  /\ sweep' = SweepIdle
  /\ UNCHANGED <<record, worker, old, tunnel, faults>> /\ SweepUnchanged

Sweep ==
  \/ StartSweep \/ PassATunnel \/ PassARedis \/ ListSessions \/ PassBKill \/ EndSweep
  \/ \E k \in Session : PassA(k) \/ PassB(k)

-----------------------------------------------------------------------------
(* The worker, the poller, Redis, and restarts                             *)

WorkerUnchanged == UNCHANGED <<api, scan, record, tunnel, del, ws, sweepVars>>

\* CreateSession: refused, or registered and being launched.
WorkerTakes(s) ==
  /\ post[s] = "sent"
  /\ \/ post' = [post EXCEPT ![s] = "capacity"] /\ UNCHANGED worker
     \/ post' = [post EXCEPT ![s] = "launching"] /\ worker' = worker \cup {s}
  /\ UNCHANGED <<old, faults>> /\ WorkerUnchanged

\* The launch succeeds unless the session was terminated meanwhile, or fails.
WorkerAnswers(s) ==
  /\ post[s] = "launching"
  /\ \/ /\ s \in worker
        /\ post' = [post EXCEPT ![s] = "ok"]
        /\ UNCHANGED worker
     \/ post' = [post EXCEPT ![s] = "launch"] /\ Gone(s)
  /\ UNCHANGED <<old, faults>> /\ WorkerUnchanged

\* The client leaves, WinBox exits, or the lifetime is over.
WorkerEnds(s) ==
  /\ s \in worker
  /\ Gone(s)
  /\ UNCHANGED <<post, old, faults>> /\ WorkerUnchanged

WorkerRestarts ==
  /\ Fault
  /\ worker' = {}
  /\ post' = [s \in Session |-> IF post[s] \in {"sent", "launching"} THEN "none" ELSE post[s]]
  /\ UNCHANGED old /\ WorkerUnchanged

\* Time passes.  A create request is over, or has got its answer and is about to
\* save, long before its session is ORPHAN_MIN_AGE_SECONDS (120 s) old: the worker
\* client's timeout is 15 s.
Ages(s) ==
  /\ s \in worker \ old
  /\ api[s] \notin MidCreate
  /\ old' = old \cup {s}
  /\ UNCHANGED <<post, worker, faults>> /\ WorkerUnchanged

\* The poller restarts, or closes a tunnel that is idle and has no connection: its
\* session has ended, or WinBox is not logged in.
TunnelEnds(s) ==
  /\ tunnel[s] = "open"
  /\ tunnel' = Closed(s)
  /\ UNCHANGED <<api, scan, post, record, worker, old, del, ws, sweepVars, faults>>

\* The TTL is longer than the lifetime of the worker's session.
RecordExpires(s) ==
  /\ s \in record \ worker
  /\ record' = record \ {s}
  /\ UNCHANGED <<api, scan, post, worker, old, tunnel, del, ws, sweepVars, faults>>

\* The API process restarts: its requests and the memory of the sweep are gone.
ApiRestarts ==
  /\ Fault
  /\ api' = [s \in Session |-> IF api[s] \in {"new", "done"} THEN api[s] ELSE "failed"]
  /\ scan' = [s \in Session |-> NoScan]
  /\ del' = [s \in Session |-> "none"]
  /\ ws' = {}
  /\ sweep' = SweepIdle /\ unknown' = {}
  /\ UNCHANGED <<post, record, worker, old, tunnel>>

Next ==
  \/ \E s \in Session :
       \/ Create(s) \/ StartTerminate(s) \/ Terminate(s) \/ WsConnect(s) \/ WsSave(s)
       \/ WorkerTakes(s) \/ WorkerAnswers(s) \/ WorkerEnds(s) \/ Ages(s)
       \/ TunnelEnds(s) \/ RecordExpires(s)
  \/ Sweep \/ SweepFails \/ WorkerRestarts \/ ApiRestarts

Spec == Init /\ [][Next]_vars

\* Requests, the sweep, and the worker's handlers run; time passes.  Users, TTLs
\* and the poller owe nothing, and the worker owes no end to a session.
Fairness ==
  /\ \A s \in Session :
       /\ WF_vars(Create(s) /\ api[s] # "new") /\ WF_vars(Terminate(s)) /\ WF_vars(WsSave(s))
       /\ WF_vars(WorkerTakes(s) \/ WorkerAnswers(s)) /\ WF_vars(Ages(s))
  /\ WF_vars(Sweep)

FairSpec == Spec /\ Fairness

-----------------------------------------------------------------------------
\* winbox_reconcile.py: "a mid-create session is never touched": pass B does not
\* terminate a session whose create request has yet to write its record.
MidCreateSpared == sweep.pc = "Bkill" => api[sweep.cur] \notin MidCreate

\* Pass B: a worker session that no record accounts for, for whatever failure in
\* create, terminate or the duplicate check, is terminated or gets its record.
OrphanReaped == \A s \in Session : s \in worker \ record ~> s \notin worker \ record

\* Pass A: a record whose session is gone, one written back by the WebSocket proxy
\* included, does not stay.
StaleRecordDropped == \A s \in Session : s \in record \ worker ~> s \notin record \ worker

\* winbox_remote.py: "Verify the worker actually has this session - if not, clean
\* up the stale Redis entry": five handlers drop records (the duplicate check of
\* another request, terminate, the rollback of a create, pass A of the sweep, the
\* TTL), most of them steps after they asked the worker.  As long as no call has
\* failed and nothing has restarted, none drops that of a session the worker has.
LiveSessionRecorded ==
  faults = MaxFaults => \A s \in Session : s \in worker /\ api[s] = "done" => s \in record
=============================================================================
