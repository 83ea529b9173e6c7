-------------------------- MODULE WinboxRemoteProofs ------------------------
(***************************************************************************)
(* The sweep spares a create request under way, for any number of sessions *)
(* and faults.  The invariant follows a session from the POST on: only a   *)
(* request that has posted has a session in the worker, and a session is   *)
(* ORPHAN_MIN_AGE_SECONDS old only when its request is past the save.      *)
(* A second invariant, of the time before the first fault, shows that no   *)
(* running session is without its record then.                             *)
(***************************************************************************)
EXTENDS WinboxRemote, TLAPS

\* Where a create request is once it has posted.
Posted == MidCreate \cup Rollback \cup Undo \cup {"done", "failed"}

PostedOnly == \A s \in Session : post[s] # "none" \/ s \in worker \/ s \in old => api[s] \in Posted

SavesWhatIsThere == \A s \in Session : api[s] = "save" => post[s] = "ok"

OldIsSettled == \A s \in Session : s \in old => api[s] \notin MidCreate

OldIsKilled == sweep.pc = "Bkill" => sweep.cur \in old

SweepInv == TypeOK /\ PostedOnly /\ SavesWhatIsThere /\ OldIsSettled /\ OldIsKilled

\* Nothing is posted and nothing is swept.
LEMMA InitInv == Init => SweepInv
<1> SUFFICES ASSUME Init PROVE SweepInv
  OBVIOUS
<1> USE RemoteAssumption DEF Init, NoScan, SweepIdle
<1>1. TypeOK
  BY DEF TypeOK
<1>2. PostedOnly /\ SavesWhatIsThere /\ OldIsSettled /\ OldIsKilled
  BY DEF PostedOnly, SavesWhatIsThere, OldIsSettled, OldIsKilled
<1> QED BY <1>1, <1>2 DEF SweepInv

\* A create request: only its own label moves, and forward.
LEMMA CreateStep ==
  ASSUME SweepInv, NEW s \in Session, Create(s)
  PROVE  SweepInv'
<1> USE RemoteAssumption DEF SweepInv, MidCreate, Rollback, Undo
<1>1. CASE StartCreate(s)
  <2> USE <1>1 DEF StartCreate, Goto, sweepVars
  <2>1. TypeOK'
    BY DEF TypeOK
  <2>2. (PostedOnly /\ SavesWhatIsThere /\ OldIsSettled /\ OldIsKilled)'
    BY DEF TypeOK, PostedOnly, SavesWhatIsThere, OldIsSettled, OldIsKilled, Posted
  <2> QED BY <2>1, <2>2
<1>2. CASE \E k \in Session : CheckDuplicate(s, k)
  <2> USE <1>2 DEF CheckDuplicate, Goto, NoScan, sweepVars, Works, Fault
  <2>1. TypeOK'
    BY DEF TypeOK
  <2>2. (PostedOnly /\ SavesWhatIsThere /\ OldIsSettled /\ OldIsKilled)'
    BY DEF TypeOK, PostedOnly, SavesWhatIsThere, OldIsSettled, OldIsKilled, Posted
  <2> QED BY <2>1, <2>2
<1>3. CASE CloseStale(s)
  <2> USE <1>3 DEF CloseStale, _close_tunnel, Closed, Goto, sweepVars, Works, Fault
  <2>1. TypeOK'
    BY DEF TypeOK
  <2>2. (PostedOnly /\ SavesWhatIsThere /\ OldIsSettled /\ OldIsKilled)'
    BY DEF TypeOK, PostedOnly, SavesWhatIsThere, OldIsSettled, OldIsKilled, Posted
  <2> QED BY <2>1, <2>2
<1>4. CASE DropStale(s)
  <2> USE <1>4 DEF DropStale, Goto, NoScan, sweepVars, Works, Fault
  <2>1. TypeOK'
    BY DEF TypeOK
  <2>2. (PostedOnly /\ SavesWhatIsThere /\ OldIsSettled /\ OldIsKilled)'
    BY DEF TypeOK, PostedOnly, SavesWhatIsThere, OldIsSettled, OldIsKilled, Posted
  <2> QED BY <2>1, <2>2
<1>5. CASE CheckRate(s)
  <2> USE <1>5 DEF CheckRate, Goto, sweepVars
  <2>1. TypeOK'
    BY DEF TypeOK
  <2>2. (PostedOnly /\ SavesWhatIsThere /\ OldIsSettled /\ OldIsKilled)'
    BY DEF TypeOK, PostedOnly, SavesWhatIsThere, OldIsSettled, OldIsKilled, Posted
  <2> QED BY <2>1, <2>2
<1>6. CASE OpenTunnel(s)
  <2> USE <1>6 DEF OpenTunnel, Goto, sweepVars, Works, Fault
  <2>1. TypeOK'
    BY DEF TypeOK
  <2>2. (PostedOnly /\ SavesWhatIsThere /\ OldIsSettled /\ OldIsKilled)'
    BY DEF TypeOK, PostedOnly, SavesWhatIsThere, OldIsSettled, OldIsKilled, Posted
  <2> QED BY <2>1, <2>2
<1>7. CASE PostSession(s)
  <2> USE <1>7 DEF PostSession, Goto, sweepVars
  <2>1. TypeOK'
    BY DEF TypeOK, PostedOnly, Posted
  <2>2. (PostedOnly /\ SavesWhatIsThere /\ OldIsSettled /\ OldIsKilled)'
    BY DEF TypeOK, PostedOnly, SavesWhatIsThere, OldIsSettled, OldIsKilled, Posted
  <2> QED BY <2>1, <2>2
<1>8. CASE PostAnswered(s)
  <2> USE <1>8 DEF PostAnswered, Goto, sweepVars, Works, Fault
  <2>1. TypeOK'
    BY DEF TypeOK
  <2>2. (PostedOnly /\ SavesWhatIsThere /\ OldIsSettled /\ OldIsKilled)'
    BY DEF TypeOK, PostedOnly, SavesWhatIsThere, OldIsSettled, OldIsKilled, Posted
  <2> QED BY <2>1, <2>2
<1>9. CASE SaveSession(s)
  <2> USE <1>9 DEF SaveSession, Goto, sweepVars, Works, Fault
  <2>1. TypeOK'
    BY DEF TypeOK, SavesWhatIsThere
  <2>2. (PostedOnly /\ SavesWhatIsThere /\ OldIsSettled /\ OldIsKilled)'
    BY DEF TypeOK, PostedOnly, SavesWhatIsThere, OldIsSettled, OldIsKilled, Posted
  <2> QED BY <2>1, <2>2
<1>10. CASE RollbackWorker(s)
  <2> USE <1>10 DEF RollbackWorker, terminate_session, Gone, Goto, sweepVars, Works, Fault
  <2>1. TypeOK'
    BY DEF TypeOK
  <2>2. (PostedOnly /\ SavesWhatIsThere /\ OldIsSettled /\ OldIsKilled)'
    BY DEF TypeOK, PostedOnly, SavesWhatIsThere, OldIsSettled, OldIsKilled, Posted
  <2> QED BY <2>1, <2>2
<1>11. CASE RollbackTunnel(s)
  <2> USE <1>11 DEF RollbackTunnel, _close_tunnel, Closed, Goto, sweepVars, Works, Fault
  <2>1. TypeOK'
    BY DEF TypeOK
  <2>2. (PostedOnly /\ SavesWhatIsThere /\ OldIsSettled /\ OldIsKilled)'
    BY DEF TypeOK, PostedOnly, SavesWhatIsThere, OldIsSettled, OldIsKilled, Posted
  <2> QED BY <2>1, <2>2
<1>12. CASE RollbackRedis(s)
  <2> USE <1>12 DEF RollbackRedis, Goto, sweepVars, Works, Fault
  <2>1. TypeOK'
    BY DEF TypeOK
  <2>2. (PostedOnly /\ SavesWhatIsThere /\ OldIsSettled /\ OldIsKilled)'
    BY DEF TypeOK, PostedOnly, SavesWhatIsThere, OldIsSettled, OldIsKilled, Posted
  <2> QED BY <2>1, <2>2
<1> QED BY <1>1, <1>2, <1>3, <1>4, <1>5, <1>6, <1>7, <1>8, <1>9, <1>10, <1>11, <1>12 DEF Create

\* A terminate request or a WebSocket proxy: no request that creates is concerned.
LEMMA TerminateStep ==
  ASSUME SweepInv, NEW s \in Session, StartTerminate(s) \/ Terminate(s) \/ WsConnect(s) \/ WsSave(s)
  PROVE  SweepInv'
<1> USE RemoteAssumption DEF SweepInv, MidCreate, Rollback, Undo
<1>1. CASE StartTerminate(s)
  <2> USE <1>1 DEF StartTerminate, sweepVars
  <2>1. TypeOK'
    BY DEF TypeOK
  <2>2. (PostedOnly /\ SavesWhatIsThere /\ OldIsSettled /\ OldIsKilled)'
    BY DEF TypeOK, PostedOnly, SavesWhatIsThere, OldIsSettled, OldIsKilled, Posted
  <2> QED BY <2>1, <2>2
<1>2. CASE TerminateWorker(s)
  <2> USE <1>2 DEF TerminateWorker, terminate_session, Gone, sweepVars, Works, Fault
  <2>1. TypeOK'
    BY DEF TypeOK
  <2>2. (PostedOnly /\ SavesWhatIsThere /\ OldIsSettled /\ OldIsKilled)'
    BY DEF TypeOK, PostedOnly, SavesWhatIsThere, OldIsSettled, OldIsKilled, Posted
  <2> QED BY <2>1, <2>2
<1>3. CASE TerminateTunnel(s)
  <2> USE <1>3 DEF TerminateTunnel, _close_tunnel, Closed, sweepVars, Works, Fault
  <2>1. TypeOK'
    BY DEF TypeOK
  <2>2. (PostedOnly /\ SavesWhatIsThere /\ OldIsSettled /\ OldIsKilled)'
    BY DEF TypeOK, PostedOnly, SavesWhatIsThere, OldIsSettled, OldIsKilled, Posted
  <2> QED BY <2>1, <2>2
<1>4. CASE TerminateRedis(s)
  <2> USE <1>4 DEF TerminateRedis, sweepVars, Works, Fault
  <2>1. TypeOK'
    BY DEF TypeOK
  <2>2. (PostedOnly /\ SavesWhatIsThere /\ OldIsSettled /\ OldIsKilled)'
    BY DEF TypeOK, PostedOnly, SavesWhatIsThere, OldIsSettled, OldIsKilled, Posted
  <2> QED BY <2>1, <2>2
<1>5. CASE WsConnect(s)
  <2> USE <1>5 DEF WsConnect, sweepVars
  <2>1. TypeOK'
    BY DEF TypeOK
  <2>2. (PostedOnly /\ SavesWhatIsThere /\ OldIsSettled /\ OldIsKilled)'
    BY DEF TypeOK, PostedOnly, SavesWhatIsThere, OldIsSettled, OldIsKilled, Posted
  <2> QED BY <2>1, <2>2
<1>6. CASE WsSave(s)
  <2> USE <1>6 DEF WsSave, sweepVars, Works, Fault
  <2>1. TypeOK'
    BY DEF TypeOK
  <2>2. (PostedOnly /\ SavesWhatIsThere /\ OldIsSettled /\ OldIsKilled)'
    BY DEF TypeOK, PostedOnly, SavesWhatIsThere, OldIsSettled, OldIsKilled, Posted
  <2> QED BY <2>1, <2>2
<1> QED BY <1>1, <1>2, <1>3, <1>4, <1>5, <1>6 DEF Terminate

\* The sweep: it is about to terminate a session only if the session is old.
LEMMA SweepStep ==
  ASSUME SweepInv, Sweep \/ SweepFails
  PROVE  SweepInv'
<1> USE RemoteAssumption DEF SweepInv, MidCreate, Rollback, Undo
<1>1. CASE StartSweep
  <2> USE <1>1 DEF StartSweep, SweepUnchanged, SweepIdle
  <2>1. TypeOK'
    BY DEF TypeOK
  <2>2. (PostedOnly /\ SavesWhatIsThere /\ OldIsSettled /\ OldIsKilled)'
    BY DEF TypeOK, PostedOnly, SavesWhatIsThere, OldIsSettled, OldIsKilled, Posted
  <2> QED BY <2>1, <2>2
<1>2. CASE \E k \in Session : PassA(k)
  <2> PICK k \in Session : PassA(k)
    BY <1>2
  <2>0. PICK pc \in {"A", "Atunnel"}, cur \in {k, None} :
          sweep' = [sweep EXCEPT !.pc = pc, !.cur = cur, !.todo = @ \ {k}]
    BY DEF PassA
  <2>a. sweep.todo \ {k} \subseteq Session /\ cur \in Session \cup {None}
    BY DEF TypeOK
  <2>1. sweep' \in [pc : {"idle", "A", "Atunnel", "Aredis", "B", "Bkill"}, todo : SUBSET Session,
                   cur : Session \cup {None}, seen : SUBSET Session]
    BY <2>0, <2>a DEF TypeOK
  <2>2. sweep'.pc # "Bkill"
    BY <2>0 DEF TypeOK
  <2>3. TypeOK'
    BY <2>1 DEF TypeOK, PassA, SweepUnchanged, Works, Fault
  <2>4. (PostedOnly /\ SavesWhatIsThere /\ OldIsSettled /\ OldIsKilled)'
    BY <2>2 DEF PassA, SweepUnchanged, PostedOnly, SavesWhatIsThere, OldIsSettled, OldIsKilled
  <2> QED BY <2>3, <2>4
<1>3. CASE PassATunnel
  <2> USE <1>3 DEF PassATunnel, SweepUnchanged, _close_tunnel, Closed, Works, Fault
  <2>1. TypeOK'
    BY DEF TypeOK
  <2>2. (PostedOnly /\ SavesWhatIsThere /\ OldIsSettled /\ OldIsKilled)'
    BY DEF TypeOK, PostedOnly, SavesWhatIsThere, OldIsSettled, OldIsKilled, Posted
  <2> QED BY <2>1, <2>2
<1>4. CASE PassARedis
  <2> USE <1>4 DEF PassARedis, SweepUnchanged
  <2>1. TypeOK'
    BY DEF TypeOK
  <2>2. (PostedOnly /\ SavesWhatIsThere /\ OldIsSettled /\ OldIsKilled)'
    BY DEF TypeOK, PostedOnly, SavesWhatIsThere, OldIsSettled, OldIsKilled, Posted
  <2> QED BY <2>1, <2>2
<1>5. CASE ListSessions
  <2> USE <1>5 DEF ListSessions, SweepUnchanged, Works, Fault
  <2>0. \E S \in {worker, {}} : sweep' = [pc |-> "B", todo |-> S, cur |-> None, seen |-> {}]
    BY DEF SweepIdle
  <2>1. sweep' \in [pc : {"idle", "A", "Atunnel", "Aredis", "B", "Bkill"}, todo : SUBSET Session,
                   cur : Session \cup {None}, seen : SUBSET Session]
    BY <2>0 DEF TypeOK
  <2>2. sweep'.pc # "Bkill"
    BY <2>0
  <2>3. TypeOK'
    BY <2>1 DEF TypeOK
  <2>4. (PostedOnly /\ SavesWhatIsThere /\ OldIsSettled /\ OldIsKilled)'
    BY <2>2 DEF TypeOK, PostedOnly, SavesWhatIsThere, OldIsSettled, OldIsKilled
  <2> QED BY <2>3, <2>4
<1>6. CASE \E k \in Session : PassB(k)
  <2> PICK k \in Session : PassB(k)
    BY <1>6
  <2>0. PICK pc \in {"B", "Bkill"}, cur \in {k, None}, seen \in {sweep.seen, sweep.seen \cup {k}} :
          sweep' = [sweep EXCEPT !.todo = @ \ {k}, !.pc = pc, !.cur = cur, !.seen = seen]
    BY DEF PassB
  <2>a. sweep.todo \ {k} \subseteq Session /\ cur \in Session \cup {None} /\ seen \subseteq Session
    BY DEF TypeOK
  <2>1. sweep' \in [pc : {"idle", "A", "Atunnel", "Aredis", "B", "Bkill"}, todo : SUBSET Session,
                   cur : Session \cup {None}, seen : SUBSET Session]
    BY <2>0, <2>a DEF TypeOK
  <2> USE DEF PassB, SweepUnchanged
  <2>2. sweep'.pc = "Bkill" => k \in old /\ sweep'.cur = k
    BY DEF TypeOK
  <2>3. TypeOK'
    BY <2>1 DEF TypeOK
  <2>4. (PostedOnly /\ SavesWhatIsThere /\ OldIsSettled /\ OldIsKilled)'
    BY <2>2 DEF TypeOK, PostedOnly, SavesWhatIsThere, OldIsSettled, OldIsKilled
  <2> QED BY <2>3, <2>4
<1>7. CASE PassBKill
  <2> USE <1>7 DEF PassBKill, SweepUnchanged, terminate_session, Gone, Works, Fault
  <2>1. sweep' \in [pc : {"idle", "A", "Atunnel", "Aredis", "B", "Bkill"}, todo : SUBSET Session,
                   cur : Session \cup {None}, seen : SUBSET Session]
    BY DEF TypeOK
  <2>2. sweep'.pc # "Bkill"
    BY DEF TypeOK
  <2>3. TypeOK'
    BY <2>1 DEF TypeOK
  <2>4. (PostedOnly /\ SavesWhatIsThere /\ OldIsSettled /\ OldIsKilled)'
    BY <2>2 DEF TypeOK, PostedOnly, SavesWhatIsThere, OldIsSettled, OldIsKilled
  <2> QED BY <2>3, <2>4
<1>8. CASE EndSweep
  <2> USE <1>8 DEF EndSweep, SweepUnchanged, SweepIdle
  <2>1. TypeOK'
    BY DEF TypeOK
  <2>2. (PostedOnly /\ SavesWhatIsThere /\ OldIsSettled /\ OldIsKilled)'
    BY DEF TypeOK, PostedOnly, SavesWhatIsThere, OldIsSettled, OldIsKilled, Posted
  <2> QED BY <2>1, <2>2
<1>9. CASE SweepFails
  <2> USE <1>9 DEF SweepFails, SweepUnchanged, SweepIdle, Fault
  <2>1. TypeOK'
    BY DEF TypeOK
  <2>2. (PostedOnly /\ SavesWhatIsThere /\ OldIsSettled /\ OldIsKilled)'
    BY DEF TypeOK, PostedOnly, SavesWhatIsThere, OldIsSettled, OldIsKilled, Posted
  <2> QED BY <2>1, <2>2
<1> QED BY <1>1, <1>2, <1>3, <1>4, <1>5, <1>6, <1>7, <1>8, <1>9 DEF Sweep

\* The worker, the poller, Redis: the worker takes what was posted, and a session ages once its request is past the save.
LEMMA WorkerStep ==
  ASSUME SweepInv, NEW s \in Session,
         WorkerTakes(s) \/ WorkerAnswers(s) \/ WorkerEnds(s) \/ Ages(s) \/ TunnelEnds(s) \/ RecordExpires(s)
  PROVE  SweepInv'
<1> USE RemoteAssumption DEF SweepInv, MidCreate, Rollback, Undo
<1>1. CASE WorkerTakes(s)
  <2> USE <1>1 DEF WorkerTakes, WorkerUnchanged, sweepVars
  <2>1. TypeOK'
    BY DEF TypeOK
  <2>2. (PostedOnly /\ SavesWhatIsThere /\ OldIsSettled /\ OldIsKilled)'
    BY DEF TypeOK, PostedOnly, SavesWhatIsThere, OldIsSettled, OldIsKilled, Posted
  <2> QED BY <2>1, <2>2
<1>2. CASE WorkerAnswers(s)
  <2> USE <1>2 DEF WorkerAnswers, WorkerUnchanged, Gone, sweepVars
  <2>1. TypeOK'
    BY DEF TypeOK
  <2>2. (PostedOnly /\ SavesWhatIsThere /\ OldIsSettled /\ OldIsKilled)'
    BY DEF TypeOK, PostedOnly, SavesWhatIsThere, OldIsSettled, OldIsKilled, Posted
  <2> QED BY <2>1, <2>2
<1>3. CASE WorkerEnds(s)
  <2> USE <1>3 DEF WorkerEnds, WorkerUnchanged, Gone, sweepVars
  <2>1. TypeOK'
    BY DEF TypeOK
  <2>2. (PostedOnly /\ SavesWhatIsThere /\ OldIsSettled /\ OldIsKilled)'
    BY DEF TypeOK, PostedOnly, SavesWhatIsThere, OldIsSettled, OldIsKilled, Posted
  <2> QED BY <2>1, <2>2
<1>4. CASE Ages(s)
  <2> USE <1>4 DEF Ages, WorkerUnchanged, sweepVars
  <2>1. TypeOK'
    BY DEF TypeOK
  <2>2. (PostedOnly /\ SavesWhatIsThere /\ OldIsSettled /\ OldIsKilled)'
    BY DEF TypeOK, PostedOnly, SavesWhatIsThere, OldIsSettled, OldIsKilled, Posted
  <2> QED BY <2>1, <2>2
<1>5. CASE TunnelEnds(s)
  <2> USE <1>5 DEF TunnelEnds, Closed, sweepVars
  <2>1. TypeOK'
    BY DEF TypeOK
  <2>2. (PostedOnly /\ SavesWhatIsThere /\ OldIsSettled /\ OldIsKilled)'
    BY DEF TypeOK, PostedOnly, SavesWhatIsThere, OldIsSettled, OldIsKilled, Posted
  <2> QED BY <2>1, <2>2
<1>6. CASE RecordExpires(s)
  <2> USE <1>6 DEF RecordExpires, sweepVars
  <2>1. TypeOK'
    BY DEF TypeOK
  <2>2. (PostedOnly /\ SavesWhatIsThere /\ OldIsSettled /\ OldIsKilled)'
    BY DEF TypeOK, PostedOnly, SavesWhatIsThere, OldIsSettled, OldIsKilled, Posted
  <2> QED BY <2>1, <2>2
<1> QED BY <1>1, <1>2, <1>3, <1>4, <1>5, <1>6

\* A restart: of the worker, whose sessions end, or of the API, whose requests end.
LEMMA RestartStep ==
  ASSUME SweepInv, WorkerRestarts \/ ApiRestarts
  PROVE  SweepInv'
<1> USE RemoteAssumption DEF SweepInv, MidCreate, Rollback, Undo
<1>1. CASE WorkerRestarts
  <2> USE <1>1 DEF WorkerRestarts, WorkerUnchanged, sweepVars, Fault
  <2>1. TypeOK'
    BY DEF TypeOK
  <2>2. (PostedOnly /\ SavesWhatIsThere /\ OldIsSettled /\ OldIsKilled)'
    BY DEF TypeOK, PostedOnly, SavesWhatIsThere, OldIsSettled, OldIsKilled, Posted
  <2> QED BY <2>1, <2>2
<1>2. CASE ApiRestarts
  <2> USE <1>2 DEF ApiRestarts, SweepIdle, NoScan, Fault
  <2>1. TypeOK'
    BY DEF TypeOK
  <2>2. (PostedOnly /\ SavesWhatIsThere /\ OldIsSettled /\ OldIsKilled)'
    BY DEF TypeOK, PostedOnly, SavesWhatIsThere, OldIsSettled, OldIsKilled, Posted
  <2> QED BY <2>1, <2>2
<1> QED BY <1>1, <1>2

-----------------------------------------------------------------------------
\* The invariant holds throughout.
LEMMA SweepInvariant == Spec => []SweepInv
<1>1. SweepInv /\ [Next]_vars => SweepInv'
  <2> SUFFICES ASSUME SweepInv, [Next]_vars PROVE SweepInv'
    OBVIOUS
  <2>1. CASE Next
    BY <2>1, CreateStep, TerminateStep, SweepStep, WorkerStep, RestartStep DEF Next
  <2>2. CASE UNCHANGED vars
    BY <2>2 DEF vars, sweepVars, SweepInv, TypeOK, PostedOnly, SavesWhatIsThere, OldIsSettled, OldIsKilled
  <2> QED BY <2>1, <2>2
<1> QED BY InitInv, <1>1, PTL DEF Spec

\* A record, and a WebSocket that may write it again, is only ever of a
\* session whose creation the worker has confirmed.
THEOREM RecordsAreConfirmed == Spec => [](\A s \in record \cup ws : post[s] = "ok")
<1>1. SweepInv => \A s \in record \cup ws : post[s] = "ok"
  BY DEF SweepInv, TypeOK
<1> QED BY <1>1, SweepInvariant, PTL

\* Pass B of the sweep never terminates a session whose create request has
\* yet to write its record.
THEOREM MidCreateNeverKilled == Spec => []MidCreateSpared
<1>1. SweepInv => MidCreateSpared
  BY DEF SweepInv, OldIsKilled, OldIsSettled, MidCreateSpared, TypeOK
<1> QED BY <1>1, SweepInvariant, PTL

-----------------------------------------------------------------------------
\* Sessions the worker confirmed and has no more: it never has them again.
Ended == {s \in Session : post[s] = "ok" /\ s \notin worker}

\* Before the first fault: whoever is about to clean up after a session found
\* that it had ended, and no create is undone after its session was confirmed.
Clean ==
  /\ \A s \in Session : s \in worker /\ api[s] = "done" => s \in record
  /\ \A s \in Session : api[s] \in {"staleTunnel", "staleRedis"} => scan[s].cur \in Ended
  /\ \A s \in Session : api[s] \notin Undo
  /\ \A s \in Session : api[s] = "done" => post[s] = "ok"
  /\ \A s \in Session : del[s] # "none" => post[s] = "ok"
  /\ \A s \in Session : del[s] \in {"tunnel", "redis"} => s \in Ended
  /\ sweep.pc \in {"Atunnel", "Aredis"} => sweep.cur \in Ended

CleanInv == faults = MaxFaults => Clean

\* No step but a fault leaves the count of faults.
LEMMA NoFault ==
  ASSUME TypeOK, faults' = MaxFaults
  PROVE  ~Fault
BY RemoteAssumption DEF TypeOK, Fault

\* A create request.
LEMMA CreateClean ==
  ASSUME SweepInv, Clean, NEW s \in Session, Create(s), ~Fault
  PROVE  Clean'
<1> USE DEF SweepInv, Clean, Ended, TypeOK, MidCreate, Rollback, Undo, Goto, NoScan, sweepVars
<1>1. CASE StartCreate(s)
  BY <1>1 DEF StartCreate
<1>2. CASE \E k \in Session : CheckDuplicate(s, k)
  <2> PICK k \in Session : CheckDuplicate(s, k)
    BY <1>2
  <2>1. \/ api' = [api EXCEPT ![s] = "failed"]
        \/ api' = [api EXCEPT ![s] = "scan"]
        \/ api' = [api EXCEPT ![s] = "staleTunnel"] /\ scan'[s].cur = k /\ k \in Ended
    BY DEF CheckDuplicate
  <2>2. \A t \in Session \ {s} : scan'[t] = scan[t] /\ api'[t] = api[t]
    BY DEF CheckDuplicate
  <2>3. \/ api'[s] \in {"failed", "scan"}
        \/ api'[s] = "staleTunnel" /\ scan'[s].cur \in Ended
    BY <2>1
  <2>4. UNCHANGED <<post, record, worker, del, sweep>>
    BY DEF CheckDuplicate
  <2> QED BY <2>2, <2>3, <2>4
<1>3. CASE CloseStale(s)
  BY <1>3 DEF CloseStale
<1>4. CASE DropStale(s)
  BY <1>4 DEF DropStale
<1>5. CASE CheckRate(s)
  BY <1>5 DEF CheckRate
<1>6. CASE OpenTunnel(s)
  BY <1>6 DEF OpenTunnel
<1>7. CASE PostSession(s)
  BY <1>7 DEF PostSession, PostedOnly, Posted
<1>8. CASE PostAnswered(s)
  BY <1>8 DEF PostAnswered
<1>9. CASE SaveSession(s)
  BY <1>9 DEF SaveSession, SavesWhatIsThere
<1>10. CASE RollbackWorker(s)
  BY <1>10 DEF RollbackWorker, terminate_session, Gone
<1>11. CASE RollbackTunnel(s)
  BY <1>11 DEF RollbackTunnel
<1>12. CASE RollbackRedis(s)
  BY <1>12 DEF RollbackRedis
<1> QED BY <1>1, <1>2, <1>3, <1>4, <1>5, <1>6, <1>7, <1>8, <1>9, <1>10, <1>11, <1>12 DEF Create

\* A terminate request or a WebSocket proxy.
LEMMA TerminateClean ==
  ASSUME SweepInv, Clean, NEW s \in Session, ~Fault,
         StartTerminate(s) \/ Terminate(s) \/ WsConnect(s) \/ WsSave(s)
  PROVE  Clean'
<1> USE DEF SweepInv, Clean, Ended, TypeOK, Undo, sweepVars
<1>1. CASE StartTerminate(s)
  BY <1>1 DEF StartTerminate
<1>2. CASE TerminateWorker(s)
  BY <1>2 DEF TerminateWorker, terminate_session, Gone
<1>3. CASE TerminateTunnel(s)
  BY <1>3 DEF TerminateTunnel
<1>4. CASE TerminateRedis(s)
  BY <1>4 DEF TerminateRedis
<1>5. CASE WsConnect(s)
  BY <1>5 DEF WsConnect
<1>6. CASE WsSave(s)
  BY <1>6 DEF WsSave
<1> QED BY <1>1, <1>2, <1>3, <1>4, <1>5, <1>6 DEF Terminate

\* The sweep.
LEMMA SweepClean ==
  ASSUME SweepInv, Clean, ~Fault, Sweep \/ SweepFails
  PROVE  Clean'
<1> USE DEF SweepInv, Clean, Ended, TypeOK, Undo, SweepUnchanged
<1>1. CASE StartSweep
  BY <1>1 DEF StartSweep, SweepIdle
<1>2. CASE \E k \in Session : PassA(k)
  BY <1>2 DEF PassA
<1>3. CASE PassATunnel
  BY <1>3 DEF PassATunnel
<1>4. CASE PassARedis
  BY <1>4 DEF PassARedis
<1>5. CASE ListSessions
  <2>1. sweep' = [pc |-> "B", todo |-> worker, cur |-> None, seen |-> {}]
    <3> HIDE DEF SweepInv, Clean, Ended, TypeOK, Undo, SweepUnchanged
    <3> QED BY <1>5 DEF ListSessions, SweepIdle
  <2>2. sweep'.pc = "B"
    BY <2>1
  <2> QED BY <1>5, <2>2 DEF ListSessions
<1>6. CASE \E k \in Session : PassB(k)
  BY <1>6 DEF PassB
<1>7. CASE PassBKill
  BY <1>7 DEF PassBKill, terminate_session, Gone
<1>8. CASE EndSweep
  BY <1>8 DEF EndSweep, SweepIdle
<1>9. CASE SweepFails
  BY <1>9 DEF SweepFails
<1> QED BY <1>1, <1>2, <1>3, <1>4, <1>5, <1>6, <1>7, <1>8, <1>9 DEF Sweep

\* The worker, the poller and Redis.
LEMMA WorkerClean ==
  ASSUME SweepInv, Clean, NEW s \in Session,
         WorkerTakes(s) \/ WorkerAnswers(s) \/ WorkerEnds(s) \/ Ages(s) \/ TunnelEnds(s) \/ RecordExpires(s)
  PROVE  Clean'
<1> USE DEF SweepInv, Clean, Ended, TypeOK, Undo, sweepVars
<1>1. CASE WorkerTakes(s)
  BY <1>1 DEF WorkerTakes, WorkerUnchanged, PostedOnly, Posted
<1>2. CASE WorkerAnswers(s)
  BY <1>2 DEF WorkerAnswers, WorkerUnchanged, Gone
<1>3. CASE WorkerEnds(s)
  BY <1>3 DEF WorkerEnds, WorkerUnchanged, Gone
<1>4. CASE Ages(s)
  BY <1>4 DEF Ages, WorkerUnchanged
<1>5. CASE TunnelEnds(s)
  BY <1>5 DEF TunnelEnds
<1>6. CASE RecordExpires(s)
  BY <1>6 DEF RecordExpires
<1> QED BY <1>1, <1>2, <1>3, <1>4, <1>5, <1>6

\* The duplicate check, terminate, the sweep and the TTL, each steps after it
\* asked the worker, drop no record of a session the worker has, as long as no
\* call has failed and nothing has restarted.
THEOREM LiveSessionsKeepTheirRecord == Spec => []LiveSessionRecorded
<1>1. Init => CleanInv
  BY DEF Init, CleanInv, Clean, Undo, SweepIdle
<1>2. SweepInv /\ CleanInv /\ [Next]_vars => CleanInv'
  <2> SUFFICES ASSUME SweepInv, CleanInv, [Next]_vars, faults' = MaxFaults PROVE Clean'
    BY DEF CleanInv
  <2>1. ~Fault
    BY NoFault DEF SweepInv
  <2>2. CASE UNCHANGED vars
    BY <2>2 DEF vars, sweepVars, CleanInv, Clean, Ended
  <2>3. ASSUME NEW s \in Session, Create(s) PROVE Clean'
    <3>1. faults' = faults
      BY <2>1, <2>3 DEF Create, StartCreate, CheckDuplicate, CloseStale, DropStale, CheckRate,
         OpenTunnel, PostSession, PostAnswered, SaveSession, RollbackWorker, RollbackTunnel,
         RollbackRedis, terminate_session, _close_tunnel, Works
    <3> QED BY <2>1, <2>3, <3>1, CreateClean DEF CleanInv
  <2>4. ASSUME NEW s \in Session, StartTerminate(s) \/ Terminate(s) \/ WsConnect(s) \/ WsSave(s)
        PROVE  Clean'
    <3>1. faults' = faults
      BY <2>1, <2>4 DEF StartTerminate, Terminate, TerminateWorker, TerminateTunnel,
         TerminateRedis, WsConnect, WsSave, terminate_session, _close_tunnel, Works
    <3> QED BY <2>1, <2>4, <3>1, TerminateClean DEF CleanInv
  <2>5. ASSUME Sweep \/ SweepFails PROVE Clean'
    <3>1. faults' = faults
      BY <2>1, <2>5 DEF Sweep, SweepFails, StartSweep, PassATunnel, PassARedis, ListSessions,
         PassBKill, EndSweep, PassA, PassB, terminate_session, _close_tunnel, Works
    <3> QED BY <2>1, <2>5, <3>1, SweepClean DEF CleanInv
  <2>6. ASSUME NEW s \in Session,
               WorkerTakes(s) \/ WorkerAnswers(s) \/ WorkerEnds(s) \/ Ages(s) \/ TunnelEnds(s)
               \/ RecordExpires(s)
        PROVE  Clean'
    <3>1. faults' = faults
      BY <2>6 DEF WorkerTakes, WorkerAnswers, WorkerEnds, Ages, TunnelEnds, RecordExpires
    <3> QED BY <2>6, <3>1, WorkerClean DEF CleanInv
  <2>7. ~WorkerRestarts /\ ~ApiRestarts
    BY <2>1 DEF WorkerRestarts, ApiRestarts
  <2> QED BY <2>2, <2>3, <2>4, <2>5, <2>6, <2>7 DEF Next
<1>3. CleanInv => LiveSessionRecorded
  BY DEF CleanInv, Clean, LiveSessionRecorded
<1> QED BY <1>1, <1>2, <1>3, SweepInvariant, PTL DEF Spec
=============================================================================
