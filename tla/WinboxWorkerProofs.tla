------------------------- MODULE WinboxWorkerProofs -------------------------
(***************************************************************************)
(* Theorems about the worker's session manager, for any set of sessions,   *)
(* displays, ports, any capacity and any subset of the faults.             *)
(***************************************************************************)
EXTENDS WinboxWorker, FiniteSetTheorems, TLAPS

\* How the fields of one session move together: the creator's position, the
\* teardown's position, the state, the map entry, the handle and the processes.
Lifecycle(s) ==
  /\ state[s] \in Down <=> tpc[s] # "none"
  /\ state[s] = "terminated" <=> tpc[s] \in {"finish", "done"}
  /\ s \in sessions <=> state[s] # "absent" /\ tpc[s] # "done"
  /\ state[s] # "absent" => display[s] \in Display /\ wsPort[s] \in WsPort
  /\ state[s] = "absent" => cpc[s] = "none"
  /\ cpc[s] \in {"none", "tmpdir", "start"} => proc[s] = "none"
  /\ attached[s] => cpc[s] \in {"wait", "activate", "done"}
  /\ snapProc[s] => attached[s]
  /\ xvfb[s] # "none" => proc[s] # "none"
  /\ proc[s] = "running" /\ snapProc[s] /\ tpc[s] \notin {"none", "kill"} => s \in unkilled
  /\ xvfb[s] = "up" /\ snapProc[s] /\ tpc[s] \notin {"none", "kill", "xvfb"} => s \in unkilled

LifecycleOK == \A s \in Session : Lifecycle(s)

USE DEF slotVars, procVars, tearVars, graceVars

\* What terminateSession may assign.
LEMMA TerminateType ==
  ASSUME TypeOK, NEW s \in Session, terminateSession(s)
  PROVE  /\ state' \in [Session -> States]
         /\ tpc' \in [Session -> {"none", "kill", "xvfb", "cleanup", "release", "finish", "done"}]
         /\ snapProc' \in [Session -> BOOLEAN]
         /\ snapDir' \in [Session -> BOOLEAN]
         /\ graceGen' \in [Session -> Nat]
         /\ armed' \subseteq Session
<1>1. CASE s \notin sessions \/ state[s] \in Down
  BY <1>1 DEF terminateSession, TypeOK
<1>2. CASE s \in sessions /\ state[s] \notin Down
  <2>1. /\ state' \in [Session -> States]
        /\ tpc' \in [Session -> {"none", "kill", "xvfb", "cleanup", "release", "finish", "done"}]
        /\ graceGen' \in [Session -> Nat]
        /\ armed' \subseteq Session
    BY <1>2 DEF terminateSession, TypeOK, States
  <2>2. snapProc' \in [Session -> BOOLEAN]
    BY <1>2 DEF terminateSession, TypeOK
  <2>3. snapDir' \in [Session -> BOOLEAN]
    BY ZenonT(30), <1>2 DEF terminateSession, TypeOK
  <2> QED BY <2>1, <2>2, <2>3
<1> QED BY <1>1, <1>2

\* Initially everything is typed and every session is absent.
LEMMA InitOK == Init => TypeOK /\ LifecycleOK
BY WorkerAssumption
   DEF Init, TypeOK, States, Clients, PollIdle, Unknown, LifecycleOK, Lifecycle, Down

\* Every step keeps every variable in its type.  Only releasing the slots needs
\* more than the types: a display of None must not reach the pool.
LEMMA TypeStep == TypeOK /\ LifecycleOK /\ [Next]_vars => TypeOK'
<1> SUFFICES ASSUME TypeOK, LifecycleOK, [Next]_vars PROVE TypeOK'
  OBVIOUS
<1> USE DEF States, Clients, Down
<1>1. ASSUME NEW s \in Session, NEW d \in Display, NEW p \in WsPort, CreateSession(s, d, p)
      PROVE TypeOK'
  BY SMTT(30), <1>1 DEF CreateSession, TypeOK
<1>2. ASSUME NEW s \in Session, CreateSessionTmpDir(s) PROVE TypeOK'
  <2>1. dir' \in [Session -> BOOLEAN] /\ cpc' \in [Session -> {"none", "tmpdir", "start",
                                            "attach", "wait", "activate", "done"}]
    BY ZenonT(30), <1>2 DEF CreateSessionTmpDir, FailCreate, TypeOK
  <2> QED BY <1>2, <2>1, TerminateType DEF CreateSessionTmpDir, FailCreate, TypeOK
<1>3. ASSUME NEW s \in Session, StartXpra(s) PROVE TypeOK'
  BY <1>3, TerminateType DEF StartXpra, FailCreate, TypeOK
<1>4. ASSUME NEW s \in Session, AttachProc(s) PROVE TypeOK'
  BY <1>4 DEF AttachProc, TypeOK
<1>5. ASSUME NEW s \in Session, WaitForXpraReady(s) PROVE TypeOK'
  BY <1>5, TerminateType DEF WaitForXpraReady, FailCreate, TypeOK
<1>6. ASSUME NEW s \in Session, Activate(s) PROVE TypeOK'
  BY <1>6 DEF Activate, TypeOK
<1>7. ASSUME NEW s \in Session, TerminateSession(s) PROVE TypeOK'
  BY <1>7, TerminateType DEF TerminateSession, TypeOK
<1>8. ASSUME NEW s \in Session, KillXpraSession(s) PROVE TypeOK'
  BY <1>8 DEF KillXpraSession, TypeOK
<1>9. ASSUME NEW s \in Session, KillXvfbForDisplay(s) PROVE TypeOK'
  BY <1>9 DEF KillXvfbForDisplay, TypeOK
<1>10. ASSUME NEW s \in Session, CleanupTmpDir(s) PROVE TypeOK'
  BY <1>10 DEF CleanupTmpDir, TypeOK
<1>11. ASSUME NEW s \in Session, ReleaseSlots(s) PROVE TypeOK'
  <2>1. display[s] \in Display /\ wsPort[s] \in WsPort
    BY <1>11 DEF ReleaseSlots, LifecycleOK, Lifecycle
  <2> QED BY <1>11, <2>1 DEF ReleaseSlots, TypeOK
<1>12. ASSUME NEW s \in Session, RemoveSession(s) PROVE TypeOK'
  BY <1>12 DEF RemoveSession, TypeOK
<1>13. ASSUME NEW s \in Session, watchProcessExit(s) PROVE TypeOK'
  BY <1>13, TerminateType DEF watchProcessExit, TypeOK
<1>14. ASSUME NEW s \in Session, GraceTimerFires(s) PROVE TypeOK'
  BY <1>14 DEF GraceTimerFires, TypeOK
<1>15. ASSUME NEW s \in Session, Environment(s) PROVE TypeOK'
  BY <1>15 DEF Environment, XvfbUp, XpraExits, ClientToggles, TypeOK
<1>16. ASSUME NEW d \in Display, CreateWithoutPort(d) PROVE TypeOK'
  BY <1>16 DEF CreateWithoutPort, TypeOK
<1>17. ASSUME NEW e \in expiry, Expire(e) PROVE TypeOK'
  <2>1. e \in [sess : Session, gen : Nat, pc : {"fired", "query", "cancel", "kill"}]
    BY DEF TypeOK
  <2>2. CASE ExpireCheck(e)
    BY <2>1, <2>2 DEF ExpireCheck, TypeOK
  <2>3. CASE ExpireQuery(e)
    BY SMTT(30), <2>1, <2>3 DEF ExpireQuery, TypeOK, QueryXpraStatus, Unknown
  <2>4. CASE ExpireAct(e)
    BY <2>1, <2>4, TerminateType DEF ExpireAct, cancelGrace, TypeOK
  <2> QED BY <1>17, <2>2, <2>3, <2>4 DEF Expire
<1>18. ASSUME Poll PROVE TypeOK'
  <2> DEFINE PollType == [pc : {"idle", "next", "age", "query", "act", "wait"},
                          todo : SUBSET Session, cur : Session \cup {None}, st : States,
                          ever : BOOLEAN, clients : Clients \cup {Unknown}]
  <2>1. PollIdle \in PollType
    BY DEF PollIdle
  <2>2. ASSUME NEW s \in Session PROVE PollContinue(s) \in PollType
    BY Zenon DEF PollContinue, PollIdle, TypeOK
  <2>3. ASSUME NEW s \in Session, PollTerminates(s) PROVE poll' \in PollType
    <3>1. [PollIdle EXCEPT !.pc = "wait", !.todo = poll.todo \ {s}, !.cur = s] \in PollType
      BY Zenon DEF PollIdle, TypeOK
    <3> QED BY <2>3, <2>2, <3>1 DEF PollTerminates
  <2>4. CASE PollTick
    BY Zenon, <2>4 DEF PollTick, TypeOK, PollIdle
  <2>5. CASE PollDone
    BY <2>1, <2>5 DEF PollDone, TypeOK
  <2>6. CASE PollTeardownDone
    BY Zenon, <2>6 DEF PollTeardownDone, TypeOK
  <2>7. CASE PollQuery
    <3>1. PICK n \in QueryXpraStatus(display[poll.cur]) :
            poll' = IF n = Unknown THEN PollContinue(poll.cur)
                    ELSE [poll EXCEPT !.pc = "act", !.clients = n]
      BY Zenon, <2>7 DEF PollQuery
    <3>2. n \in Clients \cup {Unknown}
      BY DEF QueryXpraStatus, TypeOK
    <3>3. PollContinue(poll.cur) \in PollType
      BY Zenon DEF PollContinue, PollIdle, TypeOK
    <3>4. [poll EXCEPT !.pc = "act", !.clients = n] \in PollType
      BY Zenon, <3>2 DEF TypeOK
    <3>5. poll' \in PollType
      BY <3>1, <3>3, <3>4
    <3> QED BY <2>7, <3>5 DEF PollQuery, TypeOK
  <2>8. ASSUME NEW s \in Session, PollSnapshot(s) PROVE TypeOK'
    BY Zenon, <2>2, <2>8 DEF PollSnapshot, TypeOK
  <2>9. ASSUME NEW s \in Session, PollLifetimeOver(s) PROVE TypeOK'
    BY Zenon, <2>3, <2>9, TerminateType DEF PollLifetimeOver, PollTerminates, TypeOK
  <2>10. ASSUME NEW s \in Session, PollLifetimeLeft(s) PROVE TypeOK'
    <3>1. CASE attached[s] /\ proc[s] = "exited"
      BY Zenon, <2>3, <2>10, <3>1, TerminateType DEF PollLifetimeLeft, PollTerminates, TypeOK
    <3>2. CASE ~(attached[s] /\ proc[s] = "exited")
      BY <2>10, <3>2 DEF PollLifetimeLeft, TypeOK
    <3> QED BY <3>1, <3>2
  <2>11. ASSUME NEW s \in Session, PollNoClient(s) PROVE TypeOK'
    <3>1. CASE PollTerminates(s)
      BY Zenon, <2>3, <2>11, <3>1, TerminateType DEF PollNoClient, PollTerminates, TypeOK
    <3>2. CASE ~PollTerminates(s)
      <4>1. poll' \in PollType
        BY <2>2, <2>11, <3>2 DEF PollNoClient
      <4> QED BY <2>11, <3>2, <4>1 DEF PollNoClient, enterGrace, TypeOK
    <3> QED BY <3>1, <3>2
  <2>12. ASSUME NEW s \in Session, PollHasClient(s) PROVE TypeOK'
    <3>1. everConnected' \in [Session -> BOOLEAN]
      BY <2>12 DEF PollHasClient, TypeOK
    <3>2. CASE PollTerminates(s)
      BY ZenonT(30), <2>3, <2>12, <3>1, <3>2, TerminateType DEF PollHasClient, PollTerminates, TypeOK
    <3>3. CASE ~PollTerminates(s)
      <4>1. poll' \in PollType
        BY <2>2, <2>12, <3>3 DEF PollHasClient
      <4> QED BY SMTT(30), <2>12, <3>1, <3>3, <4>1 DEF PollHasClient, cancelGrace, TypeOK
    <3> QED BY <3>2, <3>3
  <2> QED BY <1>18, <2>4, <2>5, <2>6, <2>7, <2>8, <2>9, <2>10, <2>11, <2>12 DEF Poll
<1>19. CASE IdsExhausted \/ UNCHANGED vars
  BY <1>19 DEF IdsExhausted, vars, TypeOK
<1> QED
  BY <1>1, <1>2, <1>3, <1>4, <1>5, <1>6, <1>7, <1>8, <1>9, <1>10, <1>11, <1>12, <1>13,
     <1>14, <1>15, <1>16, <1>17, <1>18, <1>19 DEF Next, Create, Teardown

\* What terminateSession does to the sessions: nothing, or it starts the
\* teardown of one that is in the map and not going down.
LEMMA TerminateLifecycle ==
  ASSUME TypeOK, LifecycleOK, NEW s \in Session, terminateSession(s)
  PROVE  \/ UNCHANGED <<state, tpc, snapProc>>
         \/ /\ state[s] \notin Down \cup {"absent"}
            /\ tpc[s] = "none"
            /\ state' = [state EXCEPT ![s] = "terminating"]
            /\ tpc' = [tpc EXCEPT ![s] = "kill"]
            /\ snapProc' = [snapProc EXCEPT ![s] = attached[s]]
BY SMTT(30) DEF terminateSession, LifecycleOK, Lifecycle, TypeOK, States, Down

\* A terminateSession that changes nothing else preserves the lifecycle, also
\* when the creator returns in the same step.
LEMMA TerminateStep ==
  ASSUME TypeOK, LifecycleOK, NEW s \in Session, terminateSession(s),
         UNCHANGED <<sessions, slotVars, procVars, attached>>,
         \/ UNCHANGED cpc
         \/ cpc[s] # "none" /\ (proc[s] = "none" \/ cpc[s] = "wait")
            /\ cpc' = [cpc EXCEPT ![s] = "done"]
  PROVE  LifecycleOK'
<1> SUFFICES ASSUME NEW t \in Session PROVE Lifecycle(t)'
  BY DEF LifecycleOK
<1>1. Lifecycle(t) /\ Lifecycle(s)
  BY DEF LifecycleOK
<1> QED BY <1>1, TerminateLifecycle DEF Lifecycle, TypeOK, Down, States

\* Every step preserves the lifecycle relation of every session.
LEMMA LifecycleStep == TypeOK /\ LifecycleOK /\ [Next]_vars => LifecycleOK'
<1> SUFFICES ASSUME TypeOK, LifecycleOK, [Next]_vars PROVE LifecycleOK'
  OBVIOUS
<1>0. ASSUME UNCHANGED <<sessions, state, slotVars, cpc, procVars, attached, tpc, snapProc>>
      PROVE LifecycleOK'
  BY <1>0 DEF LifecycleOK, Lifecycle
<1>1. ASSUME NEW s \in Session, NEW d \in Display, NEW p \in WsPort, CreateSession(s, d, p)
      PROVE LifecycleOK'
  BY <1>1 DEF CreateSession, LifecycleOK, Lifecycle, TypeOK, States, Down
<1>2. ASSUME NEW s \in Session, CreateSessionTmpDir(s) PROVE LifecycleOK'
  <2>1. CASE FailCreate(s)
    <3>1. proc[s] = "none"
      BY SMTT(30), <1>2 DEF CreateSessionTmpDir, LifecycleOK, Lifecycle
    <3> QED BY Zenon, <1>2, <2>1, <3>1, TerminateStep DEF CreateSessionTmpDir, FailCreate
  <2>2. CASE ~FailCreate(s)
    BY SMTT(30), <1>2, <2>2 DEF CreateSessionTmpDir, LifecycleOK, Lifecycle, TypeOK
  <2> QED BY <2>1, <2>2
<1>3. ASSUME NEW s \in Session, StartXpra(s) PROVE LifecycleOK'
  <2>1. proc[s] = "none" /\ ~attached[s] /\ ~snapProc[s]
    BY Zenon, <1>3 DEF StartXpra, LifecycleOK, Lifecycle
  <2>2. CASE FailCreate(s)
    <3>1. cpc' # [cpc EXCEPT ![s] = "attach"]
      BY <2>2 DEF FailCreate, TypeOK
    <3>2. UNCHANGED proc
      BY SMTT(30), <1>3, <3>1 DEF StartXpra
    <3> QED BY Zenon, <1>3, <2>1, <2>2, <3>2, TerminateStep DEF StartXpra, FailCreate
  <2>3. CASE ~FailCreate(s)
    BY SMTT(30), <1>3, <2>1, <2>3 DEF StartXpra, LifecycleOK, Lifecycle, TypeOK
  <2> QED BY <2>2, <2>3
<1>4. ASSUME NEW s \in Session, AttachProc(s) PROVE LifecycleOK'
  BY <1>4 DEF AttachProc, LifecycleOK, Lifecycle, TypeOK
<1>5. ASSUME NEW s \in Session, WaitForXpraReady(s) PROVE LifecycleOK'
  <2>1. CASE FailCreate(s)
    BY Zenon, <1>5, <2>1, TerminateStep DEF WaitForXpraReady, FailCreate
  <2>2. CASE ~FailCreate(s)
    BY SMTT(30), <1>5, <2>2 DEF WaitForXpraReady, LifecycleOK, Lifecycle, TypeOK
  <2> QED BY <2>1, <2>2
<1>6. ASSUME NEW s \in Session, Activate(s) PROVE LifecycleOK'
  BY <1>6 DEF Activate, LifecycleOK, Lifecycle, TypeOK, States, Down
<1>7. ASSUME NEW s \in Session, TerminateSession(s) PROVE LifecycleOK'
  BY SMTT(30), <1>7, TerminateStep DEF TerminateSession
<1>8. ASSUME NEW s \in Session, KillXpraSession(s) PROVE LifecycleOK'
  BY <1>8 DEF KillXpraSession, LifecycleOK, Lifecycle, TypeOK, States, Down
<1>9. ASSUME NEW s \in Session, KillXvfbForDisplay(s) PROVE LifecycleOK'
  BY <1>9 DEF KillXvfbForDisplay, LifecycleOK, Lifecycle, TypeOK, States, Down
<1>10. ASSUME NEW s \in Session, CleanupTmpDir(s) PROVE LifecycleOK'
  BY <1>10 DEF CleanupTmpDir, LifecycleOK, Lifecycle, TypeOK, States, Down
<1>11. ASSUME NEW s \in Session, ReleaseSlots(s) PROVE LifecycleOK'
  BY SMTT(30), <1>11 DEF ReleaseSlots, LifecycleOK, Lifecycle, TypeOK, States, Down
<1>12. ASSUME NEW s \in Session, RemoveSession(s) PROVE LifecycleOK'
  BY SMTT(30), <1>12 DEF RemoveSession, LifecycleOK, Lifecycle, TypeOK, States, Down
<1>13. ASSUME NEW s \in Session, watchProcessExit(s) PROVE LifecycleOK'
  BY <1>13, TerminateStep DEF watchProcessExit
<1>14. ASSUME NEW s \in Session, GraceTimerFires(s) PROVE LifecycleOK'
  BY SMTT(30), <1>0, <1>14 DEF GraceTimerFires
<1>15. ASSUME NEW s \in Session, Environment(s) PROVE LifecycleOK'
  BY <1>15 DEF Environment, XvfbUp, XpraExits, ClientToggles, LifecycleOK, Lifecycle, TypeOK
<1>16. ASSUME NEW d \in Display, CreateWithoutPort(d) PROVE LifecycleOK'
  BY <1>0, <1>16 DEF CreateWithoutPort
<1>17. ASSUME NEW e \in expiry, Expire(e) PROVE LifecycleOK'
  <2>1. e.sess \in Session
    BY DEF TypeOK
  <2>2. CASE ExpireCheck(e) \/ ExpireQuery(e)
    BY <1>0, <2>2 DEF ExpireCheck, ExpireQuery
  <2>3. CASE ExpireAct(e) /\ terminateSession(e.sess)
    BY Zenon, <2>1, <2>3, TerminateStep DEF ExpireAct
  <2>4. CASE ExpireAct(e) /\ cancelGrace(e.sess) /\ UNCHANGED tearVars
    BY <2>1, <2>4 DEF ExpireAct, cancelGrace, LifecycleOK, Lifecycle, TypeOK, States, Down
  <2> QED BY <1>17, <2>2, <2>3, <2>4 DEF Expire, ExpireAct
<1>18. ASSUME Poll PROVE LifecycleOK'
  <2>1. CASE PollTick \/ PollDone \/ PollTeardownDone \/ PollQuery
    BY Zenon, <1>0, <2>1 DEF PollTick, PollDone, PollTeardownDone, PollQuery
  <2>2. ASSUME NEW s \in Session, PollSnapshot(s) PROVE LifecycleOK'
    BY <1>0, <2>2 DEF PollSnapshot
  <2>3. ASSUME NEW s \in Session, PollLifetimeOver(s) PROVE LifecycleOK'
    BY <2>3, TerminateStep DEF PollLifetimeOver, PollTerminates
  <2>4. ASSUME NEW s \in Session, PollLifetimeLeft(s) PROVE LifecycleOK'
    BY <1>0, <2>4, TerminateStep DEF PollLifetimeLeft, PollTerminates
  <2>5. ASSUME NEW s \in Session, PollNoClient(s) PROVE LifecycleOK'
    <3>1. CASE PollTerminates(s)
      BY SMTT(30), <2>5, <3>1, TerminateStep DEF PollNoClient, PollTerminates
    <3>2. CASE ~PollTerminates(s)
      BY <2>5, <3>2 DEF PollNoClient, enterGrace, LifecycleOK, Lifecycle, TypeOK, States, Down
    <3> QED BY <3>1, <3>2
  <2>6. ASSUME NEW s \in Session, PollHasClient(s) PROVE LifecycleOK'
    <3>1. CASE PollTerminates(s)
      BY SMTT(30), <2>6, <3>1, TerminateStep DEF PollHasClient, PollTerminates
    <3>2. CASE ~PollTerminates(s)
      BY <2>6, <3>2 DEF PollHasClient, cancelGrace, LifecycleOK, Lifecycle, TypeOK, States, Down
    <3> QED BY <3>1, <3>2
  <2> QED BY <1>18, <2>1, <2>2, <2>3, <2>4, <2>5, <2>6 DEF Poll
<1>19. CASE IdsExhausted \/ UNCHANGED vars
  BY Zenon, <1>0, <1>19 DEF IdsExhausted, vars
<1> QED
  BY SMTT(30), <1>1, <1>2, <1>3, <1>4, <1>5, <1>6, <1>7, <1>8, <1>9, <1>10, <1>11, <1>12, <1>13,
     <1>14, <1>15, <1>16, <1>17, <1>18, <1>19 DEF Next, Create, Teardown

\* The slots of a session that takes or gives back none stay as they are.
LEMMA SlotsFrame ==
  ASSUME SlotsAccounted, UNCHANGED slotVars,
         \A s \in Session : HoldsSlots(s)' <=> HoldsSlots(s)
  PROVE  SlotsAccounted'
BY DEF SlotsAccounted

\* Starting a teardown does not move a slot.
LEMMA TerminateHolds ==
  ASSUME TypeOK, LifecycleOK, NEW s \in Session, terminateSession(s)
  PROVE  \A t \in Session : HoldsSlots(t)' <=> HoldsSlots(t)
BY TerminateLifecycle DEF HoldsSlots, TypeOK, Down, States

\* Every step preserves the slot accounting; only CreateSession and
\* ReleaseSlots move slots at all.
LEMMA SlotsStep ==
  TypeOK /\ LifecycleOK /\ SlotsAccounted /\ [Next]_vars => SlotsAccounted'
<1> SUFFICES ASSUME TypeOK, LifecycleOK, SlotsAccounted, [Next]_vars PROVE SlotsAccounted'
  OBVIOUS
<1>0. ASSUME UNCHANGED <<slotVars, state, tpc>> PROVE SlotsAccounted'
  BY <1>0, SlotsFrame DEF HoldsSlots
<1>t. ASSUME NEW s \in Session, terminateSession(s), UNCHANGED slotVars PROVE SlotsAccounted'
  BY SMTT(30), <1>t, TerminateHolds, SlotsFrame
<1>1. ASSUME NEW s \in Session, NEW d \in Display, NEW p \in WsPort, CreateSession(s, d, p)
      PROVE SlotsAccounted'
  <2>1. ~HoldsSlots(s) /\ HoldsSlots(s)'
    BY <1>1 DEF CreateSession, HoldsSlots, TypeOK, LifecycleOK, Lifecycle, Down
  <2>2. \A t \in Session \ {s} : /\ HoldsSlots(t)' <=> HoldsSlots(t)
                               /\ display'[t] = display[t] /\ wsPort'[t] = wsPort[t]
    BY <1>1 DEF CreateSession, HoldsSlots, TypeOK
  <2>3. display'[s] = d /\ wsPort'[s] = p /\ d \in freeDisplays /\ p \in freePorts
    BY SMTT(30), <1>1 DEF CreateSession, TypeOK
  <2>4. \A t, u \in Session : t # u /\ HoldsSlots(t)' /\ HoldsSlots(u)' =>
          display'[t] # display'[u] /\ wsPort'[t] # wsPort'[u]
    BY <2>1, <2>2, <2>3 DEF SlotsAccounted
  <2>5. freeDisplays' = Display \ {display'[t] : t \in {u \in Session : HoldsSlots(u)'}}
    BY <1>1, <2>1, <2>2, <2>3 DEF SlotsAccounted, CreateSession
  <2>6. freePorts' = WsPort \ {wsPort'[t] : t \in {u \in Session : HoldsSlots(u)'}}
    BY <1>1, <2>1, <2>2, <2>3 DEF SlotsAccounted, CreateSession
  <2> QED BY SMTT(30), <2>4, <2>5, <2>6 DEF SlotsAccounted
<1>2. ASSUME NEW s \in Session, CreateSessionTmpDir(s) PROVE SlotsAccounted'
  BY <1>0, <1>2, <1>t DEF CreateSessionTmpDir, FailCreate
<1>3. ASSUME NEW s \in Session, StartXpra(s) PROVE SlotsAccounted'
  BY <1>0, <1>3, <1>t DEF StartXpra, FailCreate
<1>4. ASSUME NEW s \in Session, AttachProc(s) PROVE SlotsAccounted'
  BY <1>0, <1>4 DEF AttachProc
<1>5. ASSUME NEW s \in Session, WaitForXpraReady(s) PROVE SlotsAccounted'
  BY <1>0, <1>5, <1>t DEF WaitForXpraReady, FailCreate
<1>6. ASSUME NEW s \in Session, Activate(s) PROVE SlotsAccounted'
  <2>1. \A t \in Session : HoldsSlots(t)' <=> HoldsSlots(t)
    BY <1>6 DEF Activate, HoldsSlots, TypeOK, LifecycleOK, Lifecycle
  <2> QED BY SMTT(30), <1>6, <2>1, SlotsFrame DEF Activate
<1>7. ASSUME NEW s \in Session, TerminateSession(s) PROVE SlotsAccounted'
  BY SMTT(30), <1>7, <1>t DEF TerminateSession
<1>8. ASSUME NEW s \in Session, KillXpraSession(s) \/ KillXvfbForDisplay(s) \/ CleanupTmpDir(s)
      PROVE SlotsAccounted'
  <2>1. \A t \in Session : HoldsSlots(t)' <=> HoldsSlots(t)
    BY SMTT(30), <1>8 DEF KillXpraSession, KillXvfbForDisplay, CleanupTmpDir, HoldsSlots, TypeOK
  <2> QED BY SMTT(30), <1>8, <2>1, SlotsFrame DEF KillXpraSession, KillXvfbForDisplay, CleanupTmpDir
<1>9. ASSUME NEW s \in Session, ReleaseSlots(s) PROVE SlotsAccounted'
  <2>1. HoldsSlots(s) /\ ~HoldsSlots(s)'
    BY <1>9 DEF ReleaseSlots, HoldsSlots, TypeOK, LifecycleOK, Lifecycle, Down
  <2>2. \A t \in Session \ {s} : HoldsSlots(t)' <=> HoldsSlots(t)
    BY SMTT(30), <1>9 DEF ReleaseSlots, HoldsSlots, TypeOK
  <2>3. display[s] \in Display /\ wsPort[s] \in WsPort
    BY SMTT(30), <2>1 DEF HoldsSlots, LifecycleOK, Lifecycle
  <2>4. freeDisplays' = Display \ {display'[t] : t \in {u \in Session : HoldsSlots(u)'}}
    BY SMTT(30), <1>9, <2>1, <2>2, <2>3 DEF SlotsAccounted, ReleaseSlots
  <2>5. freePorts' = WsPort \ {wsPort'[t] : t \in {u \in Session : HoldsSlots(u)'}}
    BY <1>9, <2>1, <2>2, <2>3 DEF SlotsAccounted, ReleaseSlots
  <2> QED BY SMTT(30), <1>9, <2>1, <2>2, <2>4, <2>5 DEF SlotsAccounted, ReleaseSlots
<1>10. ASSUME NEW s \in Session, RemoveSession(s) PROVE SlotsAccounted'
  <2>1. \A t \in Session : HoldsSlots(t)' <=> HoldsSlots(t)
    BY SMTT(30), <1>10 DEF RemoveSession, HoldsSlots, TypeOK
  <2> QED BY SMTT(30), <1>10, <2>1, SlotsFrame DEF RemoveSession
<1>11. ASSUME NEW s \in Session, watchProcessExit(s) PROVE SlotsAccounted'
  BY SMTT(30), <1>11, <1>t DEF watchProcessExit
<1>12. ASSUME NEW s \in Session, GraceTimerFires(s) \/ Environment(s) PROVE SlotsAccounted'
  BY <1>0, <1>12 DEF GraceTimerFires, Environment, XvfbUp, XpraExits, ClientToggles
<1>13. ASSUME NEW d \in Display, CreateWithoutPort(d) PROVE SlotsAccounted'
  BY <1>0, <1>13 DEF CreateWithoutPort
<1>g. ASSUME NEW s \in Session, enterGrace(s) \/ cancelGrace(s), UNCHANGED <<slotVars, tpc>>
      PROVE SlotsAccounted'
  <2>1. \A t \in Session : HoldsSlots(t)' <=> HoldsSlots(t)
    BY <1>g DEF enterGrace, cancelGrace, HoldsSlots, TypeOK
  <2> QED BY SMTT(30), <1>g, <2>1, SlotsFrame
<1>14. ASSUME NEW e \in expiry, Expire(e) PROVE SlotsAccounted'
  <2>1. e.sess \in Session
    BY DEF TypeOK
  <2> QED BY <1>0, <1>14, <1>g, <1>t, <2>1 DEF Expire, ExpireCheck, ExpireQuery, ExpireAct
<1>15. ASSUME Poll PROVE SlotsAccounted'
  <2>1. CASE PollTick \/ PollDone \/ PollTeardownDone \/ PollQuery
    BY Zenon, <1>0, <2>1 DEF PollTick, PollDone, PollTeardownDone, PollQuery
  <2>2. ASSUME NEW s \in Session, PollSnapshot(s) \/ PollLifetimeOver(s) \/ PollLifetimeLeft(s)
        PROVE SlotsAccounted'
    BY <1>0, <1>t, <2>2 DEF PollSnapshot, PollLifetimeOver, PollLifetimeLeft, PollTerminates
  <2>3. ASSUME NEW s \in Session, PollNoClient(s) \/ PollHasClient(s) PROVE SlotsAccounted'
    BY SMTT(30), <1>0, <1>t, <1>g, <2>3 DEF PollNoClient, PollHasClient, PollTerminates
  <2> QED BY <1>15, <2>1, <2>2, <2>3 DEF Poll
<1>16. CASE IdsExhausted \/ UNCHANGED vars
  BY <1>0, <1>16 DEF IdsExhausted, vars
<1> QED
  BY SMTT(30), <1>1, <1>2, <1>3, <1>4, <1>5, <1>6, <1>7, <1>8, <1>9, <1>10, <1>11, <1>12, <1>13,
     <1>14, <1>15, <1>16 DEF Next, Create, Teardown

-----------------------------------------------------------------------------
\* m.sessions is finite: CreateSession adds one entry at a time.
LEMMA FiniteStep == IsFiniteSet(sessions) /\ [Next]_vars => IsFiniteSet(sessions')
<1> SUFFICES ASSUME IsFiniteSet(sessions), [Next]_vars PROVE IsFiniteSet(sessions')
  OBVIOUS
<1>1. ASSUME NEW s, sessions' = sessions \cup {s} PROVE IsFiniteSet(sessions')
  BY <1>1, FS_AddElement
<1>2. ASSUME NEW s, sessions' = sessions \ {s} PROVE IsFiniteSet(sessions')
  BY <1>2, FS_RemoveElement
<1>3. \/ UNCHANGED sessions
      \/ \E s \in Session : sessions' = sessions \cup {s} \/ sessions' = sessions \ {s}
  <2>1. ASSUME NEW s \in Session, Create(s) \/ TerminateSession(s) \/ watchProcessExit(s)
        PROVE UNCHANGED sessions \/ sessions' = sessions \cup {s}
    BY <2>1 DEF Create, CreateSession, CreateSessionTmpDir, StartXpra, AttachProc,
                WaitForXpraReady, Activate, TerminateSession, watchProcessExit
  <2>2. ASSUME NEW s \in Session, Teardown(s) PROVE UNCHANGED sessions \/ sessions' = sessions \ {s}
    BY ZenonT(30), <2>2 DEF Teardown, KillXpraSession, KillXvfbForDisplay, CleanupTmpDir, ReleaseSlots,
                RemoveSession
  <2>3. ASSUME NEW s \in Session, GraceTimerFires(s) \/ Environment(s) PROVE UNCHANGED sessions
    BY Zenon, <2>3 DEF GraceTimerFires, Environment, XvfbUp, XpraExits, ClientToggles
  <2>4. ASSUME NEW e, Expire(e) PROVE UNCHANGED sessions
    BY <2>4 DEF Expire, ExpireCheck, ExpireQuery, ExpireAct
  <2>5. ASSUME Poll PROVE UNCHANGED sessions
    BY Zenon, <2>5 DEF Poll, PollTick, PollDone, PollTeardownDone, PollQuery, PollSnapshot,
                PollLifetimeOver, PollLifetimeLeft, PollNoClient, PollHasClient
  <2>6. ASSUME NEW d, CreateWithoutPort(d) PROVE UNCHANGED sessions
    BY SMTT(30), <2>6 DEF CreateWithoutPort
  <2>7. ASSUME IdsExhausted \/ UNCHANGED vars PROVE UNCHANGED sessions
    BY Zenon, <2>7 DEF IdsExhausted, vars
  <2> QED BY SMTT(30), <2>1, <2>2, <2>3, <2>4, <2>5, <2>6, <2>7 DEF Next
<1> QED BY <1>1, <1>2, <1>3

\* The inductive invariant behind the safety theorems.
SlotInv == TypeOK /\ LifecycleOK /\ SlotsAccounted /\ IsFiniteSet(sessions)

\* The inductive invariant holds in every reachable state.
THEOREM SlotInvariant == Spec => []SlotInv
<1>1. Init => SlotInv
  <2>1. Init => SlotsAccounted
    BY DEF Init, SlotsAccounted, HoldsSlots
  <2>2. Init => IsFiniteSet(sessions)
    BY FS_EmptySet DEF Init
  <2> QED BY <2>1, <2>2, InitOK DEF SlotInv
<1>2. SlotInv /\ [Next]_vars => SlotInv'
  BY TypeStep, LifecycleStep, SlotsStep, FiniteStep DEF SlotInv
<1> QED BY <1>1, <1>2, PTL DEF Spec

\* The worker's variables always have their types.
THEOREM TypeCorrect == Spec => []TypeOK
<1>1. SlotInv => TypeOK
  BY DEF SlotInv
<1> QED BY <1>1, SlotInvariant, PTL

\* The pools and the sessions never disagree about who holds a slot, whatever
\* the interleaving of creators, failures, teardowns, watcher, loop and timers.
THEOREM SlotAccounting == Spec => []SlotsAccounted
<1>1. SlotInv => SlotsAccounted
  BY SMTT(30) DEF SlotInv
<1> QED BY <1>1, SlotInvariant, PTL

\* An xpra process outlives its slots only if the teardown came before
\* sess.proc was set, or if SIGKILL failed.
THEOREM LeaksAreEarlyTeardowns == Spec => []LeakOnlyByEarlyTeardown
<1>1. SlotInv => LeakOnlyByEarlyTeardown
  BY SMTT(30) DEF SlotInv, LifecycleOK, Lifecycle, LeakOnlyByEarlyTeardown, HoldsSlots, TypeOK, Down
<1> QED BY <1>1, SlotInvariant, PTL

\* Under the same exceptions no Xvfb survives on a display that was released.
THEOREM XvfbNeverOrphaned == Spec => []XvfbSwept
<1>1. SlotInv => XvfbSwept
  BY DEF SlotInv, LifecycleOK, Lifecycle, XvfbSwept, HoldsSlots, TypeOK, Down
<1> QED BY <1>1, SlotInvariant, PTL

\* Two live xpra servers on one display: one of them leaked.
THEOREM DisplaysNotShared == Spec => []DisplayNotShared
<1>1. SlotInv => DisplayNotShared
  <2> SUFFICES ASSUME SlotInv, NEW s \in Session, NEW t \in Session, s # t,
                      proc[s] = "running", proc[t] = "running", display[s] = display[t]
               PROVE  \E u \in {s, t} : state[u] \in Down /\ (~snapProc[u] \/ u \in unkilled)
    BY DEF DisplayNotShared
  <2>1. ~HoldsSlots(s) \/ ~HoldsSlots(t)
    BY DEF SlotInv, SlotsAccounted
  <2>2. PICK u \in {s, t} : ~HoldsSlots(u) /\ proc[u] = "running"
    BY SMTT(30), <2>1
  <2>3. state[u] \in Down
    BY SMTT(30), <2>2 DEF HoldsSlots, SlotInv, LifecycleOK, Lifecycle, TypeOK, Down
  <2>4. ~snapProc[u] \/ u \in unkilled
    BY <2>2 DEF HoldsSlots, SlotInv, LifecycleOK, Lifecycle, TypeOK, Down
  <2> QED BY <2>2, <2>3, <2>4
<1> QED BY <1>1, SlotInvariant, PTL

\* A function into the slots held by sessions: fewer sessions than slots leave
\* a slot over.
LEMMA SlotLeft ==
  ASSUME NEW S, IsFiniteSet(S), NEW T, IsFiniteSet(T), NEW f \in [Session -> T \cup {None}],
         NEW H \in SUBSET S, H \subseteq Session, Cardinality(S) < Cardinality(T),
         T \subseteq {f[s] : s \in H}, \A s \in H : f[s] \in T
  PROVE  FALSE
<1> DEFINE g == [s \in H |-> f[s]]
<1>1. g \in Surjection(H, T)
  BY DEF Surjection
<1>2. IsFiniteSet(H) /\ Cardinality(H) <= Cardinality(S)
  BY FS_Subset
<1>3. Cardinality(T) <= Cardinality(H)
  BY <1>1, <1>2, FS_Surjection
<1>4. Cardinality(T) \in Nat /\ Cardinality(H) \in Nat /\ Cardinality(S) \in Nat
  BY <1>2, FS_CardinalityType
<1> QED BY <1>2, <1>3, <1>4

\* A create that passes the capacity check finds a display and a port, as long
\* as the pools are at least as large as the capacity.
THEOREM CapacitySuffices == Spec => []CapacityGuardsPools
<1>1. SlotInv => CapacityGuardsPools
  <2> SUFFICES ASSUME SlotInv, Cardinality(sessions) < MaxSessions
               PROVE  /\ MaxSessions <= Cardinality(Display) => freeDisplays # {}
                      /\ MaxSessions <= Cardinality(WsPort) => freePorts # {}
    BY DEF CapacityGuardsPools
  <2> DEFINE H == {u \in Session : HoldsSlots(u)}
  <2>1. H \subseteq sessions
    BY DEF SlotInv, LifecycleOK, Lifecycle, HoldsSlots
  <2>2. \A s \in H : display[s] \in Display /\ wsPort[s] \in WsPort
    BY DEF SlotInv, LifecycleOK, Lifecycle, HoldsSlots
  <2>3. Cardinality(sessions) \in Nat /\ Cardinality(Display) \in Nat
        /\ Cardinality(WsPort) \in Nat
    BY WorkerAssumption, FS_CardinalityType DEF SlotInv
  <2>4. ASSUME MaxSessions <= Cardinality(Display), freeDisplays = {} PROVE FALSE
    <3>1. Display \subseteq {display[s] : s \in H}
      BY <2>4 DEF SlotInv, SlotsAccounted
    <3>2. Cardinality(sessions) < Cardinality(Display)
      BY SMTT(30), <2>3, <2>4, WorkerAssumption
    <3>3. /\ IsFiniteSet(sessions) /\ IsFiniteSet(Display) /\ H \in SUBSET sessions
          /\ display \in [Session -> Display \cup {None}] /\ H \subseteq Session
          /\ \A s \in H : display[s] \in Display
      BY SMTT(30), <2>1, <2>2, WorkerAssumption DEF SlotInv, TypeOK
    <3> HIDE DEF H
    <3> QED BY <3>1, <3>2, <3>3, SlotLeft
  <2>5. ASSUME MaxSessions <= Cardinality(WsPort), freePorts = {} PROVE FALSE
    <3>1. WsPort \subseteq {wsPort[s] : s \in H}
      BY <2>5 DEF SlotInv, SlotsAccounted
    <3>2. Cardinality(sessions) < Cardinality(WsPort)
      BY SMTT(30), <2>3, <2>5, WorkerAssumption
    <3>3. /\ IsFiniteSet(sessions) /\ IsFiniteSet(WsPort) /\ H \in SUBSET sessions
          /\ wsPort \in [Session -> WsPort \cup {None}] /\ H \subseteq Session
          /\ \A s \in H : wsPort[s] \in WsPort
      BY <2>1, <2>2, WorkerAssumption DEF SlotInv, TypeOK
    <3> HIDE DEF H
    <3> QED BY <3>1, <3>2, <3>3, SlotLeft
  <2> QED BY <2>4, <2>5
<1> QED BY <1>1, SlotInvariant, PTL

-----------------------------------------------------------------------------
\* No step takes a session out of terminating or terminated, except to move
\* from the first to the second.
LEMMA DownStaysDown ==
  ASSUME SlotInv, [Next]_vars, NEW t \in Session, state[t] \in Down
  PROVE  state'[t] \in Down
<1> USE DEF SlotInv, Down
<1>0. ASSUME UNCHANGED state PROVE state'[t] \in Down
  BY SMTT(30), <1>0
<1>t. ASSUME NEW s \in Session, terminateSession(s) PROVE state'[t] \in Down
  BY SMTT(30), <1>t, TerminateLifecycle DEF TypeOK
<1>g. ASSUME NEW s \in Session, enterGrace(s) \/ cancelGrace(s) PROVE state'[t] \in Down
  BY <1>g DEF enterGrace, cancelGrace, TypeOK
<1>1. ASSUME NEW s \in Session, Create(s) PROVE state'[t] \in Down
  <2>1. ASSUME NEW d, NEW p, CreateSession(s, d, p) PROVE state'[t] \in Down
    BY SMTT(30), <2>1 DEF CreateSession, TypeOK
  <2>2. CASE CreateSessionTmpDir(s) \/ StartXpra(s) \/ WaitForXpraReady(s)
    BY Zenon, <1>0, <1>t, <2>2 DEF CreateSessionTmpDir, StartXpra, WaitForXpraReady, FailCreate
  <2>3. CASE AttachProc(s) \/ Activate(s)
    BY <1>0, <2>3 DEF AttachProc, Activate, TypeOK
  <2> QED BY Zenon, <1>1, <2>1, <2>2, <2>3 DEF Create
<1>2. ASSUME NEW s \in Session, TerminateSession(s) \/ watchProcessExit(s) PROVE state'[t] \in Down
  BY ZenonT(30), <1>2, <1>t DEF TerminateSession, watchProcessExit
<1>3. ASSUME NEW s \in Session, Teardown(s) PROVE state'[t] \in Down
  BY ZenonT(30), <1>0, <1>3 DEF Teardown, KillXpraSession, KillXvfbForDisplay, CleanupTmpDir,
                    ReleaseSlots, RemoveSession, TypeOK
<1>4. ASSUME NEW s \in Session, GraceTimerFires(s) \/ Environment(s) PROVE state'[t] \in Down
  BY Zenon, <1>0, <1>4 DEF GraceTimerFires, Environment, XvfbUp, XpraExits, ClientToggles
<1>5. ASSUME NEW d \in Display, CreateWithoutPort(d) PROVE state'[t] \in Down
  BY <1>0, <1>5 DEF CreateWithoutPort
<1>6. ASSUME NEW e \in expiry, Expire(e) PROVE state'[t] \in Down
  <2>1. e.sess \in Session
    BY DEF TypeOK
  <2> QED BY <1>0, <1>6, <1>t, <1>g, <2>1 DEF Expire, ExpireCheck, ExpireQuery, ExpireAct
<1>7. ASSUME Poll PROVE state'[t] \in Down
  BY ZenonT(30), <1>0, <1>7, <1>t, <1>g
     DEF Poll, PollTick, PollDone, PollTeardownDone, PollQuery, PollSnapshot, PollLifetimeOver,
         PollLifetimeLeft, PollNoClient, PollHasClient, PollTerminates
<1>8. CASE IdsExhausted \/ UNCHANGED vars
  BY Zenon, <1>0, <1>8 DEF IdsExhausted, vars
<1> QED BY Zenon, <1>1, <1>2, <1>3, <1>4, <1>5, <1>6, <1>7, <1>8 DEF Next

\* A session that is going down never comes back, although the creator, the
\* cleanup loop and the grace timer all write the state after unlocked calls.
THEOREM NeverResurrected == Spec => NoResurrection
<1>1. SlotInv /\ [Next]_vars =>
        [\A s \in Session : state[s] \in Down => state'[s] \in Down]_vars
  BY Zenon, DownStaysDown
<1> QED BY <1>1, SlotInvariant, PTL DEF Spec, NoResurrection

\* What the cleanup loop remembers of everConnected is still true when it acts.
PollKnows ==
  poll.pc \in {"age", "query", "act"} =>
    poll.cur \in Session /\ (poll.ever => everConnected[poll.cur])

\* everConnected never goes back, and only the loop enters grace, for a session
\* whose everConnected it has read as true.
LEMMA GraceStep ==
  SlotInv /\ PollKnows /\ GraceOnlyAfterConnect /\ [Next]_vars =>
    PollKnows' /\ GraceOnlyAfterConnect'
<1> SUFFICES ASSUME SlotInv, PollKnows, GraceOnlyAfterConnect, [Next]_vars
             PROVE  PollKnows' /\ GraceOnlyAfterConnect'
  OBVIOUS
<1> USE DEF SlotInv
<1>0. ASSUME UNCHANGED <<everConnected, poll>>,
             \A s \in Session : state'[s] = "grace" => state[s] = "grace"
      PROVE  PollKnows' /\ GraceOnlyAfterConnect'
  BY SMTT(30), <1>0 DEF PollKnows, GraceOnlyAfterConnect
<1>t. ASSUME NEW s \in Session, terminateSession(s)
      PROVE  \A t \in Session : state'[t] = "grace" => state[t] = "grace"
  BY <1>t, TerminateLifecycle DEF TypeOK
<1>1. ASSUME NEW s \in Session, Create(s) PROVE PollKnows' /\ GraceOnlyAfterConnect'
  <2>1. UNCHANGED <<everConnected, poll>>
    BY <1>1 DEF Create, CreateSession, CreateSessionTmpDir, StartXpra, AttachProc,
                WaitForXpraReady, Activate
  <2>2. \A t \in Session : state'[t] = "grace" => state[t] = "grace"
    <3>1. ASSUME NEW d, NEW p, CreateSession(s, d, p)
          PROVE  \A t \in Session : state'[t] = "grace" => state[t] = "grace"
      BY <3>1 DEF CreateSession, TypeOK
    <3>2. CASE CreateSessionTmpDir(s) \/ StartXpra(s) \/ WaitForXpraReady(s)
      BY ZenonT(30), <1>t, <3>2 DEF CreateSessionTmpDir, StartXpra, WaitForXpraReady, FailCreate
    <3>3. CASE AttachProc(s) \/ Activate(s)
      BY <3>3 DEF AttachProc, Activate, TypeOK
    <3> QED BY ZenonT(30), <1>1, <3>1, <3>2, <3>3 DEF Create
  <2> QED BY SMTT(30), <1>0, <2>1, <2>2
<1>2. ASSUME NEW s \in Session, TerminateSession(s) \/ watchProcessExit(s)
      PROVE PollKnows' /\ GraceOnlyAfterConnect'
  BY ZenonT(30), <1>0, <1>2, <1>t DEF TerminateSession, watchProcessExit
<1>3. ASSUME NEW s \in Session, Teardown(s) PROVE PollKnows' /\ GraceOnlyAfterConnect'
  BY ZenonT(30), <1>0, <1>3 DEF Teardown, KillXpraSession, KillXvfbForDisplay, CleanupTmpDir,
                    ReleaseSlots, RemoveSession, TypeOK
<1>4. ASSUME NEW s \in Session, GraceTimerFires(s) \/ Environment(s)
      PROVE PollKnows' /\ GraceOnlyAfterConnect'
  BY Zenon, <1>0, <1>4 DEF GraceTimerFires, Environment, XvfbUp, XpraExits, ClientToggles
<1>5. ASSUME NEW d \in Display, CreateWithoutPort(d) PROVE PollKnows' /\ GraceOnlyAfterConnect'
  BY <1>0, <1>5 DEF CreateWithoutPort
<1>6. ASSUME NEW e \in expiry, Expire(e) PROVE PollKnows' /\ GraceOnlyAfterConnect'
  <2>1. e.sess \in Session
    BY DEF TypeOK
  <2>2. UNCHANGED <<everConnected, poll>>
    BY <1>6 DEF Expire, ExpireCheck, ExpireQuery, ExpireAct
  <2>3. \A t \in Session : state'[t] = "grace" => state[t] = "grace"
    BY <1>6, <1>t, <2>1 DEF Expire, ExpireCheck, ExpireQuery, ExpireAct, cancelGrace, TypeOK
  <2> QED BY <1>0, <2>2, <2>3
<1>7. ASSUME Poll PROVE PollKnows' /\ GraceOnlyAfterConnect'
  <2>0. ASSUME NEW s, poll' = PollContinue(s) \/ PollTerminates(s) PROVE PollKnows'
    <3>1. poll'.pc \in {"next", "wait"}
      BY Zenon, <2>0 DEF PollContinue, PollTerminates, PollIdle
    <3> QED BY <3>1 DEF PollKnows
  <2>1. CASE PollTick \/ PollDone \/ PollTeardownDone
    <3>1. poll'.pc \in {"next", "idle"}
      <4>1. CASE PollTick
        BY SMTT(30), <4>1 DEF PollTick, PollIdle
      <4>2. CASE PollDone
        BY <4>2 DEF PollDone, PollIdle
      <4>3. CASE PollTeardownDone
        BY <4>3 DEF PollTeardownDone, TypeOK
      <4> QED BY <2>1, <4>1, <4>2, <4>3
    <3>2. UNCHANGED <<state, everConnected>>
      BY <2>1 DEF PollTick, PollDone, PollTeardownDone
    <3> QED BY <3>1, <3>2 DEF PollKnows, GraceOnlyAfterConnect
  <2>2. CASE PollQuery
    <3>1. PICK n : poll' = IF n = Unknown THEN PollContinue(poll.cur)
                           ELSE [poll EXCEPT !.pc = "act", !.clients = n]
      BY Zenon, <2>2 DEF PollQuery
    <3>2. UNCHANGED <<state, everConnected>> /\ poll.pc = "query"
      BY <2>2 DEF PollQuery
    <3>3. PollKnows'
      BY <2>0, <3>1, <3>2 DEF PollKnows, TypeOK
    <3> QED BY <3>2, <3>3 DEF GraceOnlyAfterConnect
  <2>3. ASSUME NEW s \in Session, PollSnapshot(s) PROVE PollKnows' /\ GraceOnlyAfterConnect'
    <3>1. UNCHANGED <<state, everConnected>>
      BY <2>3 DEF PollSnapshot
    <3>2. PollKnows'
      BY <2>0, <2>3, <3>1 DEF PollSnapshot, PollKnows, TypeOK
    <3> QED BY <3>1, <3>2 DEF GraceOnlyAfterConnect
  <2>4. ASSUME NEW s \in Session, PollLifetimeOver(s) PROVE PollKnows' /\ GraceOnlyAfterConnect'
    BY Zenon, <1>t, <2>0, <2>4 DEF PollLifetimeOver, PollTerminates, GraceOnlyAfterConnect
  <2>5. ASSUME NEW s \in Session, PollLifetimeLeft(s) PROVE PollKnows' /\ GraceOnlyAfterConnect'
    <3>1. UNCHANGED everConnected /\ poll.pc = "age"
      BY <2>5 DEF PollLifetimeLeft
    <3>2. CASE PollTerminates(s)
      BY Zenon, <1>t, <2>0, <3>1, <3>2 DEF PollTerminates, GraceOnlyAfterConnect
    <3>3. CASE ~PollTerminates(s)
      <4>1. poll' = [poll EXCEPT !.pc = "query"] /\ UNCHANGED state
        BY SMTT(30), <2>5, <3>3 DEF PollLifetimeLeft
      <4> QED BY <3>1, <4>1 DEF PollKnows, GraceOnlyAfterConnect, TypeOK
    <3> QED BY <3>2, <3>3
  <2>6. ASSUME NEW s \in Session, PollNoClient(s) PROVE PollKnows' /\ GraceOnlyAfterConnect'
    <3>1. PollKnows'
      BY Zenon, <2>0, <2>6 DEF PollNoClient
    <3>2. CASE PollTerminates(s) \/ UNCHANGED state
      BY SMTT(30), <1>t, <2>6, <3>1, <3>2 DEF PollNoClient, PollTerminates, GraceOnlyAfterConnect
    <3>3. CASE poll.ever /\ enterGrace(s)
      <4>1. everConnected[s] /\ UNCHANGED everConnected
        BY ZenonT(30), <2>6, <3>3 DEF PollNoClient, PollKnows
      <4> QED BY <3>1, <3>3, <4>1 DEF enterGrace, GraceOnlyAfterConnect, TypeOK
    <3> QED BY <2>6, <3>2, <3>3 DEF PollNoClient
  <2>7. ASSUME NEW s \in Session, PollHasClient(s) PROVE PollKnows' /\ GraceOnlyAfterConnect'
    <3>1. PollKnows'
      BY SMTT(30), <2>0, <2>7 DEF PollHasClient
    <3>2. \A t \in Session : everConnected[t] => everConnected'[t]
      BY <2>7 DEF PollHasClient, TypeOK
    <3>3. \A t \in Session : state'[t] = "grace" => state[t] = "grace"
      BY SMTT(30), <1>t, <2>7 DEF PollHasClient, PollTerminates, cancelGrace, TypeOK
    <3> QED BY Zenon, <3>1, <3>2, <3>3 DEF GraceOnlyAfterConnect
  <2> QED BY SMTT(30), <1>7, <2>1, <2>2, <2>3, <2>4, <2>5, <2>6, <2>7 DEF Poll
<1>8. CASE IdsExhausted \/ UNCHANGED vars
  BY <1>0, <1>8 DEF IdsExhausted, vars
<1> QED BY <1>1, <1>2, <1>3, <1>4, <1>5, <1>6, <1>7, <1>8 DEF Next

\* The grace period never starts for a session nobody has opened, although the
\* loop decides on a copy of everConnected read before the status query.
THEOREM GraceNeedsConnect == Spec => []GraceOnlyAfterConnect
<1>1. Init => PollKnows /\ GraceOnlyAfterConnect
  BY DEF Init, PollKnows, GraceOnlyAfterConnect, PollIdle
<1> QED BY <1>1, GraceStep, SlotInvariant, PTL DEF Spec
=============================================================================
