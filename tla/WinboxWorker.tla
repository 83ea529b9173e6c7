---------------------------- MODULE WinboxWorker ----------------------------
(***************************************************************************)
(* The session manager of the WinBox worker: winbox-worker/internal/session*)
(* /manager.go.  A session owns an X display and a websocket port, runs one*)
(* xpra process (with an Xvfb server beside it) and is touched by five     *)
(* kinds of goroutine: the HTTP handler that creates it, any caller of     *)
(* terminateSession, the watcher of its process, the 30s cleanup loop and  *)
(* the AfterFunc of its grace timer.                                       *)
(*                                                                         *)
(* One step is one critical section of m.mu / sess.mu, or one call made    *)
(* outside the locks (mkdir, fork, xpra info, kill).  A lookup in          *)
(* m.sessions and the sess.mu section that follows it are one step: a      *)
(* session leaves the map only after its state is "terminated", so the     *)
(* state guard answers for both.                                           *)
(*                                                                         *)
(* Time is abstract: the deadline tests (lifetime, first connect, grace,   *)
(* idle) succeed or fail freely.                                           *)
(***************************************************************************)
EXTENDS Integers, FiniteSets

CONSTANTS Session,      \* session ids; the API draws a fresh uuid4 for each create
          Display,      \* X displays of the pool (100..119)
          WsPort,       \* websocket ports of the pool (10100..10119)
          MaxSessions,  \* MAX_CONCURRENT_SESSIONS
          MaxGen,       \* bound: the browser stops (dis)connecting at this graceGen
          Faults,       \* which of AllFaults may happen
          None          \* no display / port / session

\* mkdir fails, xpra does not start, exits by itself, or is "not reaped after
\* SIGKILL".
AllFaults == {"mkdir", "start", "exit", "sigkill"}

ASSUME WorkerAssumption ==
  /\ MaxSessions \in Nat \ {0}
  /\ MaxGen \in Nat
  /\ Faults \subseteq AllFaults
  /\ None \notin Session \cup Display \cup WsPort
  /\ IsFiniteSet(Display) /\ IsFiniteSet(WsPort)

VARIABLES
  sessions,       \* domain of m.sessions
  state,          \* Session.State, "absent" before the id is used
  display,        \* Session.Display
  wsPort,         \* Session.WSPort
  freeDisplays,   \* m.displays, the free displays of the pool
  freePorts,      \* m.wsPorts
  cpc,            \* where the session's CreateSession call is
  dir,            \* the session's tmp dir exists on disk
  proc,           \* the xpra process: "none", "running", "exited" (and reaped)
  attached,       \* sess.proc # nil
  xvfb,           \* the Xvfb that xpra launches: "none", "up", "gone"
  unkilled,       \* sessions whose xpra outlived SIGKILL
  clients,        \* clients attached to the session's xpra
  everConnected,  \* Session.everConnected
  graceGen,       \* Session.graceGen
  armed,          \* sessions whose graceTimer is pending
  expiry,         \* expireGrace goroutines in flight
  tpc,            \* where the session's one effective terminateSession is
  snapProc,       \* its local proc # nil
  snapDir,        \* its local tmpDir # ""
  poll            \* the checkTimeouts goroutine

slotVars == <<display, wsPort, freeDisplays, freePorts>>
procVars == <<proc, xvfb, unkilled, clients>>
tearVars == <<tpc, snapProc, snapDir>>
graceVars == <<graceGen, armed>>
vars == <<sessions, state, slotVars, cpc, dir, procVars, attached,
          everConnected, graceVars, expiry, tearVars, poll>>

States == {"absent", "creating", "active", "grace", "terminating", "terminated"}
Down == {"terminating", "terminated"}
Clients == {0, 1}
Unknown == -1

PollIdle == [pc |-> "idle", todo |-> {}, cur |-> None, st |-> "absent",
             ever |-> FALSE, clients |-> Unknown]

TypeOK ==
  /\ sessions \subseteq Session
  /\ state \in [Session -> States]
  /\ display \in [Session -> Display \cup {None}]
  /\ wsPort \in [Session -> WsPort \cup {None}]
  /\ freeDisplays \subseteq Display
  /\ freePorts \subseteq WsPort
  /\ cpc \in [Session -> {"none", "tmpdir", "start", "attach", "wait", "activate", "done"}]
  /\ dir \in [Session -> BOOLEAN]
  /\ proc \in [Session -> {"none", "running", "exited"}]
  /\ attached \in [Session -> BOOLEAN]
  /\ xvfb \in [Session -> {"none", "up", "gone"}]
  /\ unkilled \subseteq Session
  /\ clients \in [Session -> Clients]
  /\ everConnected \in [Session -> BOOLEAN]
  /\ graceGen \in [Session -> Nat]
  /\ armed \subseteq Session
  /\ expiry \subseteq [sess : Session, gen : Nat,
                       pc : {"fired", "query", "cancel", "kill"}]
  /\ tpc \in [Session -> {"none", "kill", "xvfb", "cleanup", "release", "finish", "done"}]
  /\ snapProc \in [Session -> BOOLEAN]
  /\ snapDir \in [Session -> BOOLEAN]
  /\ poll \in [pc : {"idle", "next", "age", "query", "act", "wait"}, todo : SUBSET Session,
               cur : Session \cup {None}, st : States, ever : BOOLEAN,
               clients : Clients \cup {Unknown}]

\* NewManager followed by CleanupOrphans: no session, no process, both pools full.
Init ==
  /\ sessions = {}
  /\ state = [s \in Session |-> "absent"]
  /\ display = [s \in Session |-> None]
  /\ wsPort = [s \in Session |-> None]
  /\ freeDisplays = Display
  /\ freePorts = WsPort
  /\ cpc = [s \in Session |-> "none"]
  /\ dir = [s \in Session |-> FALSE]
  /\ proc = [s \in Session |-> "none"]
  /\ attached = [s \in Session |-> FALSE]
  /\ xvfb = [s \in Session |-> "none"]
  /\ unkilled = {}
  /\ clients = [s \in Session |-> 0]
  /\ everConnected = [s \in Session |-> FALSE]
  /\ graceGen = [s \in Session |-> 0]
  /\ armed = {}
  /\ expiry = {}
  /\ tpc = [s \in Session |-> "none"]
  /\ snapProc = [s \in Session |-> FALSE]
  /\ snapDir = [s \in Session |-> FALSE]
  /\ poll = PollIdle

-----------------------------------------------------------------------------
(* terminateSession: the first caller past the state guard owns the        *)
(* teardown, every other call returns at once.                             *)

\* Mutant: the state guard is forgotten.
terminateSessionUnguarded(s) ==
  IF s \notin sessions
  THEN UNCHANGED <<state, tearVars, graceVars>>
  ELSE /\ state' = [state EXCEPT ![s] = "terminating"]
       /\ tpc' = [tpc EXCEPT ![s] = "kill"]
       /\ snapProc' = [snapProc EXCEPT ![s] = attached[s]]
       /\ snapDir' = [snapDir EXCEPT ![s] = cpc[s] # "tmpdir"]
       /\ armed' = armed \ {s}
       /\ graceGen' = [graceGen EXCEPT ![s] = @ + 1]

\* The guard and the snapshot taken under sess.mu.  TmpDir is set once the
\* creator has left the "tmpdir" step.
terminateSession(s) ==
  IF s \notin sessions \/ state[s] \in Down
  THEN UNCHANGED <<state, tearVars, graceVars>>
  ELSE /\ state' = [state EXCEPT ![s] = "terminating"]
       /\ tpc' = [tpc EXCEPT ![s] = "kill"]
       /\ snapProc' = [snapProc EXCEPT ![s] = attached[s]]
       /\ snapDir' = [snapDir EXCEPT ![s] = cpc[s] # "tmpdir"]
       /\ armed' = armed \ {s}
       /\ graceGen' = [graceGen EXCEPT ![s] = @ + 1]

\* DELETE /sessions/{id} (also the API's rollback), or the SIGTERM loop in main.
TerminateSession(s) ==
  /\ s \in sessions
  /\ terminateSession(s)
  /\ UNCHANGED <<sessions, slotVars, cpc, dir, procVars, attached,
                 everConnected, expiry, poll>>

\* Mutant: the signal is sent and the exit is not awaited.
KillXpraSessionNoWait(s) ==
  /\ tpc[s] = "kill"
  /\ tpc' = [tpc EXCEPT ![s] = "xvfb"]
  /\ UNCHANGED <<sessions, state, slotVars, cpc, dir, procVars, attached,
                 everConnected, graceVars, expiry, snapProc, snapDir, poll>>

\* KillXpraSession waits for the exit, or gives up when even SIGKILL leaves
\* the process unreaped.  SIGTERM lets xpra take its Xvfb down, SIGKILL does not.
KillXpraSession(s) ==
  /\ tpc[s] = "kill"
  /\ tpc' = [tpc EXCEPT ![s] = "xvfb"]
  /\ IF snapProc[s] /\ proc[s] = "running"
     THEN \/ /\ proc' = [proc EXCEPT ![s] = "exited"]
             /\ clients' = [clients EXCEPT ![s] = 0]
             /\ xvfb' \in {xvfb, [xvfb EXCEPT ![s] = "gone"]}
             /\ UNCHANGED unkilled
          \/ /\ "sigkill" \in Faults
             /\ unkilled' = unkilled \cup {s}
             /\ UNCHANGED <<proc, clients, xvfb>>
     ELSE UNCHANGED procVars
  /\ UNCHANGED <<sessions, state, slotVars, cpc, dir, attached, everConnected,
                 graceVars, expiry, snapProc, snapDir, poll>>

\* m.killXvfb(display): whichever Xvfb holds the display's lock file.
KillXvfbForDisplay(s) ==
  /\ tpc[s] = "xvfb"
  /\ tpc' = [tpc EXCEPT ![s] = "cleanup"]
  /\ xvfb' = [t \in Session |-> IF xvfb[t] = "up" /\ display[t] = display[s]
                                THEN "gone" ELSE xvfb[t]]
  /\ UNCHANGED <<sessions, state, slotVars, cpc, dir, proc, unkilled, clients,
                 attached, everConnected, graceVars, expiry, snapProc, snapDir,
                 poll>>

\* Mutant: the session leaves the map before its slots are released.
CleanupTmpDirUnmaps(s) ==
  /\ tpc[s] = "cleanup"
  /\ tpc' = [tpc EXCEPT ![s] = "release"]
  /\ dir' = [dir EXCEPT ![s] = @ /\ ~snapDir[s]]
  /\ sessions' = sessions \ {s}
  /\ UNCHANGED <<state, slotVars, cpc, procVars, attached,
                 everConnected, graceVars, expiry, snapProc, snapDir, poll>>

\* Mutant: the teardown goes on only if there is a tmp dir to remove.
CleanupTmpDirOrStop(s) ==
  /\ tpc[s] = "cleanup"
  /\ snapDir[s]
  /\ tpc' = [tpc EXCEPT ![s] = "release"]
  /\ dir' = [dir EXCEPT ![s] = FALSE]
  /\ UNCHANGED <<sessions, state, slotVars, cpc, procVars, attached,
                 everConnected, graceVars, expiry, snapProc, snapDir, poll>>

CleanupTmpDir(s) ==
  /\ tpc[s] = "cleanup"
  /\ tpc' = [tpc EXCEPT ![s] = "release"]
  /\ dir' = [dir EXCEPT ![s] = @ /\ ~snapDir[s]]
  /\ UNCHANGED <<sessions, state, slotVars, cpc, procVars, attached,
                 everConnected, graceVars, expiry, snapProc, snapDir, poll>>

\* Both pool releases, then State = Terminated.
ReleaseSlots(s) ==
  /\ tpc[s] = "release"
  /\ tpc' = [tpc EXCEPT ![s] = "finish"]
  /\ freeDisplays' = freeDisplays \cup {display[s]}
  /\ freePorts' = freePorts \cup {wsPort[s]}
  /\ state' = [state EXCEPT ![s] = "terminated"]
  /\ UNCHANGED <<sessions, display, wsPort, cpc, dir, procVars, attached,
                 everConnected, graceVars, expiry, snapProc, snapDir, poll>>

RemoveSession(s) ==
  /\ tpc[s] = "finish"
  /\ tpc' = [tpc EXCEPT ![s] = "done"]
  /\ sessions' = sessions \ {s}
  /\ UNCHANGED <<state, slotVars, cpc, dir, procVars, attached, everConnected,
                 graceVars, expiry, snapProc, snapDir, poll>>

-----------------------------------------------------------------------------
(* CreateSession                                                           *)

\* The m.mu section: duplicate and capacity checks, one display, one port.
CreateSession(s, d, p) ==
  /\ state[s] = "absent"
  /\ Cardinality(sessions) < MaxSessions
  /\ d \in freeDisplays
  /\ p \in freePorts
  /\ freeDisplays' = freeDisplays \ {d}
  /\ freePorts' = freePorts \ {p}
  /\ sessions' = sessions \cup {s}
  /\ state' = [state EXCEPT ![s] = "creating"]
  /\ display' = [display EXCEPT ![s] = d]
  /\ wsPort' = [wsPort EXCEPT ![s] = p]
  /\ cpc' = [cpc EXCEPT ![s] = "tmpdir"]
  /\ UNCHANGED <<dir, procVars, attached, everConnected, graceVars, expiry,
                 tearVars, poll>>

\* A display but no port: the display goes back before the lock is dropped.
CreateWithoutPort(d) ==
  /\ Cardinality(sessions) < MaxSessions
  /\ d \in freeDisplays
  /\ freePorts = {}
  /\ freeDisplays' = (freeDisplays \ {d}) \cup {d}
  /\ UNCHANGED <<sessions, state, display, wsPort, freePorts, cpc, dir, procVars,
                 attached, everConnected, graceVars, expiry, tearVars, poll>>

\* Any failing step of CreateSession calls terminateSession and returns.
FailCreate(s) ==
  /\ cpc' = [cpc EXCEPT ![s] = "done"]
  /\ terminateSession(s)

CreateSessionTmpDir(s) ==
  /\ cpc[s] = "tmpdir"
  /\ \/ /\ dir' = [dir EXCEPT ![s] = TRUE]
        /\ cpc' = [cpc EXCEPT ![s] = "start"]
        /\ UNCHANGED <<state, tearVars, graceVars>>
     \/ /\ "mkdir" \in Faults
        /\ FailCreate(s)
        /\ UNCHANGED dir
  /\ UNCHANGED <<sessions, slotVars, procVars, attached, everConnected, expiry,
                 poll>>

\* StartXpra writes into the tmp dir, so it fails once the dir is gone.
StartXpra(s) ==
  /\ cpc[s] = "start"
  /\ \/ /\ dir[s]
        /\ proc' = [proc EXCEPT ![s] = "running"]
        /\ cpc' = [cpc EXCEPT ![s] = "attach"]
        /\ UNCHANGED <<state, tearVars, graceVars>>
     \/ /\ ~dir[s] \/ "start" \in Faults
        /\ FailCreate(s)
        /\ UNCHANGED proc
  /\ UNCHANGED <<sessions, slotVars, dir, xvfb, unkilled, clients, attached,
                 everConnected, expiry, poll>>

\* sess.proc = proc; the exit watcher starts here.
AttachProc(s) ==
  /\ cpc[s] = "attach"
  /\ attached' = [attached EXCEPT ![s] = TRUE]
  /\ cpc' = [cpc EXCEPT ![s] = "wait"]
  /\ UNCHANGED <<sessions, state, slotVars, dir, procVars, everConnected,
                 graceVars, expiry, tearVars, poll>>

\* An xpra answers on its port and to `xpra info` once its X server is up.
Serving(s) == proc[s] = "running" /\ xvfb[s] = "up"

\* The readiness probe dials the port: whoever listens there answers.  It
\* times out, or the select sees proc.Done() first.
WaitForXpraReady(s) ==
  /\ cpc[s] = "wait"
  /\ \/ /\ \E t \in Session : Serving(t) /\ wsPort[t] = wsPort[s]
        /\ cpc' = [cpc EXCEPT ![s] = "activate"]
        /\ UNCHANGED <<state, tearVars, graceVars>>
     \/ FailCreate(s)
  /\ UNCHANGED <<sessions, slotVars, dir, procVars, attached, everConnected,
                 expiry, poll>>

\* Mutant: the creator does not look at the state again.
ActivateAnyway(s) ==
  /\ cpc[s] = "activate"
  /\ cpc' = [cpc EXCEPT ![s] = "done"]
  /\ state' = [state EXCEPT ![s] = "active"]
  /\ UNCHANGED <<sessions, slotVars, dir, procVars, attached, everConnected,
                 graceVars, expiry, tearVars, poll>>

\* Active, unless the session was torn down meanwhile ("do not resurrect it").
Activate(s) ==
  /\ cpc[s] = "activate"
  /\ cpc' = [cpc EXCEPT ![s] = "done"]
  /\ state' = IF state[s] \in Down THEN state
              ELSE [state EXCEPT ![s] = "active"]
  /\ UNCHANGED <<sessions, slotVars, dir, procVars, attached, everConnected,
                 graceVars, expiry, tearVars, poll>>

-----------------------------------------------------------------------------
(* The environment: xpra, its Xvfb, the user's browser, the clock.         *)

\* xpra launches its Xvfb some time after it started; an X server that holds
\* the display's lock file keeps a second one out.
XvfbUp(s) ==
  /\ proc[s] = "running"
  /\ xvfb[s] = "none"
  /\ \A t \in Session : xvfb[t] = "up" => display[t] # display[s]
  /\ xvfb' = [xvfb EXCEPT ![s] = "up"]
  /\ UNCHANGED <<sessions, state, slotVars, cpc, dir, proc, unkilled, clients,
                 attached, everConnected, graceVars, expiry, tearVars, poll>>

\* xpra exits by itself: a crash leaves the Xvfb behind, a clean exit does not.
XpraExits(s) ==
  /\ "exit" \in Faults
  /\ proc[s] = "running"
  /\ proc' = [proc EXCEPT ![s] = "exited"]
  /\ clients' = [clients EXCEPT ![s] = 0]
  /\ xvfb' \in {xvfb, [xvfb EXCEPT ![s] = "gone"]}
  /\ UNCHANGED <<sessions, state, slotVars, cpc, dir, unkilled, attached,
                 everConnected, graceVars, expiry, tearVars, poll>>

ClientToggles(s) ==
  /\ Serving(s)
  /\ state[s] \in {"active", "grace"}
  /\ graceGen[s] < MaxGen
  /\ clients' = [clients EXCEPT ![s] = 1 - @]
  /\ UNCHANGED <<sessions, state, slotVars, cpc, dir, proc, xvfb, unkilled,
                 attached, everConnected, graceVars, expiry, tearVars, poll>>

-----------------------------------------------------------------------------
(* watchProcessExit, the grace timer and the cleanup loop.                 *)

\* proc.Done() is closed; a session already going down is left alone.
watchProcessExit(s) ==
  /\ attached[s]
  /\ proc[s] = "exited"
  /\ s \in sessions
  /\ state[s] \notin Down
  /\ terminateSession(s)
  /\ UNCHANGED <<sessions, slotVars, cpc, dir, procVars, attached,
                 everConnected, expiry, poll>>

enterGrace(s) ==
  IF state[s] # "active"
  THEN UNCHANGED <<state, graceVars>>
  ELSE /\ state' = [state EXCEPT ![s] = "grace"]
       /\ graceGen' = [graceGen EXCEPT ![s] = @ + 1]
       /\ armed' = armed \cup {s}

cancelGrace(s) ==
  IF state[s] # "grace"
  THEN UNCHANGED <<state, graceVars>>
  ELSE /\ state' = [state EXCEPT ![s] = "active"]
       /\ graceGen' = [graceGen EXCEPT ![s] = @ + 1]
       /\ armed' = armed \ {s}

\* What `xpra info :d` may report: it can always fail, and it answers for
\* whatever process serves the display now.
QueryXpraStatus(d) ==
  {Unknown} \cup {clients[t] : t \in {u \in Session : Serving(u) /\ display[u] = d}}

\* The AfterFunc goroutine starts; from here Stop() comes too late.
GraceTimerFires(s) ==
  /\ s \in armed
  /\ armed' = armed \ {s}
  /\ expiry' = expiry \cup {[sess |-> s, gen |-> graceGen[s], pc |-> "fired"]}
  /\ UNCHANGED <<sessions, state, slotVars, cpc, dir, procVars, attached,
                 everConnected, graceGen, tearVars, poll>>

\* The generation check under sess.mu.
ExpireCheck(e) ==
  /\ e.pc = "fired"
  /\ expiry' = (expiry \ {e}) \cup
       IF e.sess \in sessions /\ state[e.sess] = "grace" /\ graceGen[e.sess] = e.gen
       THEN {[e EXCEPT !.pc = "query"]} ELSE {}
  /\ UNCHANGED <<sessions, state, slotVars, cpc, dir, procVars, attached,
                 everConnected, graceVars, tearVars, poll>>

\* The re-query, made without the lock: clients back, unknown, or none.
ExpireQuery(e) ==
  /\ e.pc = "query"
  /\ \E n \in QueryXpraStatus(display[e.sess]) :
       expiry' = (expiry \ {e}) \cup
                   CASE n = 1 -> {[e EXCEPT !.pc = "cancel"]}
                     [] n = 0 -> {[e EXCEPT !.pc = "kill"]}
                     [] n = Unknown -> {}
  /\ UNCHANGED <<sessions, state, slotVars, cpc, dir, procVars, attached,
                 everConnected, graceVars, tearVars, poll>>

ExpireAct(e) ==
  /\ \/ e.pc = "cancel" /\ cancelGrace(e.sess) /\ UNCHANGED tearVars
     \/ e.pc = "kill" /\ terminateSession(e.sess)
  /\ expiry' = expiry \ {e}
  /\ UNCHANGED <<sessions, slotVars, cpc, dir, procVars, attached,
                 everConnected, poll>>

\* checkTimeouts: the ids are copied, then visited one by one.
PollTick ==
  /\ poll.pc = "idle"
  /\ sessions # {}
  /\ poll' = [PollIdle EXCEPT !.pc = "next", !.todo = sessions]
  /\ UNCHANGED <<sessions, state, slotVars, cpc, dir, procVars, attached,
                 everConnected, graceVars, expiry, tearVars>>

PollDone ==
  /\ poll.pc = "next"
  /\ poll.todo = {}
  /\ poll' = PollIdle
  /\ UNCHANGED <<sessions, state, slotVars, cpc, dir, procVars, attached,
                 everConnected, graceVars, expiry, tearVars>>

\* The loop is done with s, or waits for the teardown it called (none, if
\* another caller owns it).
PollContinue(s) == [PollIdle EXCEPT !.pc = "next", !.todo = poll.todo \ {s}]
PollTerminates(s) ==
  /\ terminateSession(s)
  /\ poll' = IF s \notin sessions \/ state[s] \in Down THEN PollContinue(s)
             ELSE [PollIdle EXCEPT !.pc = "wait", !.todo = poll.todo \ {s}, !.cur = s]

PollTeardownDone ==
  /\ poll.pc = "wait"
  /\ tpc[poll.cur] = "done"
  /\ poll' = [poll EXCEPT !.pc = "next", !.cur = None]
  /\ UNCHANGED <<sessions, state, slotVars, cpc, dir, procVars, attached,
                 everConnected, graceVars, expiry, tearVars>>

\* The snapshot of one session; only active and grace sessions are looked at.
PollSnapshot(s) ==
  /\ poll.pc = "next"
  /\ s \in poll.todo
  /\ poll' = IF s \in sessions /\ state[s] \in {"active", "grace"}
             THEN [poll EXCEPT !.pc = "age", !.cur = s, !.st = state[s],
                               !.ever = everConnected[s]]
             ELSE PollContinue(s)
  /\ UNCHANGED <<sessions, state, slotVars, cpc, dir, procVars, attached,
                 everConnected, graceVars, expiry, tearVars>>

\* Mutant: the lifetime test reads the state again and spares a session in grace.
PollLifetimeOverSpares(s) ==
  /\ poll.pc = "age" /\ poll.cur = s
  /\ state[s] # "active"
  /\ PollTerminates(s)
  /\ UNCHANGED <<sessions, slotVars, cpc, dir, procVars, attached, everConnected, expiry>>

\* The two tests made before the query: max_lifetime, then a reaped process.
PollLifetimeOver(s) ==
  /\ poll.pc = "age" /\ poll.cur = s
  /\ PollTerminates(s)
  /\ UNCHANGED <<sessions, slotVars, cpc, dir, procVars, attached, everConnected, expiry>>

PollLifetimeLeft(s) ==
  /\ poll.pc = "age" /\ poll.cur = s
  /\ IF attached[s] /\ proc[s] = "exited"
     THEN PollTerminates(s)
     ELSE /\ poll' = [poll EXCEPT !.pc = "query"]
          /\ UNCHANGED <<state, tearVars, graceVars>>
  /\ UNCHANGED <<sessions, slotVars, cpc, dir, procVars, attached, everConnected, expiry>>

PollQuery ==
  /\ poll.pc = "query"
  /\ \E n \in QueryXpraStatus(display[poll.cur]) :
       poll' = IF n = Unknown THEN PollContinue(poll.cur)
               ELSE [poll EXCEPT !.pc = "act", !.clients = n]
  /\ UNCHANGED <<sessions, state, slotVars, cpc, dir, procVars, attached,
                 everConnected, graceVars, expiry, tearVars>>

\* No client: first-connect deadline, enter grace, or the grace backstop,
\* all decided on the snapshot.
PollNoClient(s) ==
  /\ poll.pc = "act" /\ poll.cur = s /\ poll.clients = 0
  /\ \/ \* a deadline passed: never_connected, or the grace backstop
        /\ ~poll.ever \/ poll.st = "grace"
        /\ PollTerminates(s)
     \/ \* no deadline passed
        /\ ~poll.ever \/ poll.st = "grace"
        /\ poll' = PollContinue(s)
        /\ UNCHANGED <<state, graceVars, tearVars>>
     \/ /\ poll.ever
        /\ poll.st = "active"
        /\ enterGrace(s)
        /\ poll' = PollContinue(s)
        /\ UNCHANGED tearVars
  /\ UNCHANGED <<sessions, slotVars, cpc, dir, procVars, attached,
                 everConnected, expiry>>

\* A client: remember it and leave grace; an idle one then ends the session, and
\* the teardown stops the timer and changes graceGen whether or not it was in grace.
PollHasClient(s) ==
  /\ poll.pc = "act" /\ poll.cur = s /\ poll.clients = 1
  /\ everConnected' = [everConnected EXCEPT ![s] = TRUE]
  /\ \/ /\ IF poll.st = "grace" THEN cancelGrace(s) ELSE UNCHANGED <<state, graceVars>>
        /\ poll' = PollContinue(s)
        /\ UNCHANGED tearVars
     \/ PollTerminates(s)
  /\ UNCHANGED <<sessions, slotVars, cpc, dir, procVars, attached, expiry>>
-----------------------------------------------------------------------------
Create(s) ==
  \/ \E d \in Display, p \in WsPort : CreateSession(s, d, p)
  \/ CreateSessionTmpDir(s) \/ StartXpra(s) \/ AttachProc(s)
  \/ WaitForXpraReady(s) \/ Activate(s)

Teardown(s) ==
  \/ KillXpraSession(s) \/ KillXvfbForDisplay(s) \/ CleanupTmpDir(s)
  \/ ReleaseSlots(s) \/ RemoveSession(s)

Expire(e) == ExpireCheck(e) \/ ExpireQuery(e) \/ ExpireAct(e)

Poll ==
  \/ PollTick \/ PollDone \/ PollTeardownDone \/ PollQuery
  \/ \E s \in Session : \/ PollSnapshot(s) \/ PollLifetimeOver(s) \/ PollLifetimeLeft(s)
                        \/ PollNoClient(s) \/ PollHasClient(s)

Environment(s) == XvfbUp(s) \/ XpraExits(s) \/ ClientToggles(s)

\* Every id of the finite set Session has been used: the model, not the worker,
\* stops here.
IdsExhausted ==
  /\ \A s \in Session : cpc[s] = "done" /\ tpc[s] = "done"
  /\ UNCHANGED vars

Next ==
  \/ \E s \in Session : \/ Create(s) \/ TerminateSession(s) \/ Teardown(s)
                        \/ watchProcessExit(s) \/ GraceTimerFires(s) \/ Environment(s)
  \/ \E d \in Display : CreateWithoutPort(d)
  \/ \E e \in expiry : Expire(e)
  \/ Poll
  \/ IdsExhausted

Spec == Init /\ [][Next]_vars

\* The Go scheduler runs every goroutine that can run, and every call it makes
\* outside the locks is bounded by a timeout.  Nothing is assumed of the user,
\* of xpra or of the clock.
Fairness ==
  /\ \A s \in Session :
       /\ WF_vars(CreateSessionTmpDir(s) \/ StartXpra(s) \/ AttachProc(s)
                  \/ WaitForXpraReady(s) \/ Activate(s))
       /\ WF_vars(Teardown(s))
       /\ WF_vars(watchProcessExit(s))
  /\ WF_vars(Poll)

FairSpec == Spec /\ Fairness
-----------------------------------------------------------------------------
(* Safety                                                                  *)

\* A session holds its display and its port from CreateSession until
\* terminateSession has released them.
HoldsSlots(s) == tpc[s] \in {"none", "kill", "xvfb", "cleanup", "release"} /\ state[s] # "absent"

\* Slot accounting across every create, failure and teardown: sessions that
\* hold slots hold different ones, and the pools contain exactly the others.
\* A second release (two terminators), a release that comes before the owner
\* is finished, or one forgotten on an error path breaks it.
SlotsAccounted ==
  /\ \A s, t \in Session : s # t /\ HoldsSlots(s) /\ HoldsSlots(t) =>
       display[s] # display[t] /\ wsPort[s] # wsPort[t]
  /\ freeDisplays = Display \ {display[s] : s \in {u \in Session : HoldsSlots(u)}}
  /\ freePorts = WsPort \ {wsPort[s] : s \in {u \in Session : HoldsSlots(u)}}

\* The capacity check makes pool exhaustion impossible: while MaxSessions is
\* within the pools, a create admitted by len(m.sessions) < MaxSessions finds
\* a display and a port.  It needs slots to be released before the session
\* leaves the map.
CapacityGuardsPools ==
  Cardinality(sessions) < MaxSessions =>
    /\ MaxSessions <= Cardinality(Display) => freeDisplays # {}
    /\ MaxSessions <= Cardinality(WsPort) => freePorts # {}

\* An xpra process outlives its session's slots only in two ways: the
\* teardown took its snapshot before sess.proc was set, or SIGKILL failed.
\* In every other interleaving of creator, watcher, loop, timer and DELETE the
\* process is dead before its display and port can be handed out again.
LeakOnlyByEarlyTeardown ==
  \A s \in Session : proc[s] = "running" /\ ~HoldsSlots(s) =>
    ~snapProc[s] \/ s \in unkilled

\* Two live xpra servers share a display only if one of them leaked that way.
DisplayNotShared ==
  \A s, t \in Session :
    s # t /\ proc[s] = "running" /\ proc[t] = "running" /\ display[s] = display[t] =>
      \E u \in {s, t} : state[u] \in Down /\ (~snapProc[u] \/ u \in unkilled)

\* No Xvfb survives on a display that was given back, also when xpra crashed
\* and left it behind: "it would otherwise survive as a live ~250MB orphan
\* while the slot is reported free".  Same two exceptions.
XvfbSwept ==
  \A s \in Session : xvfb[s] = "up" /\ ~HoldsSlots(s) => ~snapProc[s] \/ s \in unkilled

\* The grace machinery never engages before a client was seen, although
\* enterGrace acts on an everConnected read before the query.
GraceOnlyAfterConnect ==
  \A s \in Session : state[s] = "grace" => everConnected[s]

\* A session that is going down never comes back: not by the creator that
\* sees xpra ready, nor by a late cancelGrace or enterGrace.
NoResurrection ==
  [][\A s \in Session : state[s] \in Down => state'[s] \in Down]_vars

-----------------------------------------------------------------------------
(* Liveness, under Fairness                                                *)

\* Every teardown that starts gives the slots back and empties the map entry.
TeardownCompletes == \A s \in Session : state[s] = "terminating" ~> s \notin sessions

\* If the clock runs (infinitely many visits of the loop find the lifetime
\* over at least once), the lifetime cap ends every session, even one whose
\* status is never known or whose client never leaves.
LifetimeCapEnds ==
  (\A s \in Session : SF_vars(PollLifetimeOver(s))) =>
    \A s \in Session : s \in sessions ~> s \notin sessions

-----------------------------------------------------------------------------
(* What a comment in the code takes for granted and the code does not do.  *)

\* manager.go, on a creator that finds its session going down: "The exit
\* watcher tore the session down while we were waiting for readiness; do not
\* resurrect it."  Nothing is then left running once the teardown is over.
TornDownMeansDead ==
  \A s \in Session : cpc[s] = "done" /\ tpc[s] = "done" => proc[s] # "running"
=============================================================================
