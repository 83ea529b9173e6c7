------------------------------ MODULE SshRelay ------------------------------
(***************************************************************************)
(* The browser terminal: poller/internal/sshrelay.  The backend            *)
(* (remote_access.py) stores a single-use token in Redis; handleSSH spends *)
(* it, checks the session limits, dials the router, registers a session    *)
(* and bridges it until its context is cancelled.  publishSessionEnd sends *)
(* JetStream events that session_audit_subscriber.py turns into audit      *)
(* rows.                                                                   *)
(*                                                                         *)
(* Every request runs handleSSH in a goroutine of its own; the idle loop   *)
(* and Shutdown run beside them.  A step is one critical section of s.mu   *)
(* or one call to Redis, PostgreSQL, the router or NATS.                   *)
(***************************************************************************)
EXTENDS Naturals, FiniteSets

CONSTANTS Request,       \* WebSocket requests, each handled once
          Token,         \* tokens the backend may issue
          User, Device,
          UserOf,        \* the payload stored with a token: its user
          DeviceOf,      \* ... and its device
          Key,           \* SSH host key fingerprints
          MaxSessions, MaxPerUser, MaxPerDevice,
          MaxInFlight,   \* bound: handlers between checkLimits and registration
          None

ASSUME RelayAssumption ==
  /\ IsFiniteSet(Request)
  /\ UserOf \in [Token -> User]
  /\ DeviceOf \in [Token -> Device]
  /\ MaxSessions \in Nat \ {0} /\ MaxPerUser \in Nat \ {0} /\ MaxPerDevice \in Nat \ {0}
  /\ MaxInFlight \in Nat \ {0}
  /\ None \notin Token \cup Key \cup Request

VARIABLES
  redis,      \* the key ssh:token:<token>
  pc,         \* where a request's handleSSH is
  tok,        \* the token a request has spent
  known,      \* knownFingerprint, from the device row it read
  seen,       \* observedFP
  pin,        \* devices.ssh_host_key_fingerprint
  hostkey,    \* the key the router presents now
  sessions,   \* s.sessions
  cancelled,  \* sessions whose context is cancelled
  idle,       \* sessions with IdleDuration() > s.idleTime
  sweep,      \* cleanupIdle: the session being ended, and toCancel
  running,    \* s.cancel has not been called
  events,     \* audit.session.end events in the stream
  audit       \* ssh_session_end rows

relayVars == <<sessions, cancelled, idle, sweep, running>>
keyVars == <<known, seen, pin, hostkey>>
auditVars == <<events, audit>>
vars == <<redis, pc, tok, keyVars, relayVars, auditVars>>

InFlight == {"admitted", "looked", "dialled", "pinned"}
Reason == {"normal", "idle_timeout"}
Event == Request \X Reason

TypeOK ==
  /\ redis \in [Token -> {"unset", "live", "gone"}]
  /\ pc \in [Request -> {"new", "validated", "bridge", "ended", "done", "refused"} \cup InFlight]
  /\ tok \in [Request -> Token \cup {None}]
  /\ known \in [Request -> Key \cup {None}]
  /\ seen \in [Request -> Key \cup {None}]
  /\ pin \in [Device -> Key \cup {None}]
  /\ hostkey \in [Device -> Key]
  /\ sessions \subseteq Request
  /\ cancelled \subseteq Request
  /\ idle \subseteq Request
  /\ sweep \in [cur : Request \cup {None}, todo : SUBSET Request]
  /\ running \in BOOLEAN
  /\ events \subseteq Event
  /\ audit \subseteq Event

Init ==
  /\ redis = [k \in Token |-> "unset"]
  /\ pc = [r \in Request |-> "new"]
  /\ tok = [r \in Request |-> None]
  /\ known = [r \in Request |-> None]
  /\ seen = [r \in Request |-> None]
  /\ pin = [d \in Device |-> None]
  /\ hostkey \in [Device -> Key]
  /\ sessions = {}
  /\ cancelled = {}
  /\ idle = {}
  /\ sweep = [cur |-> None, todo |-> {}]
  /\ running = TRUE
  /\ events = {}
  /\ audit = {}

Goto(r, l) == pc' = [pc EXCEPT ![r] = l]

Dev(r) == DeviceOf[tok[r]]

\* knownFingerprint and observedFP are not read again.
ForgetKeys(r) ==
  /\ known' = [known EXCEPT ![r] = None]
  /\ seen' = [seen EXCEPT ![r] = None]

\* The requests of a set that belong to a user, or to a device.
OfUser(S, u) == {r \in S : UserOf[tok[r]] = u}
OfDevice(S, d) == {r \in S : DeviceOf[tok[r]] = d}

\* The handlers that have passed checkLimits and are not registered yet.
Handshaking == {r \in Request : pc[r] \in InFlight}

-----------------------------------------------------------------------------
(* Tokens                                                                  *)

\* open_ssh_session: SETEX.
IssueToken(k) ==
  /\ redis[k] = "unset"
  /\ redis' = [redis EXCEPT ![k] = "live"]
  /\ UNCHANGED <<pc, tok, keyVars, relayVars, auditVars>>

\* The 120 s TTL.
TokenExpires(k) ==
  /\ redis[k] = "live"
  /\ redis' = [redis EXCEPT ![k] = "gone"]
  /\ UNCHANGED <<pc, tok, keyVars, relayVars, auditVars>>

\* Mutant: GET instead of GETDEL.
validateTokenKeeps(r, k) ==
  /\ running /\ pc[r] = "new"
  /\ IF redis[k] = "live"
     THEN Goto(r, "validated") /\ tok' = [tok EXCEPT ![r] = k]
     ELSE Goto(r, "refused") /\ UNCHANGED tok
  /\ UNCHANGED <<redis, keyVars, relayVars, auditVars>>

\* A request arrives with token k: GETDEL.
validateToken(r, k) ==
  /\ running /\ pc[r] = "new"
  /\ IF redis[k] = "live"
     THEN /\ Goto(r, "validated")
          /\ tok' = [tok EXCEPT ![r] = k]
          /\ redis' = [redis EXCEPT ![k] = "gone"]
     ELSE Goto(r, "refused") /\ UNCHANGED <<tok, redis>>
  /\ UNCHANGED <<keyVars, relayVars, auditVars>>

-----------------------------------------------------------------------------
(* handleSSH after the token                                               *)

WithinLimits(r) ==
  /\ Cardinality(sessions) < MaxSessions
  /\ Cardinality(OfUser(sessions, UserOf[tok[r]])) < MaxPerUser
  /\ Cardinality(OfDevice(sessions, DeviceOf[tok[r]])) < MaxPerDevice

\* Mutant: <= for <.
checkLimitsOffByOne(r) ==
  /\ pc[r] = "validated"
  /\ Cardinality(Handshaking) < MaxInFlight
  /\ IF /\ Cardinality(sessions) <= MaxSessions
        /\ Cardinality(OfUser(sessions, UserOf[tok[r]])) <= MaxPerUser
        /\ Cardinality(OfDevice(sessions, DeviceOf[tok[r]])) <= MaxPerDevice
     THEN Goto(r, "admitted")
     ELSE Goto(r, "refused")
  /\ UNCHANGED <<redis, tok, keyVars, relayVars, auditVars>>

\* Counts the registered sessions, under s.mu; the handshakes in progress are
\* not among them.
checkLimits(r) ==
  /\ pc[r] = "validated"
  /\ Cardinality(Handshaking) < MaxInFlight
  /\ Goto(r, IF WithinLimits(r) THEN "admitted" ELSE "refused")
  /\ UNCHANGED <<redis, tok, keyVars, relayVars, auditVars>>

\* The upgrade, the device row, the tenant test, the credentials, the dial, the
\* pty or the shell fails: nothing is registered.
Refuse(r) ==
  /\ pc[r] \in InFlight
  /\ Goto(r, "refused")
  /\ ForgetKeys(r)
  /\ UNCHANGED <<redis, tok, pin, hostkey, relayVars, auditVars>>

\* GetDevice.
LookUpDevice(r) ==
  /\ pc[r] = "admitted"
  /\ known' = [known EXCEPT ![r] = pin[Dev(r)]]
  /\ Goto(r, "looked")
  /\ UNCHANGED <<redis, tok, seen, pin, hostkey, relayVars, auditVars>>

\* ssh.Dial with the TOFU host key callback.
DialSSH(r) ==
  /\ pc[r] = "looked"
  /\ IF known[r] \in {None, hostkey[Dev(r)]}
     THEN /\ seen' = [seen EXCEPT ![r] = hostkey[Dev(r)]]
          /\ Goto(r, "dialled")
          /\ UNCHANGED known
     ELSE Goto(r, "refused") /\ ForgetKeys(r)
  /\ UNCHANGED <<redis, tok, pin, hostkey, relayVars, auditVars>>

\* UpdateSSHHostKey on first connect.  A conflict or a database error is logged
\* and the session goes on.
PinHostKey(r) ==
  /\ pc[r] = "dialled"
  /\ IF known[r] = None /\ pin[Dev(r)] = None
     THEN pin' \in {pin, [pin EXCEPT ![Dev(r)] = seen[r]]}
     ELSE UNCHANGED pin
  /\ Goto(r, "pinned")
  /\ ForgetKeys(r)
  /\ UNCHANGED <<redis, tok, hostkey, relayVars, auditVars>>

\* NewSession, RequestPty and Shell succeeded; s.sessions[sess.ID] = sess.
Register(r) ==
  /\ pc[r] = "pinned"
  /\ sessions' = sessions \cup {r}
  /\ Goto(r, "bridge")
  /\ UNCHANGED <<redis, tok, keyVars, cancelled, idle, sweep, running, auditVars>>

-----------------------------------------------------------------------------
(* bridge, and the end of handleSSH                                        *)

\* A message from the browser or bytes of stdout; stderr does not count.
Traffic(r) ==
  /\ pc[r] = "bridge" /\ r \notin cancelled
  /\ r \in idle
  /\ idle' = idle \ {r}
  /\ UNCHANGED <<redis, pc, tok, keyVars, sessions, cancelled, sweep, running, auditVars>>

\* One of the three copies ends and cancels the context.
PumpEnds(r) ==
  /\ pc[r] = "bridge" /\ r \notin cancelled
  /\ cancelled' = cancelled \cup {r}
  /\ UNCHANGED <<redis, pc, tok, keyVars, sessions, idle, sweep, running, auditVars>>

\* Mutant: the map entry stays.
UnregisterNot(r) ==
  /\ pc[r] = "bridge" /\ r \in cancelled
  /\ Goto(r, "ended")
  /\ UNCHANGED <<redis, tok, keyVars, relayVars, auditVars>>

\* <-ctx.Done(), the three Close calls, and delete(s.sessions, sess.ID).
Unregister(r) ==
  /\ pc[r] = "bridge" /\ r \in cancelled
  /\ sessions' = sessions \ {r}
  /\ idle' = idle \ {r}
  /\ Goto(r, "ended")
  /\ UNCHANGED <<redis, tok, keyVars, cancelled, sweep, running, auditVars>>

\* publishSessionEnd: an error is logged and the event is lost.
publishSessionEnd(r, reason) == events' \in {events, events \cup {<<r, reason>>}}

PublishNormal(r) ==
  /\ pc[r] = "ended"
  /\ publishSessionEnd(r, "normal")
  /\ Goto(r, "done")
  /\ UNCHANGED <<redis, tok, keyVars, relayVars, audit>>

-----------------------------------------------------------------------------
(* The idle loop and Shutdown                                              *)

\* Mutant: the comparison is inverted.
cleanupIdleInverted ==
  /\ running
  /\ sweep = [cur |-> None, todo |-> {}]
  /\ sessions \ idle # {}
  /\ sweep' = [cur |-> None, todo |-> sessions \ idle]
  /\ UNCHANGED <<redis, pc, tok, keyVars, sessions, cancelled, idle, running, auditVars>>

\* cleanupIdle collects toCancel under s.mu; a session that is being closed is
\* still in the map and is collected again.
cleanupIdle ==
  /\ running
  /\ sweep = [cur |-> None, todo |-> {}]
  /\ sessions \cap idle # {}
  /\ sweep' = [cur |-> None, todo |-> sessions \cap idle]
  /\ UNCHANGED <<redis, pc, tok, keyVars, sessions, cancelled, idle, running, auditVars>>

\* Mutant: the sweep reports the end and does not cancel.
SweepCancelNot(r) ==
  /\ sweep.cur = None /\ r \in sweep.todo
  /\ sweep' = [cur |-> r, todo |-> sweep.todo \ {r}]
  /\ UNCHANGED <<redis, pc, tok, keyVars, sessions, cancelled, idle, running, auditVars>>

\* sess.cancel() for the next of them.
SweepCancel(r) ==
  /\ sweep.cur = None /\ r \in sweep.todo
  /\ cancelled' = cancelled \cup {r}
  /\ sweep' = [cur |-> r, todo |-> sweep.todo \ {r}]
  /\ UNCHANGED <<redis, pc, tok, keyVars, sessions, idle, running, auditVars>>

SweepPublish ==
  /\ sweep.cur # None
  /\ publishSessionEnd(sweep.cur, "idle_timeout")
  /\ sweep' = [sweep EXCEPT !.cur = None]
  /\ UNCHANGED <<redis, pc, tok, keyVars, sessions, cancelled, idle, running, audit>>

\* After httpServer.Shutdown, which refuses new requests.
Shutdown ==
  /\ running
  /\ running' = FALSE
  /\ cancelled' = cancelled \cup sessions
  /\ UNCHANGED <<redis, pc, tok, keyVars, sessions, idle, sweep, auditVars>>

-----------------------------------------------------------------------------
(* The audit subscriber, and the environment                               *)

\* on_session_end: log_action swallows a failed INSERT, so the event is acked
\* with or without a row.
on_session_end(e) ==
  /\ e \in events
  /\ events' = events \ {e}
  /\ audit' \in {audit, audit \cup {e}}
  /\ UNCHANGED <<redis, pc, tok, keyVars, relayVars>>

GoIdle(r) ==
  /\ r \in sessions \ idle
  /\ idle' = idle \cup {r}
  /\ UNCHANGED <<redis, pc, tok, keyVars, sessions, cancelled, sweep, running, auditVars>>

\* The router is reset and presents another host key.
Rekey(d) ==
  /\ \E k \in Key \ {hostkey[d]} : hostkey' = [hostkey EXCEPT ![d] = k]
  /\ UNCHANGED <<redis, pc, tok, known, seen, pin, relayVars, auditVars>>

\* The process ends after Shutdown.
MainExits == ~running /\ UNCHANGED vars

Handshake(r) ==
  checkLimits(r) \/ LookUpDevice(r) \/ DialSSH(r) \/ PinHostKey(r) \/ Register(r) \/ Refuse(r)

EndSession(r) == Unregister(r) \/ PublishNormal(r)

Sweep == cleanupIdle \/ SweepPublish \/ \E r \in Request : SweepCancel(r)

Next ==
  \/ \E k \in Token : IssueToken(k) \/ TokenExpires(k)
  \/ \E r \in Request, k \in Token : validateToken(r, k)
  \/ \E r \in Request : Handshake(r) \/ EndSession(r) \/ Traffic(r) \/ PumpEnds(r) \/ GoIdle(r)
  \/ Sweep \/ Shutdown \/ MainExits
  \/ \E e \in events : on_session_end(e)
  \/ \E d \in Device : Rekey(d)

Spec == Init /\ [][Next]_vars

\* Handlers and the idle loop run when they can; a dial and a publish have
\* timeouts.  Browsers, routers and the subscriber owe nothing.
Fairness ==
  /\ \A r \in Request : WF_vars(Handshake(r)) /\ WF_vars(EndSession(r))
  /\ WF_vars(Sweep)

FairSpec == Spec /\ Fairness

-----------------------------------------------------------------------------
\* GETDEL makes a token single-use however many requests present it at once:
\* no two handlers have been let in by the same token.
TokenSingleUse ==
  \A r, q \in Request : r # q /\ tok[r] # None => tok[r] # tok[q]

\* checkLimits counts registered sessions only, so each limit can be overshot,
\* but by no more than the handshakes that may overlap: MaxInFlight - 1.
LimitOvershoot ==
  /\ Cardinality(sessions) <= MaxSessions + MaxInFlight - 1
  /\ \A u \in User : Cardinality(OfUser(sessions, u)) <= MaxPerUser + MaxInFlight - 1
  /\ \A d \in Device : Cardinality(OfDevice(sessions, d)) <= MaxPerDevice + MaxInFlight - 1

\* UpdateSSHHostKey: "A pin is written once": whatever first connects race and
\* whenever the router is rekeyed, a stored fingerprint is not replaced.
PinWrittenOnce == [][\A d \in Device : pin[d] # None => pin'[d] = pin[d]]_vars

\* publishSessionEnd: an end in the stream or in the audit log is that of a
\* session that ends.  The sweep reports from a list made before, and by then the
\* session may be busy again, cancelled by another or gone; the handler reports
\* too, so there can be two ends, but none of a session that goes on.
NoEarlyEnd ==
  \A e \in events \cup audit :
    e[1] \in cancelled /\ (e[2] = "normal" => e[1] \notin sessions)

\* A session that is cancelled by its peer, by the idle loop or by Shutdown
\* stops counting against the limits.
CancelledLeaves == \A r \in Request : r \in cancelled ~> r \notin sessions

\* While the relay runs, no session stays open and idle.
IdleEnds == \A r \in Request : []<>(r \notin sessions \/ r \notin idle \/ ~running)
=============================================================================
