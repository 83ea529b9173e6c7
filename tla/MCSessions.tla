----------------------------- MODULE MCSessions -----------------------------
(* The end of sessions in the browser: WinBox across the services, or SSH in  *)
(* the relay, one of the two in a behaviour.  They share no state.  Every SSH *)
(* token is for the same user and device.                                     *)
EXTENDS WinboxRemote

CONSTANTS Request, Token, User, Device, Key, MaxSessions, MaxPerUser, MaxPerDevice, MaxInFlight

VARIABLES part, redis, pc, tok, known, seen, pin, hostkey, sessions, cancelled, idle, toCancel,
          running, events, audit

Relay == INSTANCE SshRelay WITH
  sweep <- toCancel,
  UserOf <- [k \in Token |-> CHOOSE u \in User : TRUE],
  DeviceOf <- [k \in Token |-> CHOOSE d \in Device : TRUE]

relayVars == <<redis, pc, tok, known, seen, pin, hostkey, sessions, cancelled, idle, toCancel,
               running, events, audit>>

SessionsInit == part \in {"winbox", "relay"} /\ Init /\ Relay!Init

SessionsNext ==
  \/ part = "winbox" /\ Next /\ UNCHANGED <<part, relayVars>>
  \/ part = "relay" /\ Relay!Next /\ UNCHANGED <<part, vars>>

\* Fairness of the two modules.
SessionsFairness ==
  /\ \A s \in Session :
       /\ WF_vars(part = "winbox" /\ Create(s) /\ api[s] # "new")
       /\ WF_vars(part = "winbox" /\ Terminate(s))
       /\ WF_vars(part = "winbox" /\ WsSave(s))
       /\ WF_vars(part = "winbox" /\ (WorkerTakes(s) \/ WorkerAnswers(s)))
       /\ WF_vars(part = "winbox" /\ Ages(s))
  /\ WF_vars(part = "winbox" /\ Sweep)
  /\ \A r \in Request :
       /\ WF_relayVars(part = "relay" /\ Relay!Handshake(r))
       /\ WF_relayVars(part = "relay" /\ Relay!EndSession(r))
  /\ WF_relayVars(part = "relay" /\ Relay!Sweep)

SessionsSpec ==
  SessionsInit /\ [][SessionsNext]_<<part, vars, relayVars>> /\ SessionsFairness

\* server.go: a session that is cancelled by its peer, by the idle loop or by
\* Shutdown stops counting against the limits.
CancelledLeaves == Relay!CancelledLeaves

\* cleanupIdle: while the relay runs, no session stays open and idle.
IdleEnds == Relay!IdleEnds
=============================================================================
