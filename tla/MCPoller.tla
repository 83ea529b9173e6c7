------------------------------ MODULE MCPoller ------------------------------
(* What the poller keeps for others: the tunnels, or the credentials of a     *)
(* device, one of the two in a behaviour.  They share no state.               *)
EXTENDS TunnelManager, MCCredentialCache

VARIABLE part

\* Which credentials the device has at first matters to the cache only.
PollerInit ==
  /\ part \in {"tunnel", "cache"}
  /\ TunnelInit /\ Init
  /\ part = "tunnel" => \A k \in Source : row[k] = 1

PollerNext ==
  \/ part = "tunnel" /\ TunnelNext /\ UNCHANGED <<part, vars>>
  \/ part = "cache" /\ Next /\ UNCHANGED <<part, tunnelVars>>

\* Fairness of the two modules.
PollerFairness ==
  /\ \A k \in Closer : WF_tunnelVars(part = "tunnel" /\ Close(k))
  /\ \A c \in Conn : WF_tunnelVars(part = "tunnel" /\ HandleConn(c))
  /\ WF_tunnelVars(part = "tunnel" /\ CleanupIdle)
  /\ \A c \in Caller : WF_vars(part = "cache" /\ CallStep(c))
  /\ \A r \in Replica, k \in Source : WF_vars(part = "cache" /\ CacheExpires(r, k))

PollerSpec == PollerInit /\ [][PollerNext]_<<part, tunnelVars, vars>> /\ PollerFairness
=============================================================================
