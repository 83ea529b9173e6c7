---------------------------- MODULE TunnelManager ----------------------------
(***************************************************************************)
(* The WinBox tunnels of the poller: poller/internal/tunnel, driven by the *)
(* NATS responder poller/internal/bus/tunnel_responder.go.  A tunnel is a  *)
(* TCP listener on a port of PortPool; accepted connections are proxied to *)
(* the router until either side closes or the tunnel is closed.            *)
(*                                                                         *)
(* NATS runs one callback at a time per subscription, so there is one      *)
(* opener and one "nats" closer; the idle loop and Shutdown close tunnels  *)
(* too.  A step is one critical section of m.mu or pp.mu, or one network   *)
(* call.  Time is abstract: idle[t] becomes true at any moment and false   *)
(* when bytes are read.                                                    *)
(***************************************************************************)
EXTENDS Naturals, FiniteSets

CONSTANTS Tunnel,   \* tunnel ids; OpenTunnel draws a fresh uuid for each
          Port,     \* the ports of the pool, a set of naturals
          Conn,     \* slots for client connections: as many are open at a time
          Nil       \* no tunnel or no port

ASSUME TunnelAssumption == Port \subseteq Nat /\ Nil \notin Tunnel \cup Port

VARIABLES
  used,      \* PortPool.used
  foreign,   \* ports of the range that another program has bound
  tunnels,   \* domain of Manager.tunnels
  pc,        \* where a tunnel's OpenTunnel or CloseTunnel call is
  port,      \* Tunnel.LocalPort
  idle,      \* IdleDuration() > m.idleTime, for tunnels in the map
  conn,      \* a connection's tunnel and where accept / handleConn is with it
  closer,    \* the three callers of CloseTunnel
  running    \* m.cancel has not been called

tunnelVars == <<used, foreign, tunnels, pc, port, idle, conn, closer, running>>

Closer == {"nats", "idle", "shutdown"}
NoConn == [tun |-> Nil, pc |-> "none"]
CloserIdle == [tun |-> Nil, todo |-> {}]
Owning == {"listen", "register", "open", "unmapped", "wait", "release"}
Counted == {"dial", "proxy"}

TunnelTypes ==
  /\ used \subseteq Port
  /\ foreign \subseteq Port
  /\ tunnels \subseteq Tunnel
  /\ pc \in [Tunnel -> {"unused", "closed", "failed"} \cup Owning]
  /\ port \in [Tunnel -> Port \cup {Nil}]
  /\ idle \in [Tunnel -> BOOLEAN]
  /\ conn \in [Conn -> [tun : Tunnel \cup {Nil}, pc : {"none", "accepted"} \cup Counted]]
  /\ closer \in [Closer -> [tun : Tunnel \cup {Nil}, todo : SUBSET Tunnel]]
  /\ running \in BOOLEAN

TunnelInit ==
  /\ used = {}
  /\ foreign = {}
  /\ tunnels = {}
  /\ pc = [t \in Tunnel |-> "unused"]
  /\ port = [t \in Tunnel |-> Nil]
  /\ idle = [t \in Tunnel |-> FALSE]
  /\ conn = [c \in Conn |-> NoConn]
  /\ closer = [k \in Closer |-> CloserIdle]
  /\ running = TRUE

\* A tunnel holds its listening socket from net.Listen to listener.Close().
Listening(t) == pc[t] \in {"register", "open", "unmapped"}

\* t.activeConns, which accept and handleConn keep equal to the WaitGroup count.
ActiveConns(t) == {c \in Conn : conn[c].tun = t /\ conn[c].pc \in Counted}

\* canBind: nobody, the poller included, listens there.
CanBind(p) == p \notin foreign /\ \A t \in Tunnel : Listening(t) => port[t] # p

-----------------------------------------------------------------------------
(* OpenTunnel                                                              *)

Opening == \E t \in Tunnel : pc[t] \in {"listen", "register"}

\* PortPool.Allocate takes the lowest port that is free and can be bound.
Allocate(t) ==
  /\ running
  /\ pc[t] = "unused"
  /\ ~Opening
  /\ \E p \in Port \ used :
       /\ CanBind(p)
       /\ \A q \in Port \ used : CanBind(q) => p <= q
       /\ used' = used \cup {p}
       /\ port' = [port EXCEPT ![t] = p]
  /\ pc' = [pc EXCEPT ![t] = "listen"]
  /\ UNCHANGED <<foreign, tunnels, idle, conn, closer, running>>

\* portPool.Release(t.LocalPort), after which nobody reads LocalPort.
GiveBack(t) ==
  /\ used' = used \ {port[t]}
  /\ port' = [port EXCEPT ![t] = Nil]

\* net.Listen on the port canBind has just probed; the pool gets it back if
\* another program was faster.
Listen(t) ==
  /\ pc[t] = "listen"
  /\ IF CanBind(port[t])
     THEN /\ pc' = [pc EXCEPT ![t] = "register"]
          /\ UNCHANGED <<used, port>>
     ELSE /\ pc' = [pc EXCEPT ![t] = "failed"]
          /\ GiveBack(t)
  /\ UNCHANGED <<foreign, tunnels, idle, conn, closer, running>>

\* The map entry, then the accept goroutine.
Register(t) ==
  /\ pc[t] = "register"
  /\ pc' = [pc EXCEPT ![t] = "open"]
  /\ tunnels' = tunnels \cup {t}
  /\ UNCHANGED <<used, foreign, port, idle, conn, closer, running>>

-----------------------------------------------------------------------------
(* accept and handleConn                                                   *)

\* listener.Accept() has returned a connection that is not counted yet.
Accept(t, c) ==
  /\ pc[t] \in {"open", "unmapped"}
  /\ conn[c] = NoConn
  /\ \A b \in Conn : conn[b].tun = t => conn[b].pc # "accepted"
  /\ conn' = [conn EXCEPT ![c] = [tun |-> t, pc |-> "accepted"]]
  /\ UNCHANGED <<used, foreign, tunnels, pc, port, idle, closer, running>>

SetConn(c, v) ==
  /\ conn' = [conn EXCEPT ![c] = v]
  /\ UNCHANGED <<used, foreign, tunnels, pc, port, idle, closer, running>>

\* conns.Add(1), activeConns + 1, go handleConn.
CountConn(c) == conn[c].pc = "accepted" /\ SetConn(c, [conn[c] EXCEPT !.pc = "dial"])

\* net.DialTimeout to the router, which the tunnel's context does not cancel.
Dial(c) ==
  /\ conn[c].pc = "dial"
  /\ SetConn(c, [conn[c] EXCEPT !.pc = "proxy"]) \/ SetConn(c, NoConn)

\* activityReader.Read got bytes.
Activity(c) ==
  /\ conn[c].pc = "proxy" /\ idle[conn[c].tun]
  /\ idle' = [idle EXCEPT ![conn[c].tun] = FALSE]
  /\ UNCHANGED <<used, foreign, tunnels, pc, port, conn, closer, running>>

\* One of the two copies ended.
HangUp(c) == conn[c].pc = "proxy" /\ SetConn(c, NoConn)

\* <-ctx.Done(): Close() has cancelled t.ctx.
Cancelled(c) ==
  /\ conn[c].pc = "proxy"
  /\ pc[conn[c].tun] \in {"wait", "release", "closed"}
  /\ SetConn(c, NoConn)

-----------------------------------------------------------------------------
(* CloseTunnel and its callers                                             *)

\* Mutant: the lookup does not delete, so two callers close one tunnel.
CloseTunnelKeepsEntry(k, t) ==
  IF t \notin tunnels
  THEN /\ closer' = [closer EXCEPT ![k].todo = @ \ {t}]
       /\ UNCHANGED <<tunnels, pc, idle>>
  ELSE /\ pc' = [pc EXCEPT ![t] = "unmapped"]
       /\ idle' = [idle EXCEPT ![t] = FALSE]
       /\ closer' = [closer EXCEPT ![k] = [tun |-> t, todo |-> @.todo \ {t}]]
       /\ UNCHANGED tunnels

\* The m.mu section: the caller that deletes the entry does the rest, for any
\* other the tunnel is "not found".
CloseTunnel(k, t) ==
  IF t \notin tunnels
  THEN /\ closer' = [closer EXCEPT ![k].todo = @ \ {t}]
       /\ UNCHANGED <<tunnels, pc, idle>>
  ELSE /\ tunnels' = tunnels \ {t}
       /\ pc' = [pc EXCEPT ![t] = "unmapped"]
       /\ idle' = [idle EXCEPT ![t] = FALSE]
       /\ closer' = [closer EXCEPT ![k] = [tun |-> t, todo |-> @.todo \ {t}]]

\* handleClose: tunnel.close for a tunnel whose OpenTunnel has answered.
HandleClose(t) ==
  /\ running
  /\ closer["nats"].tun = Nil
  /\ pc[t] \notin {"unused", "listen", "register"}
  /\ CloseTunnel("nats", t)
  /\ UNCHANGED <<used, foreign, port, conn, running>>

\* The next tunnel on the list of the idle loop or of Shutdown.
CloseNext(k, t) ==
  /\ closer[k].tun = Nil
  /\ t \in closer[k].todo
  /\ CloseTunnel(k, t)
  /\ UNCHANGED <<used, foreign, port, conn, running>>

\* Tunnel.Close: listener.Close(), cancel().
CloseListener(k) ==
  /\ closer[k].tun # Nil
  /\ pc[closer[k].tun] = "unmapped"
  /\ pc' = [pc EXCEPT ![closer[k].tun] = "wait"]
  /\ UNCHANGED <<used, foreign, tunnels, port, idle, conn, closer, running>>

\* Mutant: Close() does not wait.
AwaitConnsNot(k) ==
  /\ closer[k].tun # Nil
  /\ pc[closer[k].tun] = "wait"
  /\ pc' = [pc EXCEPT ![closer[k].tun] = "release"]
  /\ UNCHANGED <<used, foreign, tunnels, port, idle, conn, closer, running>>

\* conns.Wait().
AwaitConns(k) ==
  /\ closer[k].tun # Nil
  /\ pc[closer[k].tun] = "wait"
  /\ ActiveConns(closer[k].tun) = {}
  /\ pc' = [pc EXCEPT ![closer[k].tun] = "release"]
  /\ UNCHANGED <<used, foreign, tunnels, port, idle, conn, closer, running>>

\* portPool.Release.
ReleasePort(k) ==
  /\ closer[k].tun # Nil
  /\ pc[closer[k].tun] = "release"
  /\ GiveBack(closer[k].tun)
  /\ pc' = [pc EXCEPT ![closer[k].tun] = "closed"]
  /\ closer' = [closer EXCEPT ![k].tun = Nil]
  /\ UNCHANGED <<foreign, tunnels, idle, conn, running>>

\* Mutant: the test of ActiveConns is inverted.
CleanupIdleInverted ==
  /\ running
  /\ closer["idle"] = CloserIdle
  /\ LET victims == {t \in tunnels : idle[t] /\ ActiveConns(t) # {}}
     IN  victims # {} /\ closer' = [closer EXCEPT !["idle"].todo = victims]
  /\ UNCHANGED <<used, foreign, tunnels, pc, port, idle, conn, running>>

\* cleanupIdle collects its victims under m.mu.
CleanupIdle ==
  /\ running
  /\ closer["idle"] = CloserIdle
  /\ LET victims == {t \in tunnels : idle[t] /\ ActiveConns(t) = {}}
     IN  victims # {} /\ closer' = [closer EXCEPT !["idle"].todo = victims]
  /\ UNCHANGED <<used, foreign, tunnels, pc, port, idle, conn, running>>

\* Shutdown stops the idle loop and collects every tunnel there is.  main runs
\* it after TunnelResponder.Stop: no callback starts any more, but one that is in
\* progress is not waited for.
Shutdown ==
  /\ running
  /\ running' = FALSE
  /\ closer' = [closer EXCEPT !["shutdown"].todo = tunnels]
  /\ UNCHANGED <<used, foreign, tunnels, pc, port, idle, conn>>

-----------------------------------------------------------------------------
(* The environment: the clock, and other programs on the host.             *)

GoIdle(t) ==
  /\ pc[t] = "open" /\ ~idle[t]
  /\ idle' = [idle EXCEPT ![t] = TRUE]
  /\ UNCHANGED <<used, foreign, tunnels, pc, port, conn, closer, running>>

ForeignBinds(p) ==
  /\ IF p \in foreign THEN foreign' = foreign \ {p}
     ELSE CanBind(p) /\ foreign' = foreign \cup {p}
  /\ UNCHANGED <<used, tunnels, pc, port, idle, conn, closer, running>>

\* main returns from Shutdown and the process ends.
MainExits ==
  /\ ~running
  /\ closer["shutdown"] = CloserIdle
  /\ UNCHANGED tunnelVars

Close(k) == CloseListener(k) \/ AwaitConns(k) \/ ReleasePort(k)
            \/ \E t \in Tunnel : CloseNext(k, t)

HandleConn(c) == CountConn(c) \/ Dial(c) \/ Cancelled(c)

TunnelNext ==
  \/ \E t \in Tunnel : Allocate(t) \/ Listen(t) \/ Register(t) \/ HandleClose(t) \/ GoIdle(t)
  \/ \E t \in Tunnel, c \in Conn : Accept(t, c)
  \/ \E c \in Conn : HandleConn(c) \/ Activity(c) \/ HangUp(c)
  \/ \E k \in Closer : Close(k)
  \/ CleanupIdle \/ Shutdown \/ MainExits
  \/ \E p \in Port : ForeignBinds(p)

TunnelSpec == TunnelInit /\ [][TunnelNext]_tunnelVars

\* Every goroutine that can run does; a dial ends within its timeout.  Clients,
\* routers, other programs and the callers of the API owe nothing.
TunnelFairness ==
  /\ \A k \in Closer : WF_tunnelVars(Close(k))
  /\ \A c \in Conn : WF_tunnelVars(HandleConn(c))
  /\ WF_tunnelVars(CleanupIdle)

TunnelFairSpec == TunnelSpec /\ TunnelFairness

-----------------------------------------------------------------------------
\* Port accounting over openings that fail, closings that race each other and
\* reuse: a port is marked used exactly while one tunnel owns it, and never by
\* two.  A second Release of a closed tunnel would free the port of the next.
PortsAccounted ==
  /\ used = {port[t] : t \in {u \in Tunnel : pc[u] \in Owning}}
  /\ \A t, u \in Tunnel : t # u /\ pc[t] \in Owning /\ pc[u] \in Owning => port[t] # port[u]

\* Close() waits for the connections, but accept() may count one more after
\* Wait() has returned: at most one connection outlives its tunnel's port,
\* because accept() handles one at a time and the listener is closed by then.
OneStraggler ==
  \A t \in Tunnel : pc[t] \in {"release", "closed"} => Cardinality(ActiveConns(t)) <= 1

\* An abandoned tunnel (idle, no connection) does not stay open while the
\* manager runs.
IdleReclaimed ==
  \A t \in Tunnel :
    []<>(pc[t] # "open" \/ ~idle[t] \/ ActiveConns(t) # {} \/ ~running)
=============================================================================
