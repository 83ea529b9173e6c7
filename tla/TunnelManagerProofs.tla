------------------------ MODULE TunnelManagerProofs -------------------------
(***************************************************************************)
(* Port accounting of the tunnel manager and the end of its connections,   *)
(* for any number of tunnels, ports and connections.                       *)
(***************************************************************************)
EXTENDS TunnelManager, FiniteSetTheorems, TLAPS

Closing == {"unmapped", "wait", "release"}

\* The map holds exactly the open tunnels, and each tunnel being closed is in
\* the hands of exactly one caller of CloseTunnel.
Ownership ==
  /\ \A t \in Tunnel : t \in tunnels <=> pc[t] = "open"
  /\ \A t \in Tunnel : pc[t] \in Owning => port[t] \in Port
  /\ \A k \in Closer : closer[k].tun # Nil => pc[closer[k].tun] \in Closing
  /\ \A k, j \in Closer : closer[k].tun # Nil /\ closer[k].tun = closer[j].tun => k = j

PortInv == TunnelTypes /\ Ownership /\ PortsAccounted

\* Initially no tunnel owns a port.
LEMMA PortInvInit == TunnelInit => PortInv
<1> SUFFICES ASSUME TunnelInit PROVE PortInv
  OBVIOUS
<1>1. TunnelTypes
  BY DEF TunnelInit, TunnelTypes, CloserIdle, NoConn
<1>2. Ownership
  BY DEF TunnelInit, Ownership, CloserIdle, Owning
<1>3. PortsAccounted
  BY DEF TunnelInit, PortsAccounted, Owning
<1> QED BY <1>1, <1>2, <1>3 DEF PortInv

\* Every step keeps the types.
LEMMA TypeStep == TunnelTypes /\ [TunnelNext]_tunnelVars => TunnelTypes'
<1> SUFFICES ASSUME TunnelTypes, [TunnelNext]_tunnelVars PROVE TunnelTypes'
  OBVIOUS
<1> USE DEF Owning, Counted, NoConn
<1>1. ASSUME NEW t \in Tunnel, Allocate(t) \/ Listen(t) \/ Register(t) \/ GoIdle(t)
      PROVE TunnelTypes'
  <2>1. CASE Allocate(t)
    BY <2>1 DEF Allocate, TunnelTypes
  <2>2. CASE Listen(t) \/ Register(t)
    BY <2>2 DEF Listen, GiveBack, Register, TunnelTypes
  <2>3. CASE GoIdle(t)
    BY <2>3 DEF GoIdle, TunnelTypes
  <2> QED BY <1>1, <2>1, <2>2, <2>3
<1>2. ASSUME NEW t \in Tunnel, NEW k \in Closer, CloseTunnel(k, t)
      PROVE /\ tunnels' \subseteq Tunnel
            /\ pc' \in [Tunnel -> {"unused", "closed", "failed"} \cup Owning]
            /\ idle' \in [Tunnel -> BOOLEAN]
            /\ closer' \in [Closer -> [tun : Tunnel \cup {Nil}, todo : SUBSET Tunnel]]
  <2>1. idle' \in [Tunnel -> BOOLEAN]
    BY Zenon, <1>2 DEF CloseTunnel, TunnelTypes
  <2> QED BY <1>2, <2>1 DEF CloseTunnel, TunnelTypes
<1>3. ASSUME NEW t \in Tunnel, HandleClose(t) PROVE TunnelTypes'
  <2>1. "nats" \in Closer
    BY DEF Closer
  <2> QED BY <1>2, <1>3, <2>1 DEF HandleClose, TunnelTypes
<1>4. ASSUME NEW t \in Tunnel, NEW c \in Conn, Accept(t, c) PROVE TunnelTypes'
  BY <1>4 DEF Accept, TunnelTypes
<1>5. ASSUME NEW c \in Conn, HandleConn(c) \/ HangUp(c) PROVE TunnelTypes'
  BY <1>5 DEF HandleConn, CountConn, Dial, Cancelled, HangUp, SetConn, TunnelTypes
<1>6. ASSUME NEW c \in Conn, Activity(c) PROVE TunnelTypes'
  BY Zenon, <1>6 DEF Activity, TunnelTypes
<1>7. ASSUME NEW k \in Closer, Close(k) PROVE TunnelTypes'
  <2>1. CASE CloseListener(k) \/ AwaitConns(k)
    BY <2>1 DEF CloseListener, AwaitConns, TunnelTypes
  <2>2. CASE ReleasePort(k)
    BY <2>2 DEF ReleasePort, GiveBack, TunnelTypes
  <2>3. ASSUME NEW t \in Tunnel, CloseNext(k, t) PROVE TunnelTypes'
    BY <1>2, <2>3 DEF CloseNext, TunnelTypes
  <2> QED BY <1>7, <2>1, <2>2, <2>3 DEF Close
<1>8. CASE CleanupIdle
  BY ZenonT(30), <1>8 DEF CleanupIdle, TunnelTypes
<1>9. CASE Shutdown
  BY ZenonT(30), <1>9 DEF Shutdown, TunnelTypes
<1>10. ASSUME NEW p \in Port, ForeignBinds(p) PROVE TunnelTypes'
  BY <1>10 DEF ForeignBinds, TunnelTypes
<1>11. CASE MainExits \/ UNCHANGED tunnelVars
  BY <1>11 DEF MainExits, tunnelVars, TunnelTypes
<1> QED BY <1>1, <1>3, <1>4, <1>5, <1>6, <1>7, <1>8, <1>9, <1>10, <1>11 DEF TunnelNext

\* Steps that move no tunnel between phases and no port keep the rest.
LEMMA Frame ==
  ASSUME Ownership, PortsAccounted, UNCHANGED <<used, tunnels, pc, port>>,
         \A k \in Closer : closer'[k].tun = closer[k].tun
  PROVE  Ownership' /\ PortsAccounted'
BY DEF Ownership, PortsAccounted

\* A tunnel that changes phase but keeps its port keeps the accounting.
LEMMA AccountFrame ==
  ASSUME PortsAccounted, UNCHANGED <<used, port>>,
         \A t \in Tunnel : pc'[t] \in Owning <=> pc[t] \in Owning
  PROVE  PortsAccounted'
BY DEF PortsAccounted

\* Taking a tunnel out of the map makes the caller its only owner.
LEMMA CloseTunnelStep ==
  ASSUME PortInv, NEW k \in Closer, NEW t \in Tunnel, closer[k].tun = Nil,
         CloseTunnel(k, t), UNCHANGED <<used, port>>
  PROVE  Ownership' /\ PortsAccounted'
<1> USE DEF PortInv
<1>1. CASE t \notin tunnels
  <2>1. \A j \in Closer : closer'[j].tun = closer[j].tun
    BY <1>1 DEF CloseTunnel, TunnelTypes
  <2> QED BY <1>1, <2>1, Frame DEF CloseTunnel
<1>2. CASE t \in tunnels
  <2>1. pc[t] = "open" /\ pc' = [pc EXCEPT ![t] = "unmapped"] /\ tunnels' = tunnels \ {t}
    BY <1>2 DEF CloseTunnel, Ownership
  <2>2. closer'[k].tun = t /\ \A j \in Closer \ {k} : closer'[j].tun = closer[j].tun
    BY <1>2 DEF CloseTunnel, TunnelTypes
  <2>3. \A j \in Closer : closer[j].tun # t
    BY <2>1, TunnelAssumption DEF Ownership, Closing
  <2>4. Ownership'
    BY <2>1, <2>2, <2>3, TunnelAssumption DEF Ownership, Closing, Owning, TunnelTypes
  <2>5. PortsAccounted'
    BY <2>1, AccountFrame DEF TunnelTypes, Owning
  <2> QED BY <2>4, <2>5
<1> QED BY <1>1, <1>2

\* Every step keeps ownership and port accounting.
LEMMA AccountStep == PortInv /\ [TunnelNext]_tunnelVars => Ownership' /\ PortsAccounted'
<1> SUFFICES ASSUME PortInv, [TunnelNext]_tunnelVars PROVE Ownership' /\ PortsAccounted'
  OBVIOUS
<1> USE DEF PortInv
<1>1. ASSUME NEW t \in Tunnel, Allocate(t) PROVE Ownership' /\ PortsAccounted'
  <2>1. PICK p \in Port \ used : used' = used \cup {p} /\ port' = [port EXCEPT ![t] = p]
    BY Zenon, <1>1 DEF Allocate
  <2>2. pc[t] = "unused" /\ pc' = [pc EXCEPT ![t] = "listen"] /\ UNCHANGED <<tunnels, closer>>
    BY <1>1 DEF Allocate
  <2>3. Ownership'
    BY <2>1, <2>2, TunnelAssumption DEF Ownership, Owning, Closing, TunnelTypes
  <2>4. \A u \in Tunnel \ {t} : port'[u] = port[u] /\ (pc'[u] \in Owning <=> pc[u] \in Owning)
    BY <2>1, <2>2 DEF TunnelTypes
  <2>5. pc[t] \notin Owning /\ pc'[t] \in Owning /\ port'[t] = p
    BY <2>1, <2>2 DEF TunnelTypes, Owning
  <2>6. used' = {port'[u] : u \in {v \in Tunnel : pc'[v] \in Owning}}
    BY <2>1, <2>4, <2>5 DEF PortsAccounted
  <2>7. \A u, v \in Tunnel : u # v /\ pc'[u] \in Owning /\ pc'[v] \in Owning => port'[u] # port'[v]
    BY <2>1, <2>4, <2>5 DEF PortsAccounted
  <2> QED BY <2>3, <2>6, <2>7 DEF PortsAccounted
<1>g. ASSUME NEW t \in Tunnel, pc[t] \in Owning, pc'[t] \notin Owning, GiveBack(t),
             \A u \in Tunnel \ {t} : pc'[u] = pc[u]
      PROVE  PortsAccounted'
  <2>1. used' = used \ {port[t]} /\ \A u \in Tunnel \ {t} : port'[u] = port[u]
    BY <1>g DEF GiveBack, TunnelTypes
  <2> QED BY <1>g, <2>1 DEF PortsAccounted
<1>2. ASSUME NEW t \in Tunnel, Listen(t) PROVE Ownership' /\ PortsAccounted'
  <2>1. Ownership'
    BY <1>2, TunnelAssumption DEF Listen, GiveBack, Ownership, Owning, Closing, TunnelTypes
  <2>2. CASE pc' = [pc EXCEPT ![t] = "register"] /\ UNCHANGED <<used, port>>
    BY <1>2, <2>1, <2>2, AccountFrame DEF Listen, TunnelTypes, Owning
  <2>3. CASE pc' = [pc EXCEPT ![t] = "failed"] /\ GiveBack(t)
    <3>1. pc[t] \in Owning /\ pc'[t] \notin Owning /\ \A u \in Tunnel \ {t} : pc'[u] = pc[u]
      BY <1>2, <2>3 DEF Listen, TunnelTypes, Owning
    <3> QED BY <1>2, <1>g, <2>1, <2>3, <3>1 DEF Listen
  <2> QED BY <1>2, <2>2, <2>3 DEF Listen
<1>3. ASSUME NEW t \in Tunnel, Register(t) PROVE Ownership' /\ PortsAccounted'
  <2>1. Ownership'
    BY <1>3, TunnelAssumption DEF Register, Ownership, Owning, Closing, TunnelTypes
  <2>2. PortsAccounted'
    BY <1>3, AccountFrame DEF Register, TunnelTypes, Owning
  <2> QED BY <2>1, <2>2
<1>4. ASSUME NEW t \in Tunnel, HandleClose(t) PROVE Ownership' /\ PortsAccounted'
  BY <1>4, CloseTunnelStep DEF HandleClose, Closer
<1>5. ASSUME NEW k \in Closer, Close(k) PROVE Ownership' /\ PortsAccounted'
  <2>1. ASSUME NEW t \in Tunnel, CloseNext(k, t) PROVE Ownership' /\ PortsAccounted'
    BY <2>1, CloseTunnelStep DEF CloseNext
  <2>2. CASE CloseListener(k) \/ AwaitConns(k)
    <3>1. closer[k].tun \in Tunnel
      BY <2>2 DEF CloseListener, AwaitConns, TunnelTypes
    <3>2. Ownership'
      BY <2>2, <3>1 DEF CloseListener, AwaitConns, Ownership, Owning, Closing, TunnelTypes
    <3>3. PortsAccounted'
      BY <2>2, <3>1, AccountFrame DEF CloseListener, AwaitConns, TunnelTypes, Owning
    <3> QED BY <3>2, <3>3
  <2>3. CASE ReleasePort(k)
    <3> DEFINE t == closer[k].tun
    <3>1. t \in Tunnel /\ pc[t] = "release" /\ t # Nil
      BY <2>3 DEF ReleasePort, TunnelTypes
    <3>2. pc' = [pc EXCEPT ![t] = "closed"] /\ GiveBack(t) /\ UNCHANGED tunnels
      BY <2>3 DEF ReleasePort
    <3>3. closer'[k].tun = Nil /\ \A j \in Closer \ {k} : closer'[j] = closer[j]
      BY <2>3 DEF ReleasePort, TunnelTypes
    <3>4. \A j \in Closer \ {k} : closer[j].tun # t
      BY <3>1 DEF Ownership
    <3>5. Ownership'
      BY <3>1, <3>2, <3>3, <3>4 DEF GiveBack, Ownership, Owning, Closing, TunnelTypes
    <3>6. PortsAccounted'
      BY <1>g, <3>1, <3>2 DEF TunnelTypes, Owning
    <3> QED BY <3>5, <3>6
  <2> QED BY <1>5, <2>1, <2>2, <2>3 DEF Close
<1>6. ASSUME NEW c \in Conn, HandleConn(c) \/ HangUp(c) \/ Activity(c)
      PROVE Ownership' /\ PortsAccounted'
  BY <1>6, Frame DEF HandleConn, CountConn, Dial, Cancelled, HangUp, SetConn, Activity
<1>7. ASSUME NEW t \in Tunnel, NEW c \in Conn, Accept(t, c) PROVE Ownership' /\ PortsAccounted'
  BY <1>7, Frame DEF Accept
<1>8. CASE CleanupIdle \/ Shutdown
  <2>1. \A k \in Closer : closer'[k].tun = closer[k].tun
    BY <1>8 DEF CleanupIdle, Shutdown, TunnelTypes, Closer
  <2> QED BY <1>8, <2>1, Frame DEF CleanupIdle, Shutdown
<1>9. ASSUME NEW t \in Tunnel, GoIdle(t) PROVE Ownership' /\ PortsAccounted'
  BY <1>9, Frame DEF GoIdle
<1>10. ASSUME NEW p \in Port, ForeignBinds(p) PROVE Ownership' /\ PortsAccounted'
  BY <1>10, Frame DEF ForeignBinds
<1>11. CASE MainExits \/ UNCHANGED tunnelVars
  BY <1>11, Frame DEF MainExits, tunnelVars
<1> QED BY <1>1, <1>2, <1>3, <1>4, <1>5, <1>6, <1>7, <1>8, <1>9, <1>10, <1>11 DEF TunnelNext

\* A port is marked used exactly while one tunnel owns it, however openings,
\* failures and the three callers of CloseTunnel interleave.
THEOREM PortAccounting == TunnelSpec => []PortsAccounted
<1>1. PortInv /\ [TunnelNext]_tunnelVars => PortInv'
  BY TypeStep, AccountStep DEF PortInv
<1>2. PortInv => PortsAccounted
  BY DEF PortInv
<1> QED BY <1>1, <1>2, PortInvInit, PTL DEF TunnelSpec

-----------------------------------------------------------------------------
Ended == {"release", "closed"}

\* accept() has one connection of a tunnel in hand at a time; of a tunnel that
\* is past Wait(), that one is all there is.
Stragglers ==
  /\ \A c \in Conn : conn[c].tun # Nil => conn[c].pc \in {"accepted"} \cup Counted
  /\ \A b, c \in Conn :
       conn[b].tun = conn[c].tun /\ conn[b].pc = "accepted" /\ conn[c].pc = "accepted" => b = c
  /\ \A t \in Tunnel : pc[t] \in Ended =>
       \A b, c \in Conn : conn[b].tun = t /\ conn[c].tun = t => b = c

\* No connection appears at a tunnel that has ended, and a tunnel ends with
\* nothing but what accept() has in hand.
LEMMA StragglerStep == TunnelTypes /\ Stragglers /\ [TunnelNext]_tunnelVars => Stragglers'
<1> SUFFICES ASSUME TunnelTypes, Stragglers, [TunnelNext]_tunnelVars PROVE Stragglers'
  OBVIOUS
<1> USE TunnelAssumption
<1>0. ASSUME UNCHANGED conn, \A t \in Tunnel : pc'[t] \in Ended => pc[t] \in Ended PROVE Stragglers'
  BY <1>0 DEF Stragglers
<1>1. ASSUME NEW t \in Tunnel, Allocate(t) \/ Listen(t) \/ Register(t) \/ GoIdle(t) PROVE Stragglers'
  <2>1. \A u \in Tunnel : pc'[u] \in Ended => pc[u] \in Ended
    BY <1>1 DEF Allocate, Listen, Register, GoIdle, TunnelTypes, Ended
  <2> QED BY <1>0, <1>1, <2>1 DEF Allocate, Listen, Register, GoIdle
<1>2. ASSUME NEW t \in Tunnel, NEW k \in Closer, CloseTunnel(k, t), UNCHANGED conn PROVE Stragglers'
  <2>1. \A u \in Tunnel : pc'[u] \in Ended => pc[u] \in Ended
    BY <1>2 DEF CloseTunnel, TunnelTypes, Ended
  <2> QED BY <1>0, <1>2, <2>1
<1>3. ASSUME NEW t \in Tunnel, HandleClose(t) PROVE Stragglers'
  <2>1. "nats" \in Closer
    BY DEF Closer
  <2> QED BY <1>2, <1>3, <2>1 DEF HandleClose
<1>4. ASSUME NEW t \in Tunnel, NEW c \in Conn, Accept(t, c) PROVE Stragglers'
  <2>1. /\ conn'[c].tun = t /\ conn'[c].pc = "accepted"
        /\ \A b \in Conn : b # c => conn'[b] = conn[b]
        /\ pc' = pc /\ pc[t] \notin Ended
    BY <1>4 DEF Accept, TunnelTypes, Ended
  <2>2. \A b \in Conn : conn[b].tun = t => conn[b].pc # "accepted"
    BY <1>4 DEF Accept
  <2> QED BY <2>1, <2>2 DEF Stragglers
<1>5. ASSUME NEW c \in Conn, HandleConn(c) \/ HangUp(c) PROVE Stragglers'
  <2>1. /\ \/ conn'[c].tun = Nil /\ conn'[c].pc = "none"
           \/ conn'[c].tun = conn[c].tun /\ conn'[c].pc \in Counted
        /\ \A b \in Conn : b # c => conn'[b] = conn[b]
        /\ pc' = pc
    BY <1>5 DEF HandleConn, HangUp, CountConn, Dial, Cancelled, SetConn, NoConn, TunnelTypes, Counted
  <2>2. \A b \in Conn : /\ conn'[b].tun # Nil => conn'[b].tun = conn[b].tun
                       /\ conn'[b].pc = "accepted" => b # c
    BY <2>1 DEF Counted
  <2>3. \A b \in Conn : conn'[b].tun # Nil => conn'[b].pc \in {"accepted"} \cup Counted
    BY <2>1 DEF Stragglers
  <2>4. \A a, b \in Conn :
          conn'[a].tun = conn'[b].tun /\ conn'[a].pc = "accepted" /\ conn'[b].pc = "accepted"
            => a = b
    BY <2>1, <2>2 DEF Stragglers
  <2>5. \A t \in Tunnel : pc'[t] \in Ended =>
          \A a, b \in Conn : conn'[a].tun = t /\ conn'[b].tun = t => a = b
    BY <2>1, <2>2 DEF Stragglers
  <2> QED BY <2>3, <2>4, <2>5 DEF Stragglers
<1>6. ASSUME NEW k \in Closer, Close(k) PROVE Stragglers'
  <2>1. CASE CloseListener(k)
    <3>1. \A u \in Tunnel : pc'[u] \in Ended => pc[u] \in Ended
      BY <2>1 DEF CloseListener, TunnelTypes, Ended
    <3> QED BY <1>0, <2>1, <3>1 DEF CloseListener
  <2>2. CASE AwaitConns(k)
    <3> DEFINE t == closer[k].tun
    <3>1. t \in Tunnel /\ conn' = conn /\ \A u \in Tunnel : u # t => pc'[u] = pc[u]
      BY <2>2 DEF AwaitConns, TunnelTypes
    <3>2. \A c \in Conn : conn[c].tun = t => conn[c].pc = "accepted"
      BY <2>2, <3>1 DEF AwaitConns, ActiveConns, Stragglers
    <3> HIDE DEF t
    <3> QED BY <3>1, <3>2 DEF Stragglers
  <2>3. CASE ReleasePort(k)
    <3>1. \A u \in Tunnel : pc'[u] \in Ended => pc[u] \in Ended
      BY <2>3 DEF ReleasePort, TunnelTypes, Ended
    <3> QED BY <1>0, <2>3, <3>1 DEF ReleasePort
  <2>4. ASSUME NEW t \in Tunnel, CloseNext(k, t) PROVE Stragglers'
    BY <1>2, <2>4 DEF CloseNext
  <2> QED BY <1>6, <2>1, <2>2, <2>3, <2>4 DEF Close
<1>7. CASE (\E c \in Conn : Activity(c)) \/ CleanupIdle \/ Shutdown \/ (\E p \in Port : ForeignBinds(p))
           \/ MainExits \/ UNCHANGED tunnelVars
  BY <1>0, <1>7 DEF Activity, CleanupIdle, Shutdown, ForeignBinds, MainExits, tunnelVars
<1> QED BY <1>1, <1>3, <1>4, <1>5, <1>6, <1>7 DEF TunnelNext

\* At most one connection outlives the port of its tunnel, however accept(),
\* Close() and the proxies interleave.
THEOREM AtMostOneStraggler == TunnelSpec => []OneStraggler
<1>1. TunnelInit => TunnelTypes /\ Stragglers
  BY PortInvInit, TunnelAssumption DEF PortInv, TunnelInit, Stragglers, NoConn, Ended
<1>2. TunnelTypes /\ Stragglers => OneStraggler
  <2> SUFFICES ASSUME TunnelTypes, Stragglers, NEW t \in Tunnel, pc[t] \in {"release", "closed"}
               PROVE  Cardinality(ActiveConns(t)) <= 1
    BY DEF OneStraggler
  <2>1. CASE ActiveConns(t) = {}
    BY <2>1, FS_EmptySet
  <2>2. CASE ActiveConns(t) # {}
    <3>1. PICK c : c \in ActiveConns(t)
      BY <2>2
    <3>2. ActiveConns(t) = {c}
      BY <3>1 DEF ActiveConns, Stragglers, Ended
    <3>3. Cardinality({c}) = 1
      BY FS_Singleton
    <3>4. Cardinality(ActiveConns(t)) = 1
      BY <3>2, <3>3, Zenon
    <3> QED BY <3>4
  <2> QED BY <2>1, <2>2
<1>3. TunnelTypes /\ Stragglers /\ [TunnelNext]_tunnelVars => TunnelTypes' /\ Stragglers'
  BY TypeStep, StragglerStep
<1> QED BY <1>1, <1>2, <1>3, PTL DEF TunnelSpec
=============================================================================
