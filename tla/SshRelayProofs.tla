--------------------------- MODULE SshRelayProofs ---------------------------
(***************************************************************************)
(* Single use of tokens, the bound on limit overshoot, the pinning of host *)
(* keys and the reports of sessions' ends, for any number of requests,     *)
(* tokens, users and devices.                                              *)
(***************************************************************************)
EXTENDS SshRelay, FiniteSetTheorems, TLAPS

\* A spent token is gone from Redis; a handler past validateToken has spent one.
TokenLife ==
  /\ \A r \in Request : tok[r] # None => redis[tok[r]] = "gone"
  /\ \A r \in Request : pc[r] \in {"validated", "bridge"} \cup InFlight => tok[r] # None
  /\ \A r \in Request : pc[r] = "new" => tok[r] = None

\* The map holds exactly the sessions that are being bridged.
MapIsBridged == \A r \in Request : r \in sessions <=> pc[r] = "bridge"

\* Registered sessions and the handshakes that may still become one.
Claims == sessions \cup Handshaking

\* What is inductive about the limits: the claims, not only the sessions, stay
\* below each limit plus MaxInFlight.
ClaimsBounded ==
  /\ Cardinality(Claims) <= MaxSessions + MaxInFlight - 1
  /\ \A u \in User : Cardinality(OfUser(Claims, u)) <= MaxPerUser + MaxInFlight - 1
  /\ \A d \in Device : Cardinality(OfDevice(Claims, d)) <= MaxPerDevice + MaxInFlight - 1

RelayInv == TypeOK /\ TokenLife /\ TokenSingleUse /\ MapIsBridged /\ ClaimsBounded

\* The relay starts with no session and no claim.
LEMMA RelayInit == Init => RelayInv
<1> SUFFICES ASSUME Init PROVE RelayInv
  OBVIOUS
<1>1. TypeOK
  BY RelayAssumption DEF Init, TypeOK
<1>2. TokenLife /\ TokenSingleUse /\ MapIsBridged
  BY DEF Init, TokenLife, TokenSingleUse, MapIsBridged, InFlight
<1>3. ClaimsBounded
  <2>1. Claims = {}
    BY DEF Init, Claims, Handshaking, InFlight
  <2>2. \A u \in User : OfUser(Claims, u) = {}
    BY <2>1 DEF OfUser
  <2>3. \A d \in Device : OfDevice(Claims, d) = {}
    BY <2>1 DEF OfDevice
  <2>4. Cardinality({}) = 0
    BY FS_EmptySet
  <2>5. /\ 0 <= MaxSessions + MaxInFlight - 1
        /\ 0 <= MaxPerUser + MaxInFlight - 1
        /\ 0 <= MaxPerDevice + MaxInFlight - 1
    BY RelayAssumption
  <2> QED BY Zenon, <2>1, <2>2, <2>3, <2>4, <2>5 DEF ClaimsBounded
<1> QED BY <1>1, <1>2, <1>3 DEF RelayInv

\* Every step keeps the types.
LEMMA TypeStep == TypeOK /\ TokenLife /\ [Next]_vars => TypeOK'
<1> SUFFICES ASSUME TypeOK, TokenLife, [Next]_vars PROVE TypeOK'
  OBVIOUS
<1> USE DEF InFlight, relayVars, keyVars, auditVars, Goto, ForgetKeys
<1>1. ASSUME NEW k \in Token, IssueToken(k) \/ TokenExpires(k) PROVE TypeOK'
  BY <1>1 DEF IssueToken, TokenExpires, TypeOK
<1>2. ASSUME NEW r \in Request, NEW k \in Token, validateToken(r, k) PROVE TypeOK'
  BY <1>2 DEF validateToken, TypeOK
<1>3. ASSUME NEW r \in Request, Handshake(r) PROVE TypeOK'
  <2>1. CASE checkLimits(r) \/ Refuse(r)
    BY <2>1 DEF checkLimits, Refuse, TypeOK
  <2>2. CASE LookUpDevice(r)
    <3>1. Dev(r) \in Device
      BY <2>2, RelayAssumption DEF LookUpDevice, TokenLife, TypeOK, Dev
    <3> QED BY <2>2, <3>1 DEF LookUpDevice, TypeOK
  <2>3. CASE DialSSH(r)
    <3>1. Dev(r) \in Device
      BY <2>3, RelayAssumption DEF DialSSH, TokenLife, TypeOK, Dev
    <3> QED BY <2>3, <3>1 DEF DialSSH, TypeOK
  <2>4. CASE PinHostKey(r)
    <3>1. pin' \in [Device -> Key \cup {None}]
      BY <2>4 DEF PinHostKey, TypeOK
    <3> QED BY <2>4, <3>1 DEF PinHostKey, TypeOK
  <2>5. CASE Register(r)
    BY <2>5 DEF Register, TypeOK
  <2> QED BY <1>3, <2>1, <2>2, <2>3, <2>4, <2>5 DEF Handshake
<1>4. ASSUME NEW r \in Request, EndSession(r) PROVE TypeOK'
  BY <1>4 DEF EndSession, Unregister, PublishNormal, publishSessionEnd, TypeOK, Event, Reason
<1>5. ASSUME NEW r \in Request, Traffic(r) \/ PumpEnds(r) \/ GoIdle(r) PROVE TypeOK'
  BY <1>5 DEF Traffic, PumpEnds, GoIdle, TypeOK
<1>6. CASE Sweep
  <2>1. CASE cleanupIdle
    BY <2>1 DEF cleanupIdle, TypeOK
  <2>2. CASE SweepPublish
    BY <2>2 DEF SweepPublish, publishSessionEnd, TypeOK, Event, Reason
  <2>3. ASSUME NEW r \in Request, SweepCancel(r) PROVE TypeOK'
    BY <2>3 DEF SweepCancel, TypeOK
  <2> QED BY <1>6, <2>1, <2>2, <2>3 DEF Sweep
<1>7. CASE Shutdown
  BY Zenon, <1>7 DEF Shutdown, TypeOK
<1>8. ASSUME NEW e \in events, on_session_end(e) PROVE TypeOK'
  BY <1>8 DEF on_session_end, TypeOK
<1>9. ASSUME NEW d \in Device, Rekey(d) PROVE TypeOK'
  BY <1>9 DEF Rekey, TypeOK
<1>10. CASE MainExits \/ UNCHANGED vars
  BY <1>10 DEF MainExits, vars, TypeOK
<1> QED BY <1>1, <1>2, <1>3, <1>4, <1>5, <1>6, <1>7, <1>8, <1>9, <1>10 DEF Next

\* A step that leaves the handlers, the tokens and the map alone keeps the rest.
LEMMA Frame ==
  ASSUME RelayInv, UNCHANGED <<redis, pc, tok, sessions>>
  PROVE  TokenLife' /\ TokenSingleUse' /\ MapIsBridged' /\ ClaimsBounded'
BY DEF RelayInv, TokenLife, TokenSingleUse, MapIsBridged, ClaimsBounded, Claims, Handshaking,
       OfUser, OfDevice

\* Every step keeps tokens single-use and the map equal to the bridged sessions.
LEMMA TokenStep ==
  RelayInv /\ [Next]_vars => TokenLife' /\ TokenSingleUse' /\ MapIsBridged'
<1> SUFFICES ASSUME RelayInv, [Next]_vars PROVE TokenLife' /\ TokenSingleUse' /\ MapIsBridged'
  OBVIOUS
<1> USE DEF InFlight, relayVars, keyVars, auditVars, Goto, TokenLife, TokenSingleUse,
            MapIsBridged, TypeOK
<1>0. TypeOK /\ TokenLife /\ TokenSingleUse /\ MapIsBridged
  BY DEF RelayInv
<1>1. ASSUME NEW k \in Token, IssueToken(k) \/ TokenExpires(k)
      PROVE TokenLife' /\ TokenSingleUse' /\ MapIsBridged'
  BY <1>0, <1>1 DEF IssueToken, TokenExpires
<1>2. ASSUME NEW r \in Request, NEW k \in Token, validateToken(r, k)
      PROVE TokenLife' /\ TokenSingleUse' /\ MapIsBridged'
  BY <1>0, <1>2, RelayAssumption DEF validateToken
<1>3. ASSUME NEW r \in Request, Handshake(r)
      PROVE TokenLife' /\ TokenSingleUse' /\ MapIsBridged'
  <2>1. UNCHANGED <<redis, tok>> /\ pc[r] \in {"validated"} \cup InFlight
    BY <1>3 DEF Handshake, checkLimits, Refuse, LookUpDevice, DialSSH, PinHostKey, Register
  <2>2. CASE Register(r)
    BY <1>0, <2>1, <2>2 DEF Register
  <2>3. CASE ~Register(r)
    <3>1. sessions' = sessions /\ \E l \in InFlight \cup {"refused"} : pc' = [pc EXCEPT ![r] = l]
      BY <1>3, <2>3 DEF Handshake, checkLimits, Refuse, LookUpDevice, DialSSH, PinHostKey
    <3> QED BY <1>0, <2>1, <3>1
  <2> QED BY <2>2, <2>3
<1>4. ASSUME NEW r \in Request, EndSession(r)
      PROVE TokenLife' /\ TokenSingleUse' /\ MapIsBridged'
  BY <1>0, <1>4 DEF EndSession, Unregister, PublishNormal
<1>5. CASE UNCHANGED <<redis, pc, tok, sessions>>
  BY <1>5, Frame
<1>6. ASSUME NEW r \in Request, Traffic(r) \/ PumpEnds(r) \/ GoIdle(r)
      PROVE UNCHANGED <<redis, pc, tok, sessions>>
  BY <1>6 DEF Traffic, PumpEnds, GoIdle
<1>7. ASSUME Sweep \/ Shutdown \/ MainExits \/ UNCHANGED vars
      PROVE UNCHANGED <<redis, pc, tok, sessions>>
  BY <1>7 DEF Sweep, cleanupIdle, SweepCancel, SweepPublish, Shutdown, MainExits, vars
<1>8. ASSUME NEW e \in events, on_session_end(e) PROVE UNCHANGED <<redis, pc, tok, sessions>>
  BY <1>8 DEF on_session_end
<1>9. ASSUME NEW d \in Device, Rekey(d) PROVE UNCHANGED <<redis, pc, tok, sessions>>
  BY <1>9 DEF Rekey
<1> QED BY <1>1, <1>2, <1>3, <1>4, <1>5, <1>6, <1>7, <1>8, <1>9 DEF Next

\* Fewer claims of the same users and devices keep the bounds.
LEMMA ClaimsShrink ==
  ASSUME RelayInv, Claims' \subseteq Claims, \A r \in Claims : tok'[r] = tok[r]
  PROVE  ClaimsBounded'
<1>1. IsFiniteSet(Claims) /\ Claims \subseteq Request
  BY RelayAssumption, FS_Subset DEF RelayInv, TypeOK, Claims, Handshaking
<1>2. Cardinality(Claims') <= Cardinality(Claims) /\ Cardinality(Claims') \in Nat
      /\ Cardinality(Claims) \in Nat
  BY <1>1, FS_Subset, FS_CardinalityType
<1>3. ASSUME NEW u \in User
      PROVE /\ Cardinality(OfUser(Claims, u)') <= Cardinality(OfUser(Claims, u))
            /\ Cardinality(OfUser(Claims, u)) \in Nat
            /\ Cardinality(OfUser(Claims, u)') \in Nat
  <2>1. OfUser(Claims, u)' \subseteq OfUser(Claims, u) /\ IsFiniteSet(OfUser(Claims, u))
    BY <1>1, FS_Subset DEF OfUser
  <2> QED BY <2>1, FS_Subset, FS_CardinalityType
<1>4. ASSUME NEW d \in Device
      PROVE /\ Cardinality(OfDevice(Claims, d)') <= Cardinality(OfDevice(Claims, d))
            /\ Cardinality(OfDevice(Claims, d)) \in Nat
            /\ Cardinality(OfDevice(Claims, d)') \in Nat
  <2>1. OfDevice(Claims, d)' \subseteq OfDevice(Claims, d) /\ IsFiniteSet(OfDevice(Claims, d))
    BY <1>1, FS_Subset DEF OfDevice
  <2> QED BY <2>1, FS_Subset, FS_CardinalityType
<1> QED BY <1>2, <1>3, <1>4, RelayAssumption DEF ClaimsBounded, RelayInv

\* Counting: a set within A, B and one more element, where A is below a limit m
\* and B below a bound k.
LEMMA OneMore ==
  ASSUME NEW A, NEW B, NEW C, NEW r, NEW m \in Nat \ {0}, NEW k \in Nat \ {0},
         IsFiniteSet(A), IsFiniteSet(B), Cardinality(A) < m, Cardinality(B) < k,
         C \subseteq A \cup B \cup {r}
  PROVE  Cardinality(C) <= m + k - 1
<1>1. IsFiniteSet(A \cup B) /\ Cardinality(A \cup B) <= Cardinality(A) + Cardinality(B)
  <2>1. IsFiniteSet(A \cap B)
    BY FS_Intersection
  <2>2. /\ IsFiniteSet(A \cup B)
        /\ Cardinality(A \cup B) = Cardinality(A) + Cardinality(B) - Cardinality(A \cap B)
    BY FS_Union
  <2>3. Cardinality(A) \in Nat /\ Cardinality(B) \in Nat /\ Cardinality(A \cap B) \in Nat
    BY <2>1, FS_CardinalityType
  <2> QED BY <2>2, <2>3
<1>2. /\ IsFiniteSet(A \cup B \cup {r})
      /\ Cardinality(A \cup B \cup {r}) <= Cardinality(A \cup B) + 1
  <2>1. Cardinality(A \cup B) \in Nat
    BY <1>1, FS_CardinalityType
  <2>2. \/ Cardinality((A \cup B) \cup {r}) = Cardinality(A \cup B)
        \/ Cardinality((A \cup B) \cup {r}) = Cardinality(A \cup B) + 1
    BY <1>1, FS_AddElement
  <2>3. IsFiniteSet((A \cup B) \cup {r})
    BY Zenon, <1>1, FS_AddElement
  <2> QED BY <2>1, <2>2, <2>3
<1>3. Cardinality(C) <= Cardinality(A \cup B \cup {r}) /\ Cardinality(C) \in Nat
  BY <1>2, FS_Subset, FS_CardinalityType
<1>4. Cardinality(A) \in Nat /\ Cardinality(B) \in Nat /\ Cardinality(A \cup B) \in Nat
      /\ Cardinality(A \cup B \cup {r}) \in Nat
  BY <1>1, <1>2, FS_CardinalityType
<1> QED BY <1>1, <1>2, <1>3, <1>4

\* Admission adds one claim, at a moment when the sessions are below the limits
\* and fewer than MaxInFlight handshakes are in progress.
LEMMA AdmitStep ==
  ASSUME RelayInv, NEW r \in Request, checkLimits(r), WithinLimits(r)
  PROVE  ClaimsBounded'
<1> USE DEF RelayInv, TypeOK
<1>1. /\ pc[r] = "validated" /\ Cardinality(Handshaking) < MaxInFlight
      /\ pc' = [pc EXCEPT ![r] = "admitted"] /\ tok' = tok /\ sessions' = sessions
  BY DEF checkLimits, Goto, relayVars
<1>2. IsFiniteSet(sessions) /\ IsFiniteSet(Handshaking)
  BY RelayAssumption, FS_Subset DEF Handshaking
<1>3. Claims' \subseteq Claims \cup {r}
  BY <1>1 DEF Claims, Handshaking, InFlight
<1>4. Cardinality(Claims') <= MaxSessions + MaxInFlight - 1
  <2>1. Cardinality(sessions) < MaxSessions
    BY DEF WithinLimits
  <2> QED BY Zenon, <1>1, <1>2, <1>3, <2>1, OneMore, RelayAssumption DEF Claims
<1>5. ASSUME NEW u \in User
      PROVE  Cardinality(OfUser(Claims, u)') <= MaxPerUser + MaxInFlight - 1
  <2>1. CASE u = UserOf[tok[r]]
    <3>1. Cardinality(OfUser(sessions, u)) < MaxPerUser
      BY <2>1 DEF WithinLimits
    <3>2. IsFiniteSet(OfUser(sessions, u))
      BY <1>2, FS_Subset DEF OfUser
    <3>3. OfUser(Claims, u)' \subseteq OfUser(sessions, u) \cup Handshaking \cup {r}
      BY <1>1, <1>3 DEF OfUser, Claims
    <3> QED BY Zenon, <1>1, <1>2, <3>1, <3>2, <3>3, OneMore, RelayAssumption
  <2>2. CASE u # UserOf[tok[r]]
    <3>1. OfUser(Claims, u)' = OfUser(Claims, u)
      BY <1>1, <2>2 DEF OfUser, Claims, Handshaking, InFlight
    <3> QED BY <3>1 DEF ClaimsBounded
  <2> QED BY <2>1, <2>2
<1>6. ASSUME NEW d \in Device
      PROVE  Cardinality(OfDevice(Claims, d)') <= MaxPerDevice + MaxInFlight - 1
  <2>1. CASE d = DeviceOf[tok[r]]
    <3>1. Cardinality(OfDevice(sessions, d)) < MaxPerDevice
      BY <2>1 DEF WithinLimits
    <3>2. IsFiniteSet(OfDevice(sessions, d))
      BY <1>2, FS_Subset DEF OfDevice
    <3>3. OfDevice(Claims, d)' \subseteq OfDevice(sessions, d) \cup Handshaking \cup {r}
      BY <1>1, <1>3 DEF OfDevice, Claims
    <3> QED BY Zenon, <1>1, <1>2, <3>1, <3>2, <3>3, OneMore, RelayAssumption
  <2>2. CASE d # DeviceOf[tok[r]]
    <3>1. OfDevice(Claims, d)' = OfDevice(Claims, d)
      BY <1>1, <2>2 DEF OfDevice, Claims, Handshaking, InFlight
    <3> QED BY <3>1 DEF ClaimsBounded
  <2> QED BY <2>1, <2>2
<1> QED BY <1>4, <1>5, <1>6 DEF ClaimsBounded

\* Every other step leaves the claims as they are or takes one away.
LEMMA ClaimsStep == RelayInv /\ [Next]_vars => ClaimsBounded'
<1> SUFFICES ASSUME RelayInv, [Next]_vars PROVE ClaimsBounded'
  OBVIOUS
<1> USE DEF InFlight, relayVars, keyVars, auditVars, Goto, Claims, Handshaking
<1>0. TypeOK /\ TokenLife /\ MapIsBridged
  BY DEF RelayInv
<1>1. ASSUME NEW k \in Token, IssueToken(k) \/ TokenExpires(k) PROVE ClaimsBounded'
  BY <1>1, ClaimsShrink DEF IssueToken, TokenExpires
<1>2. ASSUME NEW r \in Request, NEW k \in Token, validateToken(r, k) PROVE ClaimsBounded'
  <2>1. r \notin Claims /\ Claims' \subseteq Claims
    BY <1>0, <1>2 DEF validateToken, MapIsBridged, TypeOK
  <2>2. \A q \in Claims : tok'[q] = tok[q]
    BY <1>0, <1>2, <2>1 DEF validateToken, TypeOK
  <2> QED BY <2>1, <2>2, ClaimsShrink
<1>3. ASSUME NEW r \in Request, Handshake(r) PROVE ClaimsBounded'
  <2>1. CASE checkLimits(r) /\ WithinLimits(r)
    BY <2>1, AdmitStep
  <2>2. CASE ~(checkLimits(r) /\ WithinLimits(r))
    <3>1. Claims' \subseteq Claims /\ tok' = tok
      BY <1>0, <1>3, <2>2 DEF Handshake, checkLimits, Refuse, LookUpDevice, DialSSH, PinHostKey,
                              Register, TypeOK
    <3>2. \A q \in Claims : tok'[q] = tok[q]
      BY <3>1
    <3> QED BY <3>1, <3>2, ClaimsShrink
  <2> QED BY <2>1, <2>2
<1>4. ASSUME NEW r \in Request, EndSession(r) PROVE ClaimsBounded'
  <2>1. Claims' \subseteq Claims /\ tok' = tok
    BY <1>0, <1>4 DEF EndSession, Unregister, PublishNormal, TypeOK
  <2>2. \A q \in Claims : tok'[q] = tok[q]
    BY <2>1
  <2> QED BY <2>1, <2>2, ClaimsShrink
<1>5. CASE UNCHANGED <<redis, pc, tok, sessions>>
  BY <1>5, Frame
<1>6. ASSUME NEW r \in Request, Traffic(r) \/ PumpEnds(r) \/ GoIdle(r)
      PROVE UNCHANGED <<redis, pc, tok, sessions>>
  BY <1>6 DEF Traffic, PumpEnds, GoIdle
<1>7. ASSUME Sweep \/ Shutdown \/ MainExits \/ UNCHANGED vars
      PROVE UNCHANGED <<redis, pc, tok, sessions>>
  BY <1>7 DEF Sweep, cleanupIdle, SweepCancel, SweepPublish, Shutdown, MainExits, vars
<1>8. ASSUME NEW e \in events, on_session_end(e) PROVE UNCHANGED <<redis, pc, tok, sessions>>
  BY <1>8 DEF on_session_end
<1>9. ASSUME NEW d \in Device, Rekey(d) PROVE UNCHANGED <<redis, pc, tok, sessions>>
  BY <1>9 DEF Rekey
<1> QED BY <1>1, <1>2, <1>3, <1>4, <1>5, <1>6, <1>7, <1>8, <1>9 DEF Next

\* The inductive invariant of the relay.
THEOREM RelayInvariant == Spec => []RelayInv
<1>1. RelayInv /\ [Next]_vars => RelayInv'
  BY TypeStep, TokenStep, ClaimsStep DEF RelayInv
<1> QED BY RelayInit, <1>1, PTL DEF Spec

\* No token lets two requests in, however many present it at once.
THEOREM TokensSingleUse == Spec => []TokenSingleUse
<1>1. RelayInv => TokenSingleUse
  BY DEF RelayInv
<1> QED BY RelayInvariant, <1>1, PTL

\* With at most MaxInFlight handshakes at a time, no limit is overshot by more
\* than MaxInFlight - 1; serialised handshakes would keep the limits.
THEOREM OvershootBounded == Spec => []LimitOvershoot
<1>1. ASSUME RelayInv PROVE LimitOvershoot
  <2> USE <1>1 DEF RelayInv, TypeOK
  <2>1. IsFiniteSet(Claims) /\ sessions \subseteq Claims
    BY RelayAssumption, FS_Subset DEF Claims, Handshaking
  <2>2. ASSUME NEW S, S \subseteq Claims PROVE IsFiniteSet(S)
    BY <2>1, <2>2, FS_Subset
  <2>3. Cardinality(sessions) <= MaxSessions + MaxInFlight - 1
    <3>1. Cardinality(sessions) <= Cardinality(Claims)
          /\ Cardinality(sessions) \in Nat /\ Cardinality(Claims) \in Nat
      BY <2>1, <2>2, FS_Subset, FS_CardinalityType
    <3> QED BY <3>1, RelayAssumption DEF ClaimsBounded
  <2>4. ASSUME NEW u \in User
        PROVE  Cardinality(OfUser(sessions, u)) <= MaxPerUser + MaxInFlight - 1
    <3>1. OfUser(sessions, u) \subseteq OfUser(Claims, u) /\ IsFiniteSet(OfUser(Claims, u))
      BY <2>1, <2>2 DEF OfUser
    <3>2. Cardinality(OfUser(sessions, u)) <= Cardinality(OfUser(Claims, u))
          /\ Cardinality(OfUser(sessions, u)) \in Nat /\ Cardinality(OfUser(Claims, u)) \in Nat
      BY <3>1, FS_Subset, FS_CardinalityType
    <3> QED BY <3>2, RelayAssumption DEF ClaimsBounded
  <2>5. ASSUME NEW d \in Device
        PROVE  Cardinality(OfDevice(sessions, d)) <= MaxPerDevice + MaxInFlight - 1
    <3>1. OfDevice(sessions, d) \subseteq OfDevice(Claims, d) /\ IsFiniteSet(OfDevice(Claims, d))
      BY <2>1, <2>2 DEF OfDevice
    <3>2. Cardinality(OfDevice(sessions, d)) <= Cardinality(OfDevice(Claims, d))
          /\ Cardinality(OfDevice(sessions, d)) \in Nat
          /\ Cardinality(OfDevice(Claims, d)) \in Nat
      BY <3>1, FS_Subset, FS_CardinalityType
    <3> QED BY <3>2, RelayAssumption DEF ClaimsBounded
  <2> QED BY <2>3, <2>4, <2>5 DEF LimitOvershoot
<1> QED BY RelayInvariant, <1>1, PTL

\* A stored host key fingerprint is never replaced by the relay.
THEOREM PinsWrittenOnce == Spec => PinWrittenOnce
<1>1. ASSUME TypeOK, TokenLife, [Next]_vars
      PROVE  \A d \in Device : pin[d] # None => pin'[d] = pin[d]
  <2> USE DEF relayVars, keyVars, auditVars
  <2>1. ASSUME NEW r \in Request, PinHostKey(r)
        PROVE  \A d \in Device : pin[d] # None => pin'[d] = pin[d]
    <3>1. pin' = pin \/ (pin[Dev(r)] = None /\ pin' = [pin EXCEPT ![Dev(r)] = seen[r]])
      BY <2>1 DEF PinHostKey
    <3> QED BY <1>1, <3>1 DEF TypeOK
  <2>2. CASE ~(\E r \in Request : PinHostKey(r))
    <3>1. pin' = pin
      BY <1>1, <2>2 DEF Next, vars, IssueToken, TokenExpires, validateToken, Handshake, checkLimits,
         LookUpDevice, DialSSH, Register, Refuse, EndSession, Unregister, PublishNormal, Traffic,
         PumpEnds, GoIdle, Sweep, cleanupIdle, SweepCancel, SweepPublish, Shutdown, MainExits,
         on_session_end, Rekey
    <3> QED BY SMTT(30), <3>1
  <2> QED BY <2>1, <2>2
<1>2. RelayInv => TypeOK /\ TokenLife
  BY DEF RelayInv
<1> QED BY RelayInvariant, <1>1, <1>2, PTL DEF Spec, PinWrittenOnce

-----------------------------------------------------------------------------
Over == {"ended", "done"}

\* Whoever reports an end has seen the context cancelled, and it stays so.
CancelledFirst ==
  /\ sweep.cur # None => sweep.cur \in cancelled
  /\ \A r \in Request : pc[r] \in Over => r \in cancelled
  /\ \A e \in events \cup audit : e[1] \in cancelled /\ (e[2] = "normal" => pc[e[1]] = "done")

\* A step that reports nothing, ends no handler and leaves the sweep's pick alone
\* keeps it; it may cancel.
LEMMA NoReport ==
  ASSUME CancelledFirst, cancelled \subseteq cancelled', sweep'.cur = sweep.cur,
         events' \cup audit' \subseteq events \cup audit,
         \A r \in Request : pc'[r] \in Over => pc[r] \in Over,
         \A e \in events \cup audit : pc[e[1]] = "done" => pc'[e[1]] = "done"
  PROVE  CancelledFirst'
BY DEF CancelledFirst

\* Every step keeps it: the sweep cancels before it reports, the handler waits
\* for ctx.Done() before it unregisters.
LEMMA ReportStep == TypeOK /\ CancelledFirst /\ [Next]_vars => CancelledFirst'
<1> SUFFICES ASSUME TypeOK, CancelledFirst, [Next]_vars PROVE CancelledFirst'
  OBVIOUS
<1> USE DEF relayVars, keyVars, auditVars, Goto
<1>e. \A e \in events \cup audit : e[1] \in Request
  BY DEF TypeOK, Event
<1>1. ASSUME UNCHANGED <<pc, sweep, events, audit>>, cancelled \subseteq cancelled'
      PROVE  CancelledFirst'
  BY <1>1, NoReport
<1>2. ASSUME NEW r \in Request, UNCHANGED <<sweep, cancelled, events, audit>>,
             pc[r] \notin Over, NEW l, pc' = [pc EXCEPT ![r] = l], l \notin Over
      PROVE  CancelledFirst'
  <2>1. /\ \A q \in Request : pc'[q] \in Over => pc[q] \in Over
        /\ \A q \in Request : pc[q] = "done" => pc'[q] = "done"
    BY <1>2 DEF TypeOK, Over
  <2> QED BY <1>2, <1>e, <2>1, NoReport
<1>3. ASSUME NEW k \in Token, IssueToken(k) \/ TokenExpires(k) PROVE CancelledFirst'
  BY <1>1, <1>3 DEF IssueToken, TokenExpires
<1>4. ASSUME NEW r \in Request, NEW k \in Token, validateToken(r, k) PROVE CancelledFirst'
  BY <1>2, <1>4 DEF validateToken, Over
<1>5. ASSUME NEW r \in Request, Handshake(r) PROVE CancelledFirst'
  BY <1>2, <1>5 DEF Handshake, checkLimits, LookUpDevice, DialSSH, PinHostKey, Register, Refuse,
                    InFlight, Over
<1>6. ASSUME NEW r \in Request, Unregister(r) PROVE CancelledFirst'
  <2>1. /\ r \in cancelled /\ UNCHANGED <<cancelled, sweep, events, audit>>
        /\ \A q \in Request : pc'[q] \in Over => pc[q] \in Over \/ q = r
        /\ \A q \in Request : pc[q] = "done" => pc'[q] = "done"
    BY <1>6 DEF Unregister, TypeOK, Over
  <2> QED BY <1>e, <2>1 DEF CancelledFirst
<1>7. ASSUME NEW r \in Request, PublishNormal(r) PROVE CancelledFirst'
  <2>1. /\ pc[r] \in Over /\ pc'[r] = "done" /\ UNCHANGED <<cancelled, sweep, audit>>
        /\ events' \subseteq events \cup {<<r, "normal">>}
        /\ \A q \in Request : q # r => pc'[q] = pc[q]
    BY <1>7 DEF PublishNormal, publishSessionEnd, TypeOK, Over
  <2>2. r \in cancelled
    BY <2>1 DEF CancelledFirst
  <2>3. \A e \in events' \cup audit' : e[1] \in cancelled /\ (e[2] = "normal" => pc'[e[1]] = "done")
    BY <1>e, <2>1, <2>2 DEF CancelledFirst
  <2> QED BY <2>1, <2>2, <2>3 DEF CancelledFirst, Over
<1>8. ASSUME NEW r \in Request, Traffic(r) \/ PumpEnds(r) \/ GoIdle(r) PROVE CancelledFirst'
  BY <1>1, <1>8 DEF Traffic, PumpEnds, GoIdle
<1>9. CASE cleanupIdle
  BY <1>9 DEF cleanupIdle, CancelledFirst
<1>10. ASSUME NEW r \in Request, SweepCancel(r) PROVE CancelledFirst'
  BY <1>10 DEF SweepCancel, CancelledFirst
<1>11. CASE SweepPublish
  <2>1. /\ sweep.cur \in cancelled /\ UNCHANGED <<cancelled, pc, audit>> /\ sweep'.cur = None
        /\ events' \subseteq events \cup {<<sweep.cur, "idle_timeout">>}
    BY <1>11 DEF SweepPublish, publishSessionEnd, CancelledFirst, TypeOK
  <2> QED BY <2>1 DEF CancelledFirst
<1>12. CASE Shutdown
  BY <1>1, <1>12 DEF Shutdown
<1>13. ASSUME NEW e \in events, on_session_end(e) PROVE CancelledFirst'
  <2>1. events' \cup audit' \subseteq events \cup audit /\ UNCHANGED <<pc, sweep, cancelled>>
    BY <1>13 DEF on_session_end
  <2> QED BY <2>1, NoReport
<1>14. ASSUME NEW d \in Device, Rekey(d) PROVE CancelledFirst'
  BY <1>1, <1>14 DEF Rekey
<1>15. CASE MainExits \/ UNCHANGED vars
  BY <1>1, <1>15 DEF MainExits, vars
<1> QED BY <1>3, <1>4, <1>5, <1>6, <1>7, <1>8, <1>9, <1>10, <1>11, <1>12, <1>13, <1>14, <1>15
        DEF Next, EndSession, Sweep

\* No end is published, or recorded in the audit log, of a session that goes on.
THEOREM NoEndIsEarly == Spec => []NoEarlyEnd
<1>1. Init => CancelledFirst
  BY DEF Init, CancelledFirst, Over
<1>2. RelayInv /\ CancelledFirst => NoEarlyEnd
  BY DEF RelayInv, TypeOK, Event, MapIsBridged, CancelledFirst, NoEarlyEnd
<1>3. RelayInv => TypeOK
  BY DEF RelayInv
<1> QED BY RelayInvariant, ReportStep, <1>1, <1>2, <1>3, PTL DEF Spec
=============================================================================
