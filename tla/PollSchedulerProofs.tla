------------------------- MODULE PollSchedulerProofs -------------------------
(***************************************************************************)
(* Proofs about module PollScheduler, for any number of replicas, devices  *)
(* and goroutines and any breaker threshold, and about the backoff of      *)
(* module CircuitBreaker, for any bases and maximum of whole seconds.      *)
(*                                                                         *)
(* That two polls of a device never overlap speaks of loops, while the     *)
(* code keeps the promise through Redis.  LockHeld connects the two: a     *)
(* poll whose key has not expired under it still owns the key.             *)
(***************************************************************************)
EXTENDS MCPollScheduler, WellFoundedInduction, TLAPS

LockHeld ==
  \A l \in Loop : pc[l] \in Polling /\ l \notin lost => lock[DevOf[l]] = l

PollInv == TypeOK /\ LockHeld /\ NoStrayLoop

USE SchedulerAssumption

\* Init establishes the invariant: no goroutine runs.
LEMMA PollInit == Init => PollInv
  BY DEF Init, PollInv, TypeOK, LockHeld, NoStrayLoop, Running, Polling

\* A goroutine that returns leaves the state well typed (Forget).
LEMMA ForgetTypes ==
  ASSUME TypeOK, NEW S \in SUBSET Loop, Forget(S)
  PROVE  /\ pc' \in [Loop -> {"unused", "done"} \cup Running]
         /\ fails' \in [Loop -> 0 .. FailureCap]
         /\ backoff' \subseteq {l \in Loop : fails'[l] >= MaxFailures}
         /\ lost' \subseteq Loop
  <1>1. pc' \in [Loop -> {"unused", "done"} \cup Running]
    BY DEF Forget, TypeOK
  <1>2. fails' \in [Loop -> 0 .. FailureCap]
    BY DEF Forget, TypeOK
  <1>3. backoff' \subseteq {l \in Loop : fails'[l] >= MaxFailures}
    BY DEF Forget, TypeOK
  <1>4. QED  BY <1>1, <1>2, <1>3 DEF Forget, TypeOK

\* Every step of every goroutine, of Redis and of the database keeps the types
\* and the circuit breaker's meaning.
LEMMA TypeStep == TypeOK /\ [Next]_vars => TypeOK'
  <1> SUFFICES ASSUME TypeOK, [Next]_vars PROVE TypeOK'
    OBVIOUS
  <1>1. CASE UNCHANGED vars
    BY <1>1 DEF TypeOK, vars, loopVars
  <1>2. ASSUME NEW r \in Replica, reconcileDevices(r) PROVE TypeOK'
    BY <1>2 DEF TypeOK, reconcileDevices, Starts, ActiveIn, Running
  <1>3. ASSUME NEW r \in Replica, Shutdown(r) PROVE TypeOK'
    BY <1>3 DEF TypeOK, Shutdown
  <1>4. ASSUME NEW r \in Replica, Restart(r) PROVE TypeOK'
    <2>1. Forget({l \in Loop : RepOf[l] = r /\ pc[l] \in Running})
      BY <1>4 DEF Restart
    <2>2. QED  BY <1>4, <2>1, ForgetTypes DEF TypeOK, Restart, ActiveIn
  <1>5. ASSUME NEW l \in Loop, Obtain(l) PROVE TypeOK'
    BY <1>5 DEF TypeOK, Obtain, loopVars, Running, Polling
  <1>6. ASSUME NEW l \in Loop, ObtainFails(l) PROVE TypeOK'
    BY <1>6 DEF TypeOK, ObtainFails, loopVars
  <1>7. ASSUME NEW l \in Loop, Collect(l) PROVE TypeOK'
    BY <1>7 DEF TypeOK, Collect, loopVars, Running, Polling
  <1>8. ASSUME NEW l \in Loop, PollEnds(l) PROVE TypeOK'
    <2>1. lock' \in [Device -> Loop \cup {None}]
      BY <1>8 DEF TypeOK, PollEnds, Release
    <2>2. pc' \in [Loop -> {"unused", "done"} \cup Running]
      BY <1>8 DEF TypeOK, PollEnds, Running
    <2>3. CASE pc[l] = "polled"
      <3>1. fails' = [fails EXCEPT ![l] = 0] /\ backoff' = backoff \ {l}
        BY <1>8, <2>3 DEF PollEnds
      <3>2. fails' \in [Loop -> 0 .. FailureCap]
            /\ backoff' \subseteq {m \in Loop : fails'[m] >= MaxFailures}
        BY <3>1 DEF TypeOK
      <3>3. QED  BY <1>8, <2>1, <2>2, <3>2 DEF TypeOK, PollEnds
    <2>4. CASE pc[l] # "polled"
      <3> DEFINE n == IF fails[l] < FailureCap THEN fails[l] + 1 ELSE fails[l]
      <3>1. /\ fails' = [fails EXCEPT ![l] = n]
            /\ backoff' = IF n >= MaxFailures THEN backoff \cup {l} ELSE backoff
        BY <1>8, <2>4 DEF PollEnds
      <3>2. n \in 0 .. FailureCap /\ n >= fails[l]
        BY DEF TypeOK
      <3> HIDE DEF n
      <3>3. fails' \in [Loop -> 0 .. FailureCap]
        BY <3>1, <3>2 DEF TypeOK
      <3>4. \A m \in Loop : fails'[m] = IF m = l THEN n ELSE fails[m]
        BY <3>1 DEF TypeOK
      <3>5. backoff' \subseteq {m \in Loop : fails'[m] >= MaxFailures}
        <4> SUFFICES ASSUME NEW m \in backoff'
                     PROVE  m \in Loop /\ fails'[m] >= MaxFailures
          OBVIOUS
        <4>1. CASE m = l /\ n >= MaxFailures
          BY <4>1, <3>4
        <4>2. CASE m \in backoff
          <5>1. m \in Loop /\ fails[m] >= MaxFailures
            BY <4>2 DEF TypeOK
          <5>2. fails[m] \in Nat /\ n \in Nat
            BY <5>1, <3>2 DEF TypeOK
          <5>3. QED  BY <5>1, <5>2, <3>2, <3>4
        <4>3. QED  BY <3>1, <4>1, <4>2
      <3>6. QED  BY <1>8, <2>1, <2>2, <3>3, <3>5 DEF TypeOK, PollEnds
    <2>5. QED  BY <2>3, <2>4
  <1>9. ASSUME NEW l \in Loop, GiveUp(l) \/ Stop(l) PROVE TypeOK'
    <2>1. Forget({l})
      BY <1>9 DEF GiveUp, Stop
    <2>2. QED  BY <1>9, <2>1, ForgetTypes DEF TypeOK, GiveUp, Stop
  <1>10. ASSUME NEW l \in Loop, BackoffEnds(l) PROVE TypeOK'
    BY <1>10 DEF TypeOK, BackoffEnds
  <1>11. ASSUME NEW d \in Device, RowChanges(d) PROVE TypeOK'
    BY <1>11 DEF TypeOK, RowChanges, loopVars
  <1>12. ASSUME NEW d \in Device, LockExpires(d) PROVE TypeOK'
    BY <1>12 DEF TypeOK, LockExpires, loopVars
  <1>13. QED
    BY <1>1, <1>2, <1>3, <1>4, <1>5, <1>6, <1>7, <1>8, <1>9, <1>10, <1>11, <1>12
       DEF Next, LoopStep

\* What a goroutine may do to the locks: a poll that goes on keeps its key, or is
\* put on record as having lost it.
LEMMA LockStep == TypeOK /\ LockHeld /\ [Next]_vars => LockHeld'
  <1> SUFFICES ASSUME TypeOK, LockHeld, [Next]_vars, NEW k \in Loop,
                      pc'[k] \in Polling, k \notin lost'
               PROVE  lock'[DevOf[k]] = k
    BY DEF LockHeld
  <1> USE DEF TypeOK, LockHeld, Polling
  <1>1. CASE UNCHANGED vars
    BY <1>1 DEF vars, loopVars
  <1>2. ASSUME NEW r \in Replica, reconcileDevices(r) PROVE lock'[DevOf[k]] = k
    BY <1>2 DEF reconcileDevices
  <1>3. ASSUME NEW r \in Replica, Shutdown(r) PROVE lock'[DevOf[k]] = k
    BY <1>3 DEF Shutdown
  <1>4. ASSUME NEW r \in Replica, Restart(r) PROVE lock'[DevOf[k]] = k
    BY <1>4 DEF Restart, Forget, Running
  <1>5. ASSUME NEW l \in Loop, Obtain(l) PROVE lock'[DevOf[k]] = k
    BY <1>5 DEF Obtain, loopVars
  <1>6. ASSUME NEW l \in Loop, ObtainFails(l) PROVE lock'[DevOf[k]] = k
    BY <1>6 DEF ObtainFails, loopVars
  <1>7. ASSUME NEW l \in Loop, Collect(l) PROVE lock'[DevOf[k]] = k
    BY <1>7 DEF Collect
  <1>8. ASSUME NEW l \in Loop, PollEnds(l) PROVE lock'[DevOf[k]] = k
    <2>1. k # l /\ pc[k] \in Polling /\ k \notin lost
      BY <1>8 DEF PollEnds
    <2>2. lock[DevOf[k]] = k
      BY <2>1
    <2>3. QED  BY <1>8, <2>1, <2>2 DEF PollEnds, Release
  <1>9. ASSUME NEW l \in Loop, GiveUp(l) \/ Stop(l) PROVE lock'[DevOf[k]] = k
    BY <1>9 DEF GiveUp, Stop, Forget
  <1>10. ASSUME NEW l \in Loop, BackoffEnds(l) PROVE lock'[DevOf[k]] = k
    BY <1>10 DEF BackoffEnds
  <1>11. ASSUME NEW d \in Device, RowChanges(d) PROVE lock'[DevOf[k]] = k
    BY <1>11 DEF RowChanges
  <1>12. ASSUME NEW d \in Device, LockExpires(d) PROVE lock'[DevOf[k]] = k
    BY <1>12 DEF LockExpires
  <1>13. QED
    BY <1>1, <1>2, <1>3, <1>4, <1>5, <1>6, <1>7, <1>8, <1>9, <1>10, <1>11, <1>12
       DEF Next, LoopStep

\* reconcileDevices and a restart take an entry from the map only together with
\* the goroutine's context; no other step touches the map.
LEMMA StrayStep == TypeOK /\ NoStrayLoop /\ [Next]_vars => NoStrayLoop'
  <1> SUFFICES ASSUME TypeOK, NoStrayLoop, [Next]_vars, NEW k \in Loop,
                      pc'[k] \in Running, k \notin cancelled'
               PROVE  k \in active'
    BY DEF NoStrayLoop
  <1> USE DEF TypeOK, NoStrayLoop, Running, Polling
  <1>1. CASE UNCHANGED vars
    BY <1>1 DEF vars, loopVars
  <1>2. ASSUME NEW r \in Replica, reconcileDevices(r) PROVE k \in active'
    BY <1>2 DEF reconcileDevices
  <1>3. ASSUME NEW r \in Replica, Shutdown(r) PROVE k \in active'
    BY <1>3 DEF Shutdown
  <1>4. ASSUME NEW r \in Replica, Restart(r) PROVE k \in active'
    BY <1>4 DEF Restart, Forget, ActiveIn
  <1>5. ASSUME NEW l \in Loop, Obtain(l) PROVE k \in active'
    BY <1>5 DEF Obtain, CanTick, loopVars
  <1>6. ASSUME NEW l \in Loop, ObtainFails(l) PROVE k \in active'
    BY <1>6 DEF ObtainFails, loopVars
  <1>7. ASSUME NEW l \in Loop, Collect(l) PROVE k \in active'
    BY <1>7 DEF Collect, loopVars
  <1>8. ASSUME NEW l \in Loop, PollEnds(l) PROVE k \in active'
    BY <1>8 DEF PollEnds
  <1>9. ASSUME NEW l \in Loop, GiveUp(l) \/ Stop(l) PROVE k \in active'
    BY <1>9 DEF GiveUp, Stop, Forget
  <1>10. ASSUME NEW l \in Loop, BackoffEnds(l) PROVE k \in active'
    BY <1>10 DEF BackoffEnds
  <1>11. ASSUME NEW d \in Device, RowChanges(d) PROVE k \in active'
    BY <1>11 DEF RowChanges, loopVars
  <1>12. ASSUME NEW d \in Device, LockExpires(d) PROVE k \in active'
    BY <1>12 DEF LockExpires, loopVars
  <1>13. QED
    BY <1>1, <1>2, <1>3, <1>4, <1>5, <1>6, <1>7, <1>8, <1>9, <1>10, <1>11, <1>12
       DEF Next, LoopStep

\* The inductive invariant holds in every reachable state.
THEOREM PollInvariant == Spec => []PollInv
  <1>1. PollInv /\ [Next]_vars => PollInv'
    BY TypeStep, LockStep, StrayStep DEF PollInv
  <1>2. QED  BY PollInit, <1>1, PTL DEF Spec

\* The types and the circuit breaker: no loop is in backoff unless its last
\* polls, MaxFailures of them or more, all failed.
THEOREM TypeCorrect == Spec => []TypeOK
  <1>1. PollInv => TypeOK
    BY DEF PollInv
  <1>2. QED  BY PollInvariant, <1>1, PTL

\* The Redis lock keeps two polls of a device apart, across replicas, restarts
\* and removed devices, except when a lock's TTL ends during the poll.
THEOREM PollsKeptApart == Spec => []OverlapNeedsExpiry
  <1>1. PollInv => OverlapNeedsExpiry
    BY DEF PollInv, LockHeld, OverlapNeedsExpiry
  <1>2. QED  BY PollInvariant, <1>1, PTL

\* Every goroutine that still polls is known to the scheduler that started it, or
\* has been told to stop.
THEOREM NoLoopForgotten == Spec => []NoStrayLoop
  <1>1. PollInv => NoStrayLoop
    BY DEF PollInv
  <1>2. QED  BY PollInvariant, <1>1, PTL

-----------------------------------------------------------------------------
(***************************************************************************)
(* CircuitBreaker.  A backoff that is shifted out of the word is right all *)
(* the same if what is left of it is over the maximum: one bit is enough,  *)
(* and the numbers of nanoseconds in 1 to 1000 seconds have one.           *)
(***************************************************************************)
HIDE SchedulerAssumption

\* A word that is not empty has a highest one bit.
LEMMA HighestBit ==
  ASSUME NEW S \in SUBSET (0 .. 200), S # {}
  PROVE  Max(S) \in S /\ \A y \in S : Max(S) >= y
  <1> DEFINE T == {200 - b : b \in S}
  <1>1. T \subseteq Nat /\ T # {}
    <2>1. \A b \in S : 200 - b \in Nat
      OBVIOUS
    <2>2. T \subseteq Nat
      BY <2>1
    <2>3. T # {}
      OBVIOUS
    <2> QED BY <2>2, <2>3
  <1>2. PICK t \in T : \A u \in T : ~(<<u, t>> \in OpToRel(<, Nat))
    <2> HIDE DEF T
    <2> QED BY <1>1, NatLessThanWellFounded, WFMin
  <1>3. \A u \in T : t <= u
    <2> SUFFICES ASSUME NEW u \in T PROVE t <= u
      OBVIOUS
    <2>1. u \in Nat /\ t \in Nat /\ ~(<<u, t>> \in OpToRel(<, Nat))
      BY <1>1, <1>2
    <2> HIDE DEF T
    <2> QED BY <2>1 DEF OpToRel
  <1>4. PICK b \in S : t = 200 - b
    OBVIOUS
  <1>5. \A y \in S : b >= y
    <2> SUFFICES ASSUME NEW y \in S PROVE b >= y
      OBVIOUS
    <2>1. t <= 200 - y
      BY <1>3
    <2>2. b \in 0 .. 200 /\ y \in 0 .. 200
      OBVIOUS
    <2> QED BY <1>4, <2>1, <2>2
  <1> QED BY <1>5 DEF Max

\* One bit above all those of the other word decides the comparison.
LEMMA HigherIsGreater ==
  ASSUME NEW x \in SUBSET (0 .. 200), NEW y \in SUBSET (0 .. 39), NEW b \in x, b >= 40
  PROVE  Greater(x, y)
  <1> DEFINE d == (x \ y) \cup (y \ x)
  <1>1. d \in SUBSET (0 .. 200) /\ b \in d
    OBVIOUS
  <1>2. Max(d) \in d /\ Max(d) >= b
    <2> HIDE DEF d
    <2> QED BY <1>1, HighestBit
  <1>3. \A m \in d : m >= b => m \in x
    OBVIOUS
  <1>4. Max(d) \in x /\ d # {}
    BY <1>1, <1>2, <1>3
  <1> QED BY <1>4 DEF Greater

\* A duration of whole seconds, up to 1000, has its bits between 9 and 39.
LEMMA SecondsBits == \A n : Seconds(n) \subseteq 9 .. 39
  BY SMT DEF Seconds

\* Bit i + 9 of s seconds is one.
OneBit(s, i) == ((s * 1953125) \div 2^i) % 2 = 1

\* The bases and maxima considered (BreakerAssumption).
Thousand == 1 .. 1000

\* The lowest is among the first ten: 5^9 is odd.
LEMMA LowBit == \A s \in Thousand : \E i \in 0 .. 9 : OneBit(s, i)
  <1> SUFFICES ASSUME NEW s \in 1 .. 1000 PROVE \E i \in 0 .. 9 : OneBit(s, i)
    BY DEF Thousand
  <1> DEFINE x == s * 1953125
  <1>0. x \in Nat
    BY SMT
  <1>1. ASSUME \A i \in 0 .. 9 : ~OneBit(s, i) PROVE \E q \in Nat : x = 1024 * q
    <2>1. x % 2 = 0 /\ (x \div 2) % 2 = 0 /\ (x \div 4) % 2 = 0
      BY <1>1, SMT DEF OneBit
    <2>2. (x \div 8) % 2 = 0 /\ (x \div 16) % 2 = 0 /\ (x \div 32) % 2 = 0
      BY <1>1, SMT DEF OneBit
    <2>3. (x \div 64) % 2 = 0 /\ (x \div 128) % 2 = 0 /\ (x \div 256) % 2 = 0 /\ (x \div 512) % 2 = 0
      BY <1>1, SMT DEF OneBit
    <2>4. PICK q \in Nat : x = 8 * q
      BY <1>0, <2>1, SMT
    <2>5. PICK p \in Nat : x = 64 * p
      BY <2>2, <2>4, SMT
    <2> QED BY <2>3, <2>5, SMT
  <1>2. \A q \in Nat : x # 1024 * q
    BY SMT
  <1> HIDE DEF x
  <1> QED BY <1>1, <1>2, SMT

\* There is one in the middle, whatever the number: no multiple of 5^9 up to
\* the thousandth is within 64 above a multiple of 2^25.
LEMMA MiddleBit == \A s \in Thousand : \E i \in 6 .. 24 : OneBit(s, i)
  <1> SUFFICES ASSUME NEW s \in 1 .. 1000 PROVE \E i \in 6 .. 24 : OneBit(s, i)
    BY DEF Thousand
  <1> DEFINE x == s * 1953125
             q == x \div 33554432
             r == x - 64 * (x \div 64)
             Near == x = 33554432 * q + r
  <1>1. x \in Nat /\ x <= 1953125000
    BY SMT
  <1>2. q \in 0 .. 58
    <2> HIDE DEF x
    <2> QED BY <1>1, SMT
  <1>3. r \in 0 .. 63
    <2> HIDE DEF x
    <2> QED BY <1>1, SMT
  <1>4. ~Near
    <2> HIDE DEF q, r
    <2> QED BY <1>2, <1>3, SMTT(30)
  <1>5. ASSUME \A i \in 6 .. 24 : ~OneBit(s, i) PROVE Near
    <2>1. (x \div 64) % 2 = 0 /\ (x \div 128) % 2 = 0 /\ (x \div 256) % 2 = 0 /\ (x \div 512) % 2 = 0
      BY <1>5, SMT DEF OneBit
    <2>2. (x \div 1024) % 2 = 0 /\ (x \div 2048) % 2 = 0 /\ (x \div 4096) % 2 = 0 /\ (x \div 8192) % 2 = 0
      BY <1>5, SMT DEF OneBit
    <2>3. (x \div 16384) % 2 = 0 /\ (x \div 32768) % 2 = 0 /\ (x \div 65536) % 2 = 0 /\ (x \div 131072) % 2 = 0
      BY <1>5, SMT DEF OneBit
    <2>4. (x \div 262144) % 2 = 0 /\ (x \div 524288) % 2 = 0 /\ (x \div 1048576) % 2 = 0 /\ (x \div 2097152) % 2 = 0
      BY <1>5, SMT DEF OneBit
    <2>5. (x \div 4194304) % 2 = 0 /\ (x \div 8388608) % 2 = 0 /\ (x \div 16777216) % 2 = 0
      BY <1>5, SMT DEF OneBit
    <2>6. x \div 64 = 16 * (x \div 1024)
      BY <1>1, <2>1, SMT
    <2>7. x \div 1024 = 16 * (x \div 16384)
      BY <1>1, <2>2, SMT
    <2>8. x \div 16384 = 16 * (x \div 262144)
      BY <1>1, <2>3, SMT
    <2>9. x \div 262144 = 16 * (x \div 4194304)
      BY <1>1, <2>4, SMT
    <2>10. x \div 4194304 = 8 * (x \div 33554432)
      BY <1>1, <2>5, SMT
    <2> HIDE DEF x
    <2>11. x \div 64 = 524288 * q
      BY <2>6, <2>7, <2>8, <2>9, <2>10, <1>2, SMT
    <2> QED BY <1>1, <1>2, <2>11, SMT
  <1> HIDE DEF Near
  <1> QED BY <1>4, <1>5

\* calculateBackoff, where no bit leaves the word: base * 2^(failures-1) capped
\* at the maximum; a product that reaches the sign bit is taken for too large.
LEMMA ExactWithoutLoss ==
  ASSUME NEW failures \in 2 .. 25, NEW base \in SUBSET (0 .. 39), NEW maxBackoff \in SUBSET (0 .. 39)
  PROVE  calculateBackoff(failures, base, maxBackoff) = documentedBackoff(failures, base, maxBackoff)
  <1> DEFINE exact == {b + failures - 1 : b \in base}
  <1> SUFFICES calculateBackoff(failures, base, maxBackoff)
                 = IF Greater(exact, maxBackoff) THEN maxBackoff ELSE exact
    BY DEF documentedBackoff
  <1>1. exact \in SUBSET (0 .. 200)
    OBVIOUS
  <1>2. ShiftLeft(base, failures - 1) = exact
    <2>1. \A b \in base : b + (failures - 1) = b + failures - 1 /\ b + (failures - 1) \in 0 .. 63
      OBVIOUS
    <2> QED BY <2>1 DEF ShiftLeft, Bit
  <1> HIDE DEF exact
  <1>3. CASE 63 \in exact
    <2>1. Greater(exact, maxBackoff)
      BY <1>1, <1>3, HigherIsGreater
    <2> QED BY <1>2, <1>3, <2>1 DEF calculateBackoff, Negative
  <1>4. CASE 63 \notin exact
    <2>1. GreaterSigned(exact, maxBackoff) <=> Greater(exact, maxBackoff)
      BY <1>4 DEF GreaterSigned, Negative
    <2> QED BY <1>2, <1>4, <2>1 DEF calculateBackoff, Negative
  <1> QED BY <1>3, <1>4

\* calculateBackoff, where bits are lost: it is still right, since the product
\* is over the maximum, as long as one bit ends up above those of the maximum
\* and in the word.
LEMMA ExactByOneBit ==
  ASSUME NEW failures \in 2 .. 64, NEW base \in SUBSET (0 .. 39), NEW maxBackoff \in SUBSET (0 .. 39),
         NEW b \in base, b + failures - 1 \in 40 .. 63
  PROVE  calculateBackoff(failures, base, maxBackoff) = documentedBackoff(failures, base, maxBackoff)
  <1> DEFINE exact == {c + failures - 1 : c \in base}
             product == ShiftLeft(base, failures - 1)
             top == b + failures - 1
  <1> SUFFICES calculateBackoff(failures, base, maxBackoff)
                 = IF Greater(exact, maxBackoff) THEN maxBackoff ELSE exact
    BY DEF documentedBackoff
  <1>1. exact \in SUBSET (0 .. 200) /\ top \in exact
    OBVIOUS
  <1>2. product \in SUBSET (0 .. 200) /\ top \in product
    <2>1. b + (failures - 1) = top
      OBVIOUS
    <2> QED BY <2>1 DEF ShiftLeft, Bit
  <1>3. top >= 40
    OBVIOUS
  <1> HIDE DEF exact, product, top
  <1>4. Greater(exact, maxBackoff) /\ Greater(product, maxBackoff)
    BY <1>1, <1>2, <1>3, HigherIsGreater
  <1>5. GreaterSigned(product, maxBackoff) \/ Negative(product)
    BY <1>4 DEF GreaterSigned, Negative
  <1>6. calculateBackoff(failures, base, maxBackoff) = maxBackoff
    BY <1>5 DEF calculateBackoff, product
  <1> QED BY <1>4, <1>6

\* So it is for the first 46 failures in a row.
LEMMA ExactWhileABitIsKept ==
  \A failures \in 2 .. KeepsABit, s \in Thousand : ~Wrong(failures, s)
  <1> SUFFICES ASSUME NEW failures \in 2 .. 46, NEW s \in Thousand PROVE ~Wrong(failures, s)
    BY DEF KeepsABit
  <1>1. Seconds(s) \in SUBSET (0 .. 39) /\ Seconds(MaxSeconds) \in SUBSET (0 .. 39)
    BY SecondsBits
  <1>2. \A i \in 0 .. 30 : OneBit(s, i) => i + 9 \in Seconds(s)
    BY SMT DEF Seconds, OneBit
  <1>3. CASE failures <= 25
    <2>1. failures \in 2 .. 25
      BY <1>3
    <2> QED BY <1>1, <2>1, ExactWithoutLoss DEF Wrong
  <1>4. CASE failures > 25
    <2>1. \E b \in Seconds(s) : b + failures - 1 \in 40 .. 63
      <3>1. CASE failures <= 31
        <4>1. PICK i \in 6 .. 24 : OneBit(s, i)
          BY MiddleBit
        <4>2. i + 9 \in Seconds(s)
          BY <1>2, <4>1
        <4>3. i + 9 + failures - 1 \in 40 .. 63
          BY <1>4, <3>1
        <4> QED BY <4>2, <4>3
      <3>2. CASE failures > 31
        <4>1. PICK i \in 0 .. 9 : OneBit(s, i)
          BY LowBit
        <4>2. i + 9 \in Seconds(s)
          BY <1>2, <4>1
        <4>3. i + 9 + failures - 1 \in 40 .. 63
          BY <3>2
        <4> QED BY <4>2, <4>3
      <3> QED BY <3>1, <3>2
    <2>2. failures \in 2 .. 64
      OBVIOUS
    <2> QED BY <1>1, <2>1, <2>2, ExactByOneBit DEF Wrong
  <1> QED BY <1>3, <1>4

\* And after that, if it is not zero: whatever bit is left has been shifted past
\* those of the maximum.
LEMMA ExactOrZero ==
  ASSUME NEW failures \in Nat, failures > KeepsABit, NEW s \in Thousand,
         calculateBackoff(failures, Seconds(s), Seconds(MaxSeconds)) # {}
  PROVE  ~Wrong(failures, s)
  <1> DEFINE base == Seconds(s)
             maxBackoff == Seconds(MaxSeconds)
             product == ShiftLeft(base, failures - 1)
  <1>1. base \in SUBSET (9 .. 39) /\ maxBackoff \in SUBSET (9 .. 39)
    BY SecondsBits
  <1>2. failures > 46
    BY DEF KeepsABit
  <1>3. calculateBackoff(failures, base, maxBackoff) # {}
    OBVIOUS
  <1>4. product # {}
    <2> SUFFICES ASSUME product = {} PROVE FALSE
      OBVIOUS
    <2>1. ~Negative(product) /\ ~Greater(product, maxBackoff)
      <3>1. Max((product \ maxBackoff) \cup (maxBackoff \ product)) \notin product
        OBVIOUS
      <3> QED BY <3>1 DEF Negative, Greater
    <2>2. ~GreaterSigned(product, maxBackoff)
      <3>1. ~Negative(maxBackoff)
        BY <1>1 DEF Negative
      <3> HIDE DEF product, maxBackoff
      <3> QED BY <2>1, <3>1 DEF GreaterSigned
    <2>3. calculateBackoff(failures, base, maxBackoff) = product
      <3>1. ~(failures <= 1)
        BY <1>2
      <3> QED BY <2>1, <2>2, <3>1 DEF calculateBackoff
    <2> QED BY <1>3, <2>3
  <1>5. PICK b \in base : b + (failures - 1) \in 0 .. 63
    BY <1>4 DEF ShiftLeft, Bit
  <1> HIDE DEF base, maxBackoff, product
  <1>6. b \in 9 .. 39
    BY <1>1
  <1>7. failures \in 2 .. 64 /\ b + failures - 1 \in 40 .. 63
    BY <1>2, <1>5, <1>6
  <1>8. base \in SUBSET (0 .. 39) /\ maxBackoff \in SUBSET (0 .. 39)
    BY <1>1
  <1>9. calculateBackoff(failures, base, maxBackoff) = documentedBackoff(failures, base, maxBackoff)
    BY <1>7, <1>8, ExactByOneBit
  <1> QED BY <1>9 DEF Wrong, base, maxBackoff

\* calculateBackoff in 64 bits, for any bases and any maximum up to 1000 seconds
\* and any number of failures in a row: a loop enters a backoff of
\* base * 2^(failures-1) capped at max or, after more than 46 failures, of zero,
\* never a negative or a wrapped one.
THEOREM BackoffsAreSound == Spec => []BackoffSound
  <1>1. BadCounts = {}
    <2> SUFFICES ASSUME NEW failures \in BadCounts PROVE FALSE
      OBVIOUS
    <2>1. failures \in 1 .. FailureBound
      BY DEF BadCounts, WrongCounts
    <2>2. PICK s \in BaseSeconds :
            /\ Wrong(failures, s)
            /\ \/ failures <= KeepsABit
               \/ calculateBackoff(failures, Seconds(s), Seconds(MaxSeconds)) # {}
      BY DEF BadCounts
    <2>3. s \in Thousand /\ failures \in Nat
      BY <2>1, BreakerAssumption DEF Thousand
    <2>4. failures > 1
      BY <2>2 DEF Wrong
    <2>5. CASE failures <= KeepsABit
      <3>1. failures \in 2 .. KeepsABit
        BY <2>3, <2>4, <2>5 DEF KeepsABit
      <3> QED BY <2>2, <2>3, <3>1, ExactWhileABitIsKept
    <2>6. CASE failures > KeepsABit
      <3>1. ~(failures <= KeepsABit)
        BY <2>3, <2>6 DEF KeepsABit
      <3> QED BY <2>2, <2>3, <2>6, <3>1, ExactOrZero
    <2>7. failures <= KeepsABit \/ failures > KeepsABit
      BY <2>3 DEF KeepsABit
    <2> QED BY <2>5, <2>6, <2>7
  <1>2. BackoffSound
    BY <1>1 DEF BackoffSound
  <1> QED BY <1>2, PTL
=============================================================================
