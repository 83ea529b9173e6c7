-------------------------- MODULE MCPollScheduler ---------------------------
(* Instances of PollScheduler.  Two goroutines for a replica and a device    *)
(* let the device be removed and come back, or the replica restart, once.    *)
(* The length of a backoff is CircuitBreaker's.                              *)
EXTENDS PollScheduler, CircuitBreaker

TwoEach == Replica \X Device \X {1, 2}
Rep == [l \in Loop |-> l[1]]
Dev == [l \in Loop |-> l[2]]

\* One replica and the others: two loops against one each.
OneReplica == CHOOSE r \in Replica : TRUE
TwoAndOne == {l \in TwoEach : l[1] # OneReplica => l[3] = 1}

\* A device without a collector needs one loop only.
OneForNoCollector == {l \in TwoEach : l[2] \in NoCollector => l[3] = 1}

\* One goroutine for a replica and a device.
OneEach == {l \in TwoEach : l[3] = 1}

\* The values ds.consecutiveFailures may have: FailureCap stands for all above it.
Counts(l) == IF fails[l] < FailureCap THEN {fails[l]} ELSE FailureCap .. FailureBound

\* config.go: "Actual backoff is exponential: base * 2^(failures-1), capped at
\* max": so it is for every loop that enters one.
BackoffCapped == \A l \in backoff : Counts(l) \cap WrongCounts = {}

\* calculateBackoff in the 64 bits of time.Duration, whose overflow check looks
\* at the sign only: at whatever count a loop enters a backoff, the length is
\* base * 2^(failures-1) capped at max or, after more than 46 failures in a row,
\* zero.  It is never negative, never a wrapped product in between and never
\* over the maximum.
BackoffSound == \A l \in backoff : Counts(l) \cap BadCounts = {}
=============================================================================
