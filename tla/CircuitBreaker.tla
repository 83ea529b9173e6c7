--------------------------- MODULE CircuitBreaker ---------------------------
(***************************************************************************)
(* calculateBackoff of poller/internal/poller/scheduler.go, the length of  *)
(* the backoff that PollScheduler's PollEnds enters, with the 64-bit       *)
(* arithmetic of time.Duration.  A word is the set of its one bits,        *)
(* 0 .. 63; bit 63 is the sign.                                            *)
(***************************************************************************)
EXTENDS Naturals, FiniteSetsExt

CONSTANTS BaseSeconds,     \* values of CIRCUIT_BREAKER_BASE_BACKOFF_SECONDS
          MaxSeconds,      \* CIRCUIT_BREAKER_MAX_BACKOFF_SECONDS
          FailureBound     \* bound: consecutive failures

ASSUME BreakerAssumption ==
  /\ BaseSeconds \subseteq 1 .. 1000
  /\ MaxSeconds \in 1 .. 1000
  /\ FailureBound \in Nat

Bit == 0 .. 63

\* n seconds in nanoseconds: 10^9 = 2^9 * 5^9.
Seconds(n) == {b + 9 : b \in {i \in 0 .. 30 : ((n * 1953125) \div 2^i) % 2 = 1}}

\* x * (1 << k): bits that leave the word are lost.
ShiftLeft(x, k) == {b + k : b \in x} \cap Bit

\* x > y, for words that are not negative.
Greater(x, y) ==
  LET d == (x \ y) \cup (y \ x)
  IN  d # {} /\ Max(d) \in x

\* Signed comparisons.
Negative(x) == 63 \in x
GreaterSigned(x, y) ==
  IF Negative(x) # Negative(y) THEN Negative(y) ELSE Greater(x, y)

\* Mutant: without the check for a negative product.
calculateBackoffUnsigned(failures, baseBackoff, maxBackoff) ==
  LET product == ShiftLeft(baseBackoff, failures - 1)
  IN  IF failures <= 1 THEN baseBackoff
      ELSE IF GreaterSigned(product, maxBackoff) THEN maxBackoff
      ELSE product

calculateBackoff(failures, baseBackoff, maxBackoff) ==
  LET product == ShiftLeft(baseBackoff, failures - 1)
  IN  IF failures <= 1 THEN baseBackoff
      ELSE IF GreaterSigned(product, maxBackoff) \/ Negative(product) THEN maxBackoff
      ELSE product

\* base * 2^(failures-1), capped at max, without a word size.
documentedBackoff(failures, baseBackoff, maxBackoff) ==
  LET exact == {b + failures - 1 : b \in baseBackoff}
  IN  IF Greater(exact, maxBackoff) THEN maxBackoff ELSE exact

\* Seconds s are a base for which the result is something else.  (The first
\* failure is left out: the code then returns the base, whatever the maximum.)
Wrong(failures, s) ==
  /\ failures > 1
  /\ calculateBackoff(failures, Seconds(s), Seconds(MaxSeconds))
       # documentedBackoff(failures, Seconds(s), Seconds(MaxSeconds))

WrongCounts == {failures \in 1 .. FailureBound : \E s \in BaseSeconds : Wrong(failures, s)}

\* After so many failures one bit of the base is in the word still: the lowest
\* one bit of 1 .. 1000 seconds is bit 18 or below (bit 18 for 512 seconds).
KeepsABit == 46

\* Wrong in another way than being zero once all bits are shifted out.
BadCounts ==
  {failures \in WrongCounts : \E s \in BaseSeconds :
     /\ Wrong(failures, s)
     /\ \/ failures <= KeepsABit
        \/ calculateBackoff(failures, Seconds(s), Seconds(MaxSeconds)) # {}}
=============================================================================
