----------------------------- MODULE ApiClient ------------------------------
(***************************************************************************)
(* The API client of the console: the response interceptor of lib/api.ts.  *)
(* A request refused with 401 waits for a refresh of the session and is    *)
(* sent once more.  The refresh is a request of the same client, and its   *)
(* promise is shared through refreshPromise.  The server may refuse any    *)
(* request at any time: the access token has expired, the session is over, *)
(* the account is disabled.                                                *)
(***************************************************************************)
EXTENDS Naturals

CONSTANTS Request,  \* the requests of a page
          NoRequest

ASSUME ClientAssumption == NoRequest \notin Request

VARIABLES
  request,         \* where a request is
  retried,         \* the requests with the mark _retry
  refresh,         \* the refresh calls on their way, named by who made them
  refreshPromise,  \* the one that is shared
  awaits           \* what a request that was refused awaits

clientVars == <<request, retried, refresh, refreshPromise, awaits>>

Settled == {"ok", "failed"}

ClientInit ==
  /\ request = [r \in Request |-> "idle"]
  /\ retried = {} /\ refresh = {}
  /\ refreshPromise = NoRequest
  /\ awaits = [r \in Request |-> NoRequest]

Send(r) ==
  /\ request[r] = "idle"
  /\ request' = [request EXCEPT ![r] = "sent"]
  /\ UNCHANGED <<retried, refresh, refreshPromise, awaits>>

\* An answer, or an error other than 401, goes to the caller.
Answer(r) ==
  /\ request[r] = "sent"
  /\ \E end \in Settled : request' = [request EXCEPT ![r] = end]
  /\ UNCHANGED <<retried, refresh, refreshPromise, awaits>>

\* The first 401: the request joins the refresh under way, or starts one.
JoinRefresh(r) ==
  /\ request' = [request EXCEPT ![r] = "held"]
  /\ retried' = retried \cup {r}
  /\ IF refreshPromise = NoRequest
     THEN /\ refreshPromise' = r
          /\ refresh' = refresh \cup {r}
          /\ awaits' = [awaits EXCEPT ![r] = r]
     ELSE /\ awaits' = [awaits EXCEPT ![r] = refreshPromise]
          /\ UNCHANGED <<refresh, refreshPromise>>

\* Mutant: every request that is refused starts a refresh.
Refused401StartsAlways(r) ==
  /\ request[r] = "sent" /\ r \notin retried
  /\ request' = [request EXCEPT ![r] = "held"]
  /\ retried' = retried \cup {r}
  /\ refreshPromise' = r
  /\ refresh' = refresh \cup {r}
  /\ awaits' = [awaits EXCEPT ![r] = r]

\* Mutant: the request is not marked.
Refused401NoMark(r) ==
  /\ request[r] = "sent"
  /\ request' = [request EXCEPT ![r] = "held"]
  /\ LET s == IF refreshPromise = NoRequest THEN r ELSE refreshPromise
     IN  refreshPromise' = s /\ refresh' = refresh \cup {s} /\ awaits' = [awaits EXCEPT ![r] = s]
  /\ UNCHANGED retried

Refused401(r) ==
  /\ request[r] = "sent"
  /\ IF r \in retried
     THEN request' = [request EXCEPT ![r] = "failed"] /\ UNCHANGED <<retried, refresh, refreshPromise, awaits>>
     ELSE JoinRefresh(r)

\* The refresh ends: those who await it go on, and are sent again or fail.
Wake(s, st) ==
  /\ request' = [r \in Request |-> IF awaits[r] = s THEN st ELSE request[r]]
  /\ awaits' = [r \in Request |-> IF awaits[r] = s THEN NoRequest ELSE awaits[r]]
  /\ refresh' = refresh \ {s}
  /\ refreshPromise' = NoRequest
  /\ UNCHANGED retried

Refreshed(s) == s \in refresh /\ Wake(s, "sent")

\* The refresh is refused or fails: its own 401 is not retried.
RefreshFailed(s) == s \in refresh /\ Wake(s, "failed")

\* The caller asks anew (a query that is polled, an operator).
AskAgain(r) ==
  /\ request[r] \in Settled
  /\ request' = [request EXCEPT ![r] = "idle"]
  /\ retried' = retried \ {r}
  /\ UNCHANGED <<refresh, refreshPromise, awaits>>

Network(r) == Answer(r) \/ Refused401(r) \/ Refreshed(r) \/ RefreshFailed(r)

ClientNext == \E r \in Request : Send(r) \/ Network(r) \/ AskAgain(r)

ClientSpec == ClientInit /\ [][ClientNext]_clientVars

-----------------------------------------------------------------------------
\* "Singleton to track in-flight refresh to prevent multiple simultaneous
\* refresh calls": there is one at a time, and whoever waits, waits for it.
OneRefresh ==
  /\ \A p, q \in refresh : p = q
  /\ \A r \in Request : request[r] = "held" => awaits[r] \in refresh

\* Every request ends, however often the server says 401: a request is sent
\* twice at most, and a refresh that is refused itself waits for no refresh.
\* The requests are alike; one of them stands for all.
RequestsSettle ==
  LET r == CHOOSE r \in Request : TRUE IN request[r] = "sent" ~> request[r] \in Settled
=============================================================================
