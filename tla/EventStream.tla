---------------------------- MODULE EventStream -----------------------------
(***************************************************************************)
(* The event stream of the console: hooks/useEventStream.ts, as the layout *)
(* of routes/_authenticated.tsx uses it.  A connection asks for a          *)
(* single-use token, then opens an EventSource; an error or a refused      *)
(* token is retried after a delay, for ever.                               *)
(*                                                                         *)
(* connect and handleReconnect are closures over the tenant they were made *)
(* for, and outlive a change of the tenant: a link and a timer carry it.   *)
(* A change of the tenant runs the cleanup of the old effect and the new   *)
(* effect in one step, so isUnmountedRef is back to false when a token     *)
(* asked for before the change arrives.                                    *)
(***************************************************************************)
EXTENDS Integers

CONSTANTS
  Tenant,        \* the tenants an operator may look at
  NoTenant,      \* null: logging in or out, or none selected
  MAX_RETRIES,   \* failures until the badge says "disconnected"
  MaxLinks,      \* bound: connections and timers at a time
  MaxSwitches,   \* bound: changes of the tenant
  MaxDrops       \* bound: failed token requests and dropped streams

ASSUME StreamAssumption ==
  /\ NoTenant \notin Tenant
  /\ {MAX_RETRIES, MaxLinks, MaxSwitches, MaxDrops} \subseteq Nat

Link == 1 .. MaxLinks
Nil == 0

VARIABLES
  tenant,       \* the argument of the hook
  isUnmounted,  \* isUnmountedRef
  link,         \* the connections: [st, of], of the tenant of the closure
  eventSource,  \* eventSourceRef, a link or Nil
  timer,        \* the timers that run: [on, of]
  timerRef,     \* reconnectTimerRef, a timer or Nil
  retries,      \* retryCountRef
  badge,        \* connectionState
  crossed,      \* a token was asked for when the tenant changed
  switches, drops

streamVars == <<tenant, isUnmounted, link, eventSource, timer, timerRef, retries, badge,
                crossed, switches, drops>>

NoLink == [st |-> "none", of |-> NoTenant]
NoTimer == [on |-> FALSE, of |-> NoTenant]
Unused(f, none) == {i \in Link : f[i] = none}
Least(S) == CHOOSE i \in S : \A j \in S : i <= j

\* close() of the current stream, in the links L.
Shut(L) == IF eventSource = Nil THEN L ELSE [L EXCEPT ![eventSource] = NoLink]

-----------------------------------------------------------------------------
\* connect, up to the request of the token: in a closure of tenant t, with the
\* links as L and the timers as they will be.
connect(t, L) ==
  LET i == Least(Unused(L, NoLink))
  IN  /\ Unused(L, NoLink) # {}
      /\ link' = [L EXCEPT ![i] = [st |-> "token", of |-> t]]
      /\ eventSource' = Nil
      /\ badge' = IF retries < MAX_RETRIES THEN "connecting" ELSE badge

\* handleReconnect of a closure of t: an earlier timer keeps running.
handleReconnect(t) ==
  LET i == Least(Unused(timer, NoTimer))
  IN  /\ Unused(timer, NoTimer) # {}
      /\ badge' = IF retries >= MAX_RETRIES THEN "disconnected" ELSE "reconnecting"
      /\ retries' = IF retries < MAX_RETRIES THEN retries + 1 ELSE retries
      /\ timer' = [timer EXCEPT ![i] = [on |-> TRUE, of |-> t]]
      /\ timerRef' = i

Drop == drops < MaxDrops /\ drops' = drops + 1

\* The exchange of the token succeeded: the EventSource replaces the ref, and
\* a stream the ref held is not closed.
TokenGranted(i) ==
  /\ link[i].st = "token"
  /\ IF isUnmounted
     THEN link' = [link EXCEPT ![i] = NoLink] /\ UNCHANGED eventSource
     ELSE link' = [link EXCEPT ![i].st = "opening"] /\ eventSource' = i
  /\ UNCHANGED <<tenant, isUnmounted, timer, timerRef, retries, badge, crossed, switches, drops>>

TokenRefused(i) ==
  /\ link[i].st = "token"
  /\ Drop
  /\ link' = [link EXCEPT ![i] = NoLink]
  /\ IF isUnmounted THEN UNCHANGED <<timer, timerRef, retries, badge>>
     ELSE handleReconnect(link[i].of)
  /\ UNCHANGED <<tenant, isUnmounted, eventSource, crossed, switches>>

onopen(i) ==
  /\ link[i].st = "opening"
  /\ link' = [link EXCEPT ![i].st = "open"]
  /\ IF isUnmounted THEN UNCHANGED <<badge, retries>>
     ELSE badge' = "connected" /\ retries' = 0
  /\ UNCHANGED <<tenant, isUnmounted, eventSource, timer, timerRef, crossed, switches, drops>>

\* Mutant: an error is left to the browser, which retries with the used token.
onerrorIgnored(i) ==
  /\ link[i].st \in {"opening", "open"}
  /\ Drop
  /\ link' = [link EXCEPT ![i] = NoLink]
  /\ eventSource' = IF isUnmounted THEN eventSource ELSE Nil
  /\ UNCHANGED <<tenant, isUnmounted, timer, timerRef, retries, badge, crossed, switches>>

\* The ref is cleared whichever stream failed.  After the unmount the handler
\* does nothing, and the browser's own retry is refused: the token is used.
onerror(i) ==
  /\ link[i].st \in {"opening", "open"}
  /\ Drop
  /\ link' = [link EXCEPT ![i] = NoLink]
  /\ IF isUnmounted THEN UNCHANGED <<eventSource, timer, timerRef, retries, badge>>
     ELSE eventSource' = Nil /\ handleReconnect(link[i].of)
  /\ UNCHANGED <<tenant, isUnmounted, crossed, switches>>

\* The callback of a timer clears the ref, whichever timer it holds.
TimerFires(i) ==
  /\ timer[i].on
  /\ timer' = [timer EXCEPT ![i] = NoTimer]
  /\ timerRef' = Nil
  /\ IF isUnmounted THEN UNCHANGED <<link, eventSource, badge>>
     ELSE connect(timer[i].of, Shut(link))
  /\ UNCHANGED <<tenant, isUnmounted, retries, crossed, switches, drops>>

-----------------------------------------------------------------------------
\* cleanup: the stream and the timer the refs hold.
cleanup ==
  /\ timer' = IF timerRef = Nil THEN timer ELSE [timer EXCEPT ![timerRef] = NoTimer]
  /\ timerRef' = Nil

\* Mutant: the effect returns no cleanup.
SwitchTenantKeepsTimer(t) ==
  /\ ~isUnmounted /\ t # tenant
  /\ switches < MaxSwitches /\ switches' = switches + 1
  /\ UNCHANGED <<timer, timerRef>>
  /\ tenant' = t
  /\ crossed' = (crossed \/ \E i \in Link : link[i].st = "token")
  /\ IF t = NoTenant
     THEN link' = Shut(link) /\ eventSource' = Nil /\ badge' = "disconnected"
     ELSE connect(t, Shut(link))
  /\ UNCHANGED <<isUnmounted, retries, drops>>

\* The effect's cleanup, and the effect for the new tenant.
SwitchTenant(t) ==
  /\ ~isUnmounted /\ t # tenant
  /\ switches < MaxSwitches /\ switches' = switches + 1
  /\ cleanup
  /\ tenant' = t
  /\ crossed' = (crossed \/ \E i \in Link : link[i].st = "token")
  /\ IF t = NoTenant
     THEN link' = Shut(link) /\ eventSource' = Nil /\ badge' = "disconnected"
     ELSE connect(t, Shut(link))
  /\ UNCHANGED <<isUnmounted, retries, drops>>

\* The layout is unmounted: the operator has logged out.
Unmount ==
  /\ ~isUnmounted
  /\ isUnmounted' = TRUE
  /\ cleanup
  /\ link' = Shut(link) /\ eventSource' = Nil
  /\ UNCHANGED <<tenant, retries, badge, crossed, switches, drops>>

\* The layout is mounted before there is a tenant.
StreamInit ==
  /\ tenant = NoTenant /\ isUnmounted = FALSE
  /\ link = [i \in Link |-> NoLink] /\ eventSource = Nil
  /\ timer = [i \in Link |-> NoTimer] /\ timerRef = Nil
  /\ retries = 0 /\ badge = "disconnected"
  /\ crossed = FALSE /\ switches = 0 /\ drops = 0

LinkSteps(i) == TokenGranted(i) \/ TokenRefused(i) \/ onopen(i) \/ TimerFires(i)

StreamNext ==
  \/ \E i \in Link : LinkSteps(i) \/ onerror(i)
  \/ \E t \in Tenant \cup {NoTenant} : SwitchTenant(t)
  \/ Unmount

StreamSpec == StreamInit /\ [][StreamNext]_streamVars

-----------------------------------------------------------------------------
\* connect closes the stream before it opens another, and cleanup ends what
\* the tenant before left: unless the tenant changed while a token was asked
\* for, there is one connection or one timer at a time, of the tenant shown.
OneStreamUnlessCrossed ==
  ~crossed =>
    LET busy == {i \in Link : link[i] # NoLink}
        due == {i \in Link : timer[i].on}
    IN  /\ \A i, j \in busy : i = j
        /\ \A i, j \in due : i = j
        /\ busy = {} \/ due = {}
        /\ \A i \in busy : ~isUnmounted => link[i].of = tenant
        /\ \A i \in due : timer[i].of = tenant

\* "still ends in a reconnect without the user pressing anything": while the
\* layout stays, a tenant that is shown gets its stream, and gets it back,
\* unless the tenant changed while a token was asked for.
StreamComesBack ==
  tenant # NoTenant ~>
    (\/ crossed \/ isUnmounted \/ tenant = NoTenant
     \/ \E i \in Link : link[i] = [st |-> "open", of |-> tenant])
=============================================================================
