--------------------------- MODULE CredentialCache ---------------------------
(***************************************************************************)
(* The decrypted credentials of one device in the pollers:                 *)
(* poller/internal/vault/cache.go, the subscriber that invalidates it      *)
(* (bus/credential_subscriber.go) and the backend's updates that make      *)
(* entries stale.                                                          *)
(*                                                                         *)
(* A device has credentials of its own, those of its credential profile,   *)
(* or both; a ciphertext and its plaintext are identified with the version *)
(* of the row they belong to.  Callers are the goroutines that ask the     *)
(* cache of their replica: polling loops, which hold the copy of the row   *)
(* they were started with, and all others (SSH relay, commands, backups),  *)
(* which read the row first.  Devices do not interact: keys hold the id.   *)
(***************************************************************************)
EXTENDS Naturals

CONSTANTS Replica, Caller,
          RepOf,    \* the replica of a caller
          Polls,    \* the callers that are polling loops
          MaxVer,   \* bound: versions of a row
          Lossy,    \* whether credential_changed may be lost
          None

Source == {"device", "profile"}
Cred == [src : Source, ver : 1 .. MaxVer]

ASSUME CacheAssumption ==
  /\ RepOf \in [Caller -> Replica]
  /\ Polls \subseteq Caller
  /\ MaxVer \in Nat \ {0}
  /\ Lossy \in BOOLEAN
  /\ None \notin Cred

VARIABLES
  row,      \* the committed version of each source, 0 if the device has none
  draft,    \* update_device has flushed new credentials and not committed
  pending,  \* credential_changed events in flight
  copy,     \* devCopy of a polling loop
  at,       \* where a caller is
  ask,      \* the row and the source a caller asks with
  want,     \* the device's own version, if nothing was in flight when a poll began
  got,      \* the credentials the last call of a caller returned
  cache     \* rawCache of a replica

callVars == <<at, ask, want, got>>
vars == <<row, draft, pending, copy, callVars, cache>>

Row == [Source -> 0 .. MaxVer]

TypeOK ==
  /\ row \in Row
  /\ draft \in BOOLEAN
  /\ pending \in 0 .. MaxVer
  /\ copy \in [Polls -> Row]
  /\ at \in [Caller -> {"idle", "get", "decrypt"}]
  /\ ask \in [Caller -> [row : Row, src : Source]]
  /\ want \in [Caller -> 0 .. MaxVer]
  /\ got \in [Caller -> Cred \cup {None}]
  /\ cache \in [Replica -> [Source -> Cred \cup {None}]]

Empty == [k \in Source |-> None]
NoAsk == [row |-> [s \in Source |-> 0], src |-> "device"]

\* FetchDevices returns rows with credentials of some source.
Init ==
  /\ row \in {q \in [Source -> {0, 1}] : \E s \in Source : q[s] = 1}
  /\ draft = FALSE
  /\ pending = 0
  /\ copy = [c \in Polls |-> row]
  /\ at = [c \in Caller |-> "idle"]
  /\ ask = [c \in Caller |-> NoAsk]
  /\ want = [c \in Caller |-> 0]
  /\ got = [c \in Caller |-> None]
  /\ cache = [r \in Replica |-> Empty]

-----------------------------------------------------------------------------
(* GetRawCredentials                                                       *)

\* The fallback chain: credentials of the device before those of the profile.
Active(q) == IF q["device"] # 0 THEN "device" ELSE "profile"

\* Mutant: the key is the device id alone.
CacheKeyNoSource(src) == "device"

\* "raw:" + deviceID + ":" + source.
CacheKey(src) == src

Quiet == ~draft /\ pending = 0

\* A poll asks with its copy.  Everyone else reads the row and asks for the
\* active source, or (GetSSHCredentials) for each source there is.
Begin(c) ==
  LET q == IF c \in Polls THEN copy[c] ELSE row
  IN  /\ at[c] = "idle"
      /\ \E s \in IF c \in Polls THEN {Active(q)} ELSE {x \in Source : q[x] # 0} :
           ask' = [ask EXCEPT ![c] = [row |-> q, src |-> s]]
      /\ want' = [want EXCEPT ![c] = IF Quiet /\ c \in Polls THEN row["device"] ELSE 0]
      /\ got' = [got EXCEPT ![c] = None]
      /\ at' = [at EXCEPT ![c] = "get"]
      /\ UNCHANGED <<row, draft, pending, copy, cache>>

Entry(c) == cache[RepOf[c]][CacheKey(ask[c].src)]

CacheHit(c) ==
  /\ at[c] = "get" /\ Entry(c) # None
  /\ got' = [got EXCEPT ![c] = Entry(c)]
  /\ at' = [at EXCEPT ![c] = "idle"]
  /\ UNCHANGED <<row, draft, pending, copy, ask, want, cache>>

CacheMiss(c) ==
  /\ at[c] = "get" /\ Entry(c) = None
  /\ at' = [at EXCEPT ![c] = "decrypt"]
  /\ UNCHANGED <<row, draft, pending, copy, ask, want, got, cache>>

Plain(c) == [src |-> ask[c].src, ver |-> ask[c].row[ask[c].src]]

\* Transit (or the legacy key) decrypts what the caller asked with, and the
\* result is cached; or it fails, and nothing is.
Decrypt(c) ==
  /\ at[c] = "decrypt"
  /\ \/ /\ got' = [got EXCEPT ![c] = Plain(c)]
        /\ cache' = [cache EXCEPT ![RepOf[c]][CacheKey(ask[c].src)] = Plain(c)]
     \/ UNCHANGED <<got, cache>>
  /\ at' = [at EXCEPT ![c] = "idle"]
  /\ UNCHANGED <<row, draft, pending, copy, ask, want>>

\* Mutant: NewLRU is given no TTL.
CacheExpiresNot(r, k) == FALSE /\ UNCHANGED vars

\* The TTL of NewCredentialCache, or the eviction of an LRU entry.
CacheExpires(r, k) ==
  /\ cache[r][k] # None
  /\ cache' = [cache EXCEPT ![r][k] = None]
  /\ UNCHANGED <<row, draft, pending, copy, callVars>>

-----------------------------------------------------------------------------
(* Changes and their announcement                                          *)

\* update_device: flush, then publish; the request's transaction is committed
\* when the handler has returned.  A failed publish is swallowed.
update_device ==
  /\ ~draft /\ row["device"] < MaxVer
  /\ draft' = TRUE
  /\ \/ pending < MaxVer /\ pending' = pending + 1
     \/ Lossy /\ UNCHANGED pending
  /\ UNCHANGED <<row, copy, callVars, cache>>

\* get_db: commit, or rollback after an exception.
get_db ==
  /\ draft
  /\ draft' = FALSE
  /\ \E n \in {row["device"], row["device"] + 1} : row' = [row EXCEPT !["device"] = n]
  /\ UNCHANGED <<pending, copy, callVars, cache>>

\* update_profile, or a profile assigned to the device: announced to nobody.
update_profile ==
  /\ row["profile"] < MaxVer
  /\ row' = [row EXCEPT !["profile"] = @ + 1]
  /\ UNCHANGED <<draft, pending, copy, callVars, cache>>

\* Invalidate, in the one replica the queue group chose.
handleEvent(r) ==
  /\ pending > 0
  /\ pending' = pending - 1
  /\ cache' = [cache EXCEPT ![r] = Empty]
  /\ UNCHANGED <<row, draft, copy, callVars>>

\* NATS core delivers at most once.
EventLost ==
  /\ Lossy /\ pending > 0
  /\ pending' = pending - 1
  /\ UNCHANGED <<row, draft, copy, callVars, cache>>

\* The replica restarts: an empty cache, loops with the rows of today.
Restart(r) ==
  /\ cache' = [cache EXCEPT ![r] = Empty]
  /\ copy' = [c \in Polls |-> IF RepOf[c] = r THEN row ELSE copy[c]]
  /\ at' = [c \in Caller |-> IF RepOf[c] = r THEN "idle" ELSE at[c]]
  /\ got' = [c \in Caller |-> IF RepOf[c] = r THEN None ELSE got[c]]
  /\ UNCHANGED <<row, draft, pending, ask, want>>

\* The device left FetchDevices' result and came back: a new loop, a new copy.
Restarted(c) ==
  /\ at[c] = "idle"
  /\ copy' = [copy EXCEPT ![c] = row]
  /\ UNCHANGED <<row, draft, pending, callVars, cache>>

CallStep(c) == CacheHit(c) \/ CacheMiss(c) \/ Decrypt(c)

Next ==
  \/ \E c \in Caller : Begin(c) \/ CallStep(c)
  \/ \E c \in Polls : Restarted(c)
  \/ \E r \in Replica : handleEvent(r) \/ Restart(r)
  \/ \E r \in Replica, k \in Source : CacheExpires(r, k)
  \/ update_device \/ get_db \/ update_profile \/ EventLost

Spec == Init /\ [][Next]_vars

\* A call to OpenBao has a timeout, and a cache entry its TTL.
FairSpec ==
  /\ Spec
  /\ \A c \in Caller : WF_vars(CallStep(c))
  /\ \A r \in Replica, k \in Source : WF_vars(CacheExpires(r, k))

-----------------------------------------------------------------------------
\* cache.go: "Cache key includes source to prevent poisoning across
\* device/profile switch": whatever other callers put into the cache meanwhile,
\* a caller gets credentials of the source it asked for.
SourceSeparated ==
  \A c \in Caller : got[c] # None => got[c].src = ask[c].src

\* Whatever is lost, late, or decrypted from an old row while it is being
\* invalidated: once the loops of a replica hold the current row, its cache ends
\* up with nothing but current credentials.  (Updates are finitely many.)
StalenessHeals ==
  \A r \in Replica :
    <>[](\A c \in Polls : RepOf[c] = r => copy[c] = row)
      => <>[](\A k \in Source : cache[r][k] \in {None, [src |-> k, ver |-> row[k]]})

\* credential_subscriber.go: the event "invalidates the credential cache so the
\* poller uses fresh credentials on the next poll cycle": a poll begun with no
\* update and no event in flight uses the device's committed credentials, if it
\* has any, or newer ones.
FreshCredentials ==
  \A c \in Polls :
    got[c] # None /\ want[c] # 0 => got[c].src = "device" /\ got[c].ver >= want[c]
=============================================================================
