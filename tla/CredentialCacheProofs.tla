------------------------ MODULE CredentialCacheProofs -----------------------
(***************************************************************************)
(* A caller gets credentials of the source it asked for, for any number of *)
(* replicas, callers and versions.  The invariant: what is filed under a   *)
(* key is of the source of the key, and a caller asks for a source that    *)
(* the row it holds has.                                                   *)
(***************************************************************************)
EXTENDS CredentialCache, TLAPS

FiledBySource ==
  \A r \in Replica, k \in Source : cache[r][k] # None => cache[r][k].src = k

AskedForWhatIs == \A c \in Caller : at[c] # "idle" => ask[c].row[ask[c].src] # 0

SomeSource == /\ \E s \in Source : row[s] # 0
              /\ \A c \in Polls : \E s \in Source : copy[c][s] # 0

DraftFits == draft => row["device"] < MaxVer

CacheInv ==
  TypeOK /\ FiledBySource /\ AskedForWhatIs /\ SomeSource /\ DraftFits /\ SourceSeparated

\* Empty caches; the rows have credentials of some source.
LEMMA InitInv == Init => CacheInv
<1> SUFFICES ASSUME Init PROVE CacheInv
  OBVIOUS
<1> USE CacheAssumption DEF Init, Empty, NoAsk, Source
<1>1. TypeOK
  <2>1. row \in Row /\ copy \in [Polls -> Row] /\ ask \in [Caller -> [row : Row, src : Source]]
    BY DEF Row
  <2>2. draft \in BOOLEAN
    OBVIOUS
  <2> QED BY <2>1, <2>2 DEF TypeOK
<1>2. FiledBySource /\ AskedForWhatIs /\ SomeSource /\ DraftFits /\ SourceSeparated
  BY DEF FiledBySource, AskedForWhatIs, SomeSource, DraftFits, SourceSeparated
<1> QED BY <1>1, <1>2 DEF CacheInv

\* A call begins: it forgets what the last one returned.
LEMMA BeginStep ==
  ASSUME CacheInv, NEW c \in Caller, Begin(c)
  PROVE  CacheInv'
<1> USE CacheAssumption DEF CacheInv
<1> DEFINE q == IF c \in Polls THEN copy[c] ELSE row
<1>1. q \in Row /\ \E s \in Source : q[s] # 0
  BY DEF TypeOK, SomeSource
<1>2. PICK s \in Source : q[s] # 0 /\ ask' = [ask EXCEPT ![c] = [row |-> q, src |-> s]]
  BY <1>1 DEF Begin, Active, Source
<1> HIDE DEF q
<1>3. /\ got' = [got EXCEPT ![c] = None] /\ at' = [at EXCEPT ![c] = "get"]
      /\ UNCHANGED <<row, draft, pending, copy, cache>>
      /\ \E n \in {0, row["device"]} : want' = [want EXCEPT ![c] = n]
  BY DEF Begin
<1>4. TypeOK'
  <2>1. ask' \in [Caller -> [row : Row, src : Source]]
    BY <1>1, <1>2 DEF TypeOK
  <2>2. want' \in [Caller -> 0 .. MaxVer]
    BY <1>3 DEF TypeOK, Row, Source
  <2> QED BY <1>3, <2>1, <2>2 DEF TypeOK
<1>5. AskedForWhatIs' /\ SourceSeparated'
  BY <1>1, <1>2, <1>3 DEF TypeOK, AskedForWhatIs, SourceSeparated
<1>6. FiledBySource' /\ SomeSource' /\ DraftFits'
  BY <1>3 DEF FiledBySource, SomeSource, DraftFits
<1> QED BY <1>4, <1>5, <1>6

\* A call goes on: it finds an entry, filed under its source, or files what it
\* has decrypted under it.
LEMMA CallGoesOn ==
  ASSUME CacheInv, NEW c \in Caller, CallStep(c)
  PROVE  CacheInv'
<1> USE CacheAssumption DEF CacheInv
<1>t. RepOf[c] \in Replica /\ ask[c].src \in Source /\ ask[c].row \in Row
  BY DEF TypeOK
<1>1. CASE CacheHit(c)
  <2> USE <1>1 DEF CacheHit, Entry, CacheKey
  <2>1. TypeOK'
    BY <1>t DEF TypeOK
  <2>2. SourceSeparated'
    BY <1>t DEF TypeOK, FiledBySource, SourceSeparated
  <2>3. AskedForWhatIs' /\ FiledBySource' /\ SomeSource' /\ DraftFits'
    BY DEF TypeOK, AskedForWhatIs, FiledBySource, SomeSource, DraftFits
  <2> QED BY <2>1, <2>2, <2>3
<1>2. CASE CacheMiss(c)
  <2> USE <1>2 DEF CacheMiss
  <2>1. TypeOK'
    BY DEF TypeOK
  <2>2. AskedForWhatIs' /\ FiledBySource' /\ SomeSource' /\ DraftFits' /\ SourceSeparated'
    BY DEF TypeOK, AskedForWhatIs, FiledBySource, SomeSource, DraftFits, SourceSeparated
  <2> QED BY <2>1, <2>2
<1>3. CASE Decrypt(c)
  <2> USE <1>3 DEF Decrypt, CacheKey
  <2>1. Plain(c) \in Cred /\ Plain(c).src = ask[c].src
    BY <1>t DEF Plain, Cred, Row, AskedForWhatIs
  <2> HIDE DEF Plain
  <2>a. /\ cache' \in [Replica -> [Source -> Cred \cup {None}]]
        /\ \A r \in Replica, k \in Source :
             \/ cache'[r][k] = cache[r][k]
             \/ k = ask[c].src /\ cache'[r][k] = Plain(c)
    <3>1. CASE UNCHANGED cache
      BY <3>1 DEF TypeOK
    <3>2. CASE cache' = [cache EXCEPT ![RepOf[c]][ask[c].src] = Plain(c)]
      <4> DEFINE new == [cache[RepOf[c]] EXCEPT ![ask[c].src] = Plain(c)]
      <4>1. new \in [Source -> Cred \cup {None}]
        BY <1>t, <2>1 DEF TypeOK
      <4>2. \A k \in Source : new[k] = IF k = ask[c].src THEN Plain(c) ELSE cache[RepOf[c]][k]
        BY <1>t DEF TypeOK
      <4>3. cache' = [cache EXCEPT ![RepOf[c]] = new]
        BY <3>2
      <4> HIDE DEF new
      <4> QED BY <1>t, <4>1, <4>2, <4>3 DEF TypeOK
    <3> QED BY <3>1, <3>2
  <2>2. TypeOK'
    <3>1. got' \in [Caller -> Cred \cup {None}] /\ at' \in [Caller -> {"idle", "get", "decrypt"}]
      BY <2>1 DEF TypeOK
    <3> QED BY <2>a, <3>1 DEF TypeOK
  <2>3. SourceSeparated'
    BY <2>1 DEF TypeOK, SourceSeparated
  <2>4. FiledBySource'
    BY <2>1, <2>a DEF FiledBySource
  <2>5. AskedForWhatIs' /\ SomeSource' /\ DraftFits'
    BY DEF TypeOK, AskedForWhatIs, SomeSource, DraftFits
  <2> QED BY <2>2, <2>3, <2>4, <2>5
<1> QED BY <1>1, <1>2, <1>3 DEF CallStep

\* An entry or a whole cache is dropped, a replica or a loop starts anew.
LEMMA DropStep ==
  ASSUME CacheInv,
         \/ \E r \in Replica : handleEvent(r) \/ Restart(r)
         \/ \E r \in Replica, k \in Source : CacheExpires(r, k)
         \/ \E c \in Polls : Restarted(c)
         \/ EventLost
  PROVE  CacheInv'
<1> USE CacheAssumption DEF CacheInv
<1>1. ASSUME NEW r \in Replica, handleEvent(r) PROVE CacheInv'
  <2> USE <1>1 DEF handleEvent, Empty, callVars
  <2>1. TypeOK'
    BY DEF TypeOK
  <2>2. FiledBySource'
    BY DEF TypeOK, FiledBySource
  <2>3. AskedForWhatIs' /\ SomeSource' /\ DraftFits' /\ SourceSeparated'
    BY DEF AskedForWhatIs, SomeSource, DraftFits, SourceSeparated
  <2> QED BY <2>1, <2>2, <2>3
<1>2. ASSUME NEW r \in Replica, Restart(r) PROVE CacheInv'
  <2> USE <1>2 DEF Restart, Empty
  <2>1. TypeOK'
    BY DEF TypeOK
  <2>2. FiledBySource'
    BY DEF TypeOK, FiledBySource
  <2>3. AskedForWhatIs' /\ SomeSource' /\ DraftFits' /\ SourceSeparated'
    BY DEF AskedForWhatIs, SomeSource, DraftFits, SourceSeparated
  <2> QED BY <2>1, <2>2, <2>3
<1>3. ASSUME NEW r \in Replica, NEW k \in Source, CacheExpires(r, k) PROVE CacheInv'
  <2> USE <1>3 DEF CacheExpires, callVars
  <2>1. TypeOK'
    BY DEF TypeOK
  <2>2. FiledBySource'
    BY DEF TypeOK, FiledBySource
  <2>3. AskedForWhatIs' /\ SomeSource' /\ DraftFits' /\ SourceSeparated'
    BY DEF AskedForWhatIs, SomeSource, DraftFits, SourceSeparated
  <2> QED BY <2>1, <2>2, <2>3
<1>4. ASSUME NEW c \in Polls, Restarted(c) PROVE CacheInv'
  <2> USE <1>4 DEF Restarted, callVars
  <2>1. TypeOK' /\ SomeSource'
    BY DEF TypeOK, SomeSource
  <2>2. FiledBySource' /\ AskedForWhatIs' /\ DraftFits' /\ SourceSeparated'
    BY DEF FiledBySource, AskedForWhatIs, DraftFits, SourceSeparated
  <2> QED BY <2>1, <2>2
<1>5. CASE EventLost
  <2> USE <1>5 DEF EventLost, callVars
  <2>1. TypeOK'
    BY DEF TypeOK
  <2>2. FiledBySource' /\ AskedForWhatIs' /\ SomeSource' /\ DraftFits' /\ SourceSeparated'
    BY DEF FiledBySource, AskedForWhatIs, SomeSource, DraftFits, SourceSeparated
  <2> QED BY <2>1, <2>2
<1> QED BY <1>1, <1>2, <1>3, <1>4, <1>5

\* The rows change; the caches do not.
LEMMA UpdateStep ==
  ASSUME CacheInv, update_device \/ get_db \/ update_profile
  PROVE  CacheInv'
<1> USE CacheAssumption DEF CacheInv
<1>1. UNCHANGED <<copy, at, ask, want, got, cache>>
  BY DEF update_device, get_db, update_profile, callVars
<1>2. FiledBySource' /\ AskedForWhatIs' /\ SourceSeparated'
  BY <1>1 DEF FiledBySource, AskedForWhatIs, SourceSeparated
<1>3. CASE update_device
  <2> USE <1>3 DEF update_device
  <2>1. draft' \in BOOLEAN
    OBVIOUS
  <2>2. TypeOK'
    BY <1>1, <2>1 DEF TypeOK
  <2>3. SomeSource' /\ DraftFits'
    BY <1>1 DEF SomeSource, DraftFits
  <2> QED BY <1>2, <2>2, <2>3
<1>4. CASE get_db
  <2> USE <1>4 DEF get_db
  <2>1. draft' \in BOOLEAN
    OBVIOUS
  <2>2. row' \in Row /\ \A s \in Source : row[s] # 0 => row'[s] # 0
    BY DEF TypeOK, Row, Source, DraftFits
  <2>3. TypeOK' /\ DraftFits'
    BY <1>1, <2>1, <2>2 DEF TypeOK, DraftFits
  <2>4. SomeSource'
    BY <1>1, <2>2 DEF SomeSource
  <2> QED BY <1>2, <2>3, <2>4
<1>5. CASE update_profile
  <2> USE <1>5 DEF update_profile
  <2>1. row' \in Row /\ row'["device"] = row["device"] /\ \A s \in Source : row[s] # 0 => row'[s] # 0
    BY DEF TypeOK, Row, Source
  <2>2. TypeOK' /\ DraftFits'
    BY <1>1, <2>1 DEF TypeOK, DraftFits
  <2>3. SomeSource'
    BY <1>1, <2>1 DEF SomeSource
  <2> QED BY <1>2, <2>2, <2>3
<1> QED BY <1>3, <1>4, <1>5

\* The invariant holds throughout.
LEMMA CacheInvariant == Spec => []CacheInv
<1>1. CacheInv /\ [Next]_vars => CacheInv'
  <2> SUFFICES ASSUME CacheInv, [Next]_vars PROVE CacheInv'
    OBVIOUS
  <2>1. CASE Next
    BY <2>1, BeginStep, CallGoesOn, DropStep, UpdateStep DEF Next
  <2>2. CASE UNCHANGED vars
    BY <2>2 DEF vars, callVars, CacheInv, TypeOK, FiledBySource, AskedForWhatIs, SomeSource,
                DraftFits, SourceSeparated
  <2> QED BY <2>1, <2>2
<1> QED BY InitInv, <1>1, PTL DEF Spec

\* "Cache key includes source to prevent poisoning across device/profile
\* switch" (vault/cache.go): a caller gets credentials of its source.
THEOREM SourcesSeparated == Spec => []SourceSeparated
<1>1. CacheInv => SourceSeparated
  BY DEF CacheInv
<1> QED BY <1>1, CacheInvariant, PTL
=============================================================================
