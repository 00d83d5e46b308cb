-------------------------- MODULE ChargeCacheProofs --------------------------
(***************************************************************************)
(* What a reader that finds the cache entry missing is told, for any       *)
(* number of readers and of events under way and any expiration time above *)
(* the lag of ClickHouse.                                                  *)
(***************************************************************************)
EXTENDS ChargeCache, TLAPS

USE TimesAssumption, NoEntryAssumption

TypeOK ==
  /\ expiry \in [Slots -> {"none", "pending", "hit", "missed", "failed"}]
  /\ counted \in SUBSET Slots
  /\ due \in [Slots -> 0 .. Lag]
  /\ entry \in (SUBSET Slots) \cup {NoEntry}
  /\ ttl \in 1 .. Persistent
  /\ query \in [Readers -> (SUBSET Slots) \cup {NoEntry}]

\* The entry outlives the way of every event that expired it ...
OutlivesInv ==
  entry # NoEntry => \A e \in Hits \ counted : due[e] < ttl

\* ... so that when it is gone ClickHouse counts them all.  An event that starts
\* has hit nothing, and a reader's write only prolongs the entry.
CountedInv == entry = NoEntry => Hits \subseteq counted

CacheInv == TypeOK /\ OutlivesInv /\ CountedInv

\* An event starts: it has not hit anything yet, and no usage counts it.
LEMMA StartInv ==
  ASSUME CacheInv, NEW e \in Slots, Start(e)
  PROVE  CacheInv'
<1> USE DEF CacheInv, Start
<1>1. TypeOK'
  BY DEF TypeOK, Without
<1>2. Hits' \subseteq Hits /\ e \notin Hits' /\ counted' = counted \ {e}
  BY DEF TypeOK, Hits
<1>3. entry = NoEntry <=> entry' = NoEntry
  BY DEF TypeOK, Without
<1>4. \A f \in Slots \ {e} : due'[f] = due[f]
  BY DEF TypeOK
<1>5. OutlivesInv'
  <2> SUFFICES ASSUME entry' # NoEntry, NEW f \in Hits' \ counted' PROVE due'[f] < ttl
    BY DEF OutlivesInv
  <2>1. f \in Hits \ counted /\ f # e /\ f \in Slots
    BY <1>2 DEF Hits
  <2> QED BY <1>3, <1>4, <2>1 DEF OutlivesInv
<1>6. CountedInv'
  BY <1>2, <1>3 DEF CountedInv
<1> QED BY <1>1, <1>5, <1>6

\* An expiry that finds the entry gives it more time than the event needs.
LEMMA ExpireKeyInv ==
  ASSUME CacheInv, NEW e \in Slots, ExpireKey(e)
  PROVE  CacheInv'
<1> USE DEF CacheInv, ExpireKey
<1>1. TypeOK'
  <2>1. expiry' \in [Slots -> {"none", "pending", "hit", "missed", "failed"}]
    BY DEF TypeOK
  <2>2. ttl' \in 1 .. Persistent
    BY DEF TypeOK, Persistent
  <2> QED BY <2>1, <2>2 DEF TypeOK
<1>2. CASE entry = NoEntry
  <2>1. Hits' \subseteq Hits /\ ttl' = ttl
    BY <1>2 DEF TypeOK, Hits
  <2> QED BY <1>1, <1>2, <2>1 DEF OutlivesInv, CountedInv
<1>3. CASE entry # NoEntry
  <2>2. \/ ttl' = Expiration /\ Hits' \subseteq Hits \cup {e}
        \/ ttl' = ttl /\ Hits' \subseteq Hits
    BY <1>3 DEF TypeOK, Hits
  <2>3. \A f \in Slots : due[f] < Expiration
    BY DEF TypeOK
  <2>4. \A f \in Hits' : f \in Slots
    BY DEF Hits
  <2>5. OutlivesInv'
    BY <1>3, <2>2, <2>3, <2>4 DEF OutlivesInv
  <2> QED BY <1>1, <1>3, <2>5 DEF CountedInv
<1> QED BY <1>2, <1>3

\* The last second of an entry passes only when all its events have arrived.
LEMMA TickInv ==
  ASSUME CacheInv, Tick
  PROVE  CacheInv'
<1> USE DEF CacheInv, Tick
<1>1. due' \in [Slots -> 0 .. Lag]
  BY DEF TypeOK
<1>2. TypeOK'
  BY <1>1 DEF TypeOK, Persistent
<1>3. Hits' = Hits /\ UNCHANGED counted
  BY DEF Hits
<1>4. \A e \in Hits \ counted : due[e] \in 1 .. Lag /\ due'[e] = due[e] - 1
  BY DEF Hits, Overdue, TypeOK
<1>5. CASE entry = NoEntry
  BY <1>2, <1>3, <1>5 DEF OutlivesInv, CountedInv
<1>6. CASE entry # NoEntry
  <2>1. CASE ttl = Persistent
    <3>1. UNCHANGED <<entry, ttl>>
      BY <2>1
    <3>2. OutlivesInv'
      BY <1>3, <1>4, <1>6, <3>1 DEF OutlivesInv, TypeOK
    <3> QED BY <1>2, <1>3, <1>6, <3>1, <3>2 DEF CountedInv
  <2>2. CASE ttl # Persistent /\ ttl = 1
    <3>1. Hits \subseteq counted
      BY <1>4, <1>6, <2>2 DEF OutlivesInv
    <3> QED BY <1>2, <1>3, <1>6, <2>2, <3>1 DEF OutlivesInv, CountedInv
  <2>3. CASE ttl # Persistent /\ ttl # 1
    <3>1. ttl' = ttl - 1 /\ entry' = entry
      BY <1>6, <2>3
    <3>2. OutlivesInv'
      BY <1>3, <1>4, <1>6, <3>1 DEF OutlivesInv, TypeOK
    <3> QED BY <1>2, <1>3, <1>6, <3>1, <3>2 DEF CountedInv
  <2> QED BY <2>1, <2>2, <2>3
<1> QED BY <1>5, <1>6

\* An arrival, and the two steps of a reader.
LEMMA ReadInv ==
  ASSUME CacheInv, \/ \E e \in Slots : Propagate(e)
                   \/ \E a \in Readers : Query(a) \/ Fill(a)
  PROVE  CacheInv'
<1> USE DEF CacheInv
<1>1. TypeOK'
  BY DEF Query, Fill, Propagate, TypeOK, Persistent
<1>2. Hits' = Hits /\ UNCHANGED due /\ counted \subseteq counted'
  BY DEF Query, Fill, Propagate, Hits
<1>3. CASE \E a \in Readers : Fill(a)
  <2>1. entry' # NoEntry /\ ttl' = Expiration + 1 /\ counted' = counted
    BY <1>3 DEF Fill, Persistent
  <2>2. \A e \in Hits : due[e] \in 0 .. Lag
    BY DEF TypeOK, Hits
  <2>3. OutlivesInv'
    BY <1>2, <2>1, <2>2 DEF OutlivesInv
  <2> QED BY <1>1, <2>1, <2>3 DEF CountedInv
<1>4. CASE (\E a \in Readers : Query(a)) \/ \E e \in Slots : Propagate(e)
  <2>1. UNCHANGED <<entry, ttl>>
    BY <1>4 DEF Query, Propagate
  <2> QED BY <1>1, <1>2, <2>1 DEF OutlivesInv, CountedInv
<1> QED BY <1>3, <1>4

\* However many processes read and fill the cache, its entry outlives the way to
\* ClickHouse of every event that gave it five seconds to live.
THEOREM CacheInvariance == Spec => []CacheInv
<1>1. Init => CacheInv
  <2> SUFFICES ASSUME Init PROVE CacheInv
    OBVIOUS
  <2>1. TypeOK /\ Hits = {}
    BY DEF Init, TypeOK, Persistent, Hits
  <2> QED BY <2>1 DEF Init, CacheInv, OutlivesInv, CountedInv
<1>2. CacheInv /\ [Next]_vars => CacheInv'
  <2> SUFFICES ASSUME CacheInv, [Next]_vars PROVE CacheInv'
    OBVIOUS
  <2>1. CASE UNCHANGED vars
    BY <2>1 DEF vars, CacheInv, TypeOK, OutlivesInv, CountedInv, Hits
  <2> QED BY <2>1, StartInv, ExpireKeyInv, TickInv, ReadInv DEF Next
<1> QED BY <1>1, <1>2, PTL DEF Spec

\* Whoever finds the entry missing is told of every event that found an entry to
\* expire, for any number of events and readers.
THEOREM MissesSeeTheirEvents == Spec => ReadsCountTheEvent
<1>1. ASSUME CacheInv, [Next]_vars, NEW a \in Readers, query[a] = NoEntry, query'[a] # NoEntry
      PROVE  Hits \subseteq query'[a]
  <2>1. Query(a)
    <3>1. query' # query
      BY <1>1
    <3>2. ASSUME NEW e \in Slots, Start(e) PROVE query'[a] = NoEntry
      BY <1>1, <3>2 DEF Start, Without
    <3>3. PICK b \in Readers : Query(b) \/ Fill(b)
      BY <1>1, <3>1, <3>2 DEF Next, vars, Propagate, ExpireKey, Tick
    <3>4. a = b /\ ~Fill(b)
      BY <1>1, <3>3 DEF Query, Fill, CacheInv, TypeOK
    <3> QED BY <3>3, <3>4
  <2> QED BY <1>1, <2>1 DEF Query, CacheInv, CountedInv, TypeOK
<1>2. CacheInv /\ [Next]_vars
        => [\A a \in Readers :
              query[a] = NoEntry /\ query'[a] # NoEntry => Hits \subseteq query'[a]]_vars
  BY <1>1
<1> QED BY <1>2, CacheInvariance, PTL DEF Spec, ReadsCountTheEvent
=============================================================================
