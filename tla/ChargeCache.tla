----------------------------- MODULE ChargeCache -----------------------------
(***************************************************************************)
(* One entry of the charge usage cache, keyed by charge, subscription and  *)
(* filter (models/charge_cache.go, models/stores.go).  The processes of    *)
(* the API, its workers and its clock share it (docs/architecture.md):     *)
(* whoever finds it missing asks ClickHouse and writes the answer.  The    *)
(* events processor gives it five seconds to live for every event of the   *)
(* charge, beside the message that brings the event to ClickHouse.         *)
(***************************************************************************)
EXTENDS Integers

CONSTANTS
  Slots,       \* events that can be under way together
  Readers,     \* processes that read the usage and fill the cache
  Expiration,  \* EXPIRATION_TIME, in ticks
  Lag,         \* ticks from ExpireKey until ClickHouse counts the event, at most
  NoEntry      \* there is no such key

ASSUME TimesAssumption == Expiration \in Nat \ {0} /\ Lag \in 0 .. Expiration - 1
ASSUME NoEntryAssumption == \A slots \in SUBSET Slots : slots # NoEntry

Persistent == Expiration + 1  \* the time to live of an entry without expiry

VARIABLES
  expiry,   \* what ExpireKey did for the event in each slot: "none" without an
            \* event, "pending", "hit", "missed" (no such key) or "failed"
  counted,  \* slots whose event ClickHouse counts
  due,      \* ticks left until ClickHouse must count the event of a slot
  entry,    \* the slots the cached usage counts, or NoEntry
  ttl,      \* ticks the entry has left
  query     \* per reader, the slots its answer from ClickHouse counts, or
            \* NoEntry when it is not reading

vars == <<expiry, counted, due, entry, ttl, query>>

Init ==
  /\ expiry = [e \in Slots |-> "none"]
  /\ counted = {} /\ due = [e \in Slots |-> Lag]
  /\ entry = NoEntry /\ ttl = Persistent
  /\ query = [a \in Readers |-> NoEntry]

Without(usage, e) == IF usage = NoEntry THEN NoEntry ELSE usage \ {e}

\* processEvent starts the produce goroutine of an event and goes on to the
\* expiry; a slot is used again once its event is through.
Start(e) ==
  /\ expiry[e] = "none" \/ (expiry[e] # "pending" /\ e \in counted)
  /\ expiry' = [expiry EXCEPT ![e] = "pending"]
  /\ counted' = counted \ {e}
  /\ due' = [due EXCEPT ![e] = Lag]
  /\ entry' = Without(entry, e)
  /\ query' = [a \in Readers |-> Without(query[a], e)]
  /\ UNCHANGED ttl

\* The message is produced and ClickHouse has ingested it.
Propagate(e) ==
  /\ expiry[e] # "none" /\ e \notin counted
  /\ counted' = counted \cup {e}
  /\ UNCHANGED <<expiry, due, entry, ttl, query>>

\* Faulty variant: the Del command.
DelKey(e) ==
  /\ expiry[e] = "pending"
  /\ \/ /\ expiry' = [expiry EXCEPT ![e] = IF entry = NoEntry THEN "missed" ELSE "hit"]
        /\ entry' = NoEntry /\ ttl' = Persistent
     \/ expiry' = [expiry EXCEPT ![e] = "failed"] /\ UNCHANGED <<entry, ttl>>
  /\ UNCHANGED <<counted, due, query>>

\* Faulty variant: EXPIRE with the option XX, which needs an expiry to renew.
ExpireKeyXX(e) ==
  /\ expiry[e] = "pending"
  /\ \/ /\ expiry' = [expiry EXCEPT ![e] = IF entry = NoEntry THEN "missed" ELSE "hit"]
        /\ ttl' = IF entry = NoEntry \/ ttl = Persistent THEN ttl ELSE Expiration
     \/ expiry' = [expiry EXCEPT ![e] = "failed"] /\ UNCHANGED ttl
  /\ UNCHANGED <<counted, due, entry, query>>

\* ExpireKey: Redis restarts the time to live of the entry, if there is one.
\* An error is captured and the event goes on.
ExpireKey(e) ==
  /\ expiry[e] = "pending"
  /\ \/ /\ expiry' = [expiry EXCEPT ![e] = IF entry = NoEntry THEN "missed" ELSE "hit"]
        /\ ttl' = IF entry = NoEntry THEN ttl ELSE Expiration
     \/ expiry' = [expiry EXCEPT ![e] = "failed"] /\ UNCHANGED ttl
  /\ UNCHANGED <<counted, due, entry, query>>

\* A reader finds no entry and asks ClickHouse ...
Query(a) ==
  /\ entry = NoEntry /\ query[a] = NoEntry
  /\ query' = [query EXCEPT ![a] = counted]
  /\ UNCHANGED <<expiry, counted, due, entry, ttl>>

\* ... then writes what it was told, over what is there by now and over the time
\* to live it may have been given.
Fill(a) ==
  /\ query[a] # NoEntry
  /\ entry' = query[a] /\ ttl' = Persistent
  /\ query' = [query EXCEPT ![a] = NoEntry]
  /\ UNCHANGED <<expiry, counted, due>>

Overdue(e) == expiry[e] \notin {"none", "pending"} /\ e \notin counted /\ due[e] = 0

\* A second passes for Redis and for the messages under way.
Tick ==
  /\ \A e \in Slots : ~Overdue(e)
  /\ due' = [e \in Slots |->
               IF expiry[e] \in {"none", "pending"} \/ due[e] = 0 THEN due[e] ELSE due[e] - 1]
  /\ IF entry = NoEntry \/ ttl = Persistent
       THEN UNCHANGED <<entry, ttl>>
       ELSE IF ttl = 1 THEN entry' = NoEntry /\ ttl' = Persistent
                       ELSE ttl' = ttl - 1 /\ UNCHANGED entry
  /\ UNCHANGED <<expiry, counted, query>>

Next ==
  \/ \E e \in Slots : Start(e) \/ Propagate(e) \/ ExpireKey(e)
  \/ \E a \in Readers : Query(a) \/ Fill(a)
  \/ Tick

Spec == Init /\ [][Next]_vars

\* Time passes, messages arrive, ExpireKey returns.  Nobody has to send an event,
\* to read the usage or to write what was read.
Fairness ==
  /\ WF_vars(Tick)
  /\ \A e \in Slots : WF_vars(Propagate(e)) /\ WF_vars(ExpireKey(e))

FairSpec == Spec /\ Fairness
-----------------------------------------------------------------------------
Hits == {e \in Slots : expiry[e] = "hit"}

\* When ClickHouse is faster than EXPIRATION_TIME, whoever finds the entry missing
\* is told of every event whose ExpireKey found an entry: however events, readers
\* and their writes interleave, the entry is never gone before ClickHouse has them.
ReadsCountTheEvent ==
  [][\A a \in Readers : query[a] = NoEntry /\ query'[a] # NoEntry => Hits \subseteq query'[a]]_vars

\* A reader that asked before an event and has not written yet when the event's
\* ExpireKey finds the entry of another reader: it writes the old usage without
\* an expiry, and nothing replaces it until the next event.
NoReadStraddlesAHit == \A a \in Readers : query[a] # NoEntry => Hits \subseteq query[a]

\* Where no read does, the cached usage comes to count every event that found an
\* entry to expire, once the stream pauses: the five seconds of ExpireKey run out,
\* or the write of a reader that was told of the event takes their place.
QuietCacheCatchesUp ==
  []NoReadStraddlesAHit /\ <>[](\A e \in Slots : expiry[e] \in {"none", "hit"})
    => <>[](entry = NoEntry \/ Hits \subseteq entry)
=============================================================================
