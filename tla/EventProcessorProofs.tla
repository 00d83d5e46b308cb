------------------------ MODULE EventProcessorProofs ------------------------
(***************************************************************************)
(* Safety of EventProcessor for any set of records, events and charges,    *)
(* whatever fails and however often it crashes.                            *)
(*                                                                         *)
(* The goroutine of a record and the produce goroutines under it write     *)
(* only what belongs to that record, so the invariant is stated and kept   *)
(* record by record.                                                       *)
(***************************************************************************)
EXTENDS EventProcessor, TLAPS

USE EventsAssumption, ChargesAssumption, MaxCrashesAssumption

\* The types of what a delivery keeps.
DeliveryOK ==
  /\ event \in [Records -> Events]
  /\ pc \in [Records -> {"idle", "start", "flag", "expire", "wait", "failed",
                         "deadLetter", "processed", "unprocessed"}]
  /\ result \in [Records -> Results]
  /\ plan \in [Records -> Plans]
  /\ message \in [Records -> [Messages -> MessageStates]]
  /\ flagged \in [Records -> BOOLEAN]
  /\ expired \in [Records -> SUBSET Charges]
  /\ captured \in [Records -> BOOLEAN]
  /\ deadLetter \in [Records -> BOOLEAN]

\* processEvent is between the start of its produce goroutines and its return.
Producing(r) == pc[r] \in {"flag", "expire", "wait"}

\* The produce goroutines are the ones the enrichment calls for, all of them
\* are started together, and they run only while processEvent does.
MessageInv(r) ==
  /\ \A m \in Messages : message[r][m] # "none" => m \in ToProduce(event[r], plan[r])
  /\ pc[r] \in {"idle", "start"} => message[r] = Unproduced /\ plan[r] = NoPlan
  /\ Producing(r) => /\ event[r].decodes
                     /\ \A m \in ToProduce(event[r], plan[r]) : message[r][m] # "none"
  /\ ~Producing(r) => ~Running(r)

\* The results of the service: what may be retried is reported.
Reportable == {r \in Results : ~r.ok /\ r.retryable => r.capture}

\* Failed records are on their way to the tracker or the dead letter topic, and
\* what is left for a retry is in the tracker already.
OutcomeInv(r) ==
  /\ result[r] \in Reportable
  /\ pc[r] \in {"failed", "deadLetter", "unprocessed"} => ~result[r].ok
  /\ pc[r] = "processed" => AccountedFor(r)
  /\ pc[r] = "unprocessed" => captured[r]

\* The usage this service has to flag and to expire.
OwnUsage(r) == plan[r].subscribed /\ NotAPIPostProcessed(event[r])

\* Redis is called for that usage only, processEvent succeeds only after it was
\* flagged and its expiry tried or reported, and once there are messages it fails
\* only because it was not flagged.
FlagInv(r) ==
  /\ flagged[r] \/ expired[r] # {} \/ pc[r] \in {"flag", "expire"} => OwnUsage(r)
  /\ pc[r] = "expire" => flagged[r] /\ result[r].ok
  /\ pc[r] \in {"flag", "expire"} => expired[r] = {}
  /\ ~result[r].ok /\ message[r] # Unproduced => OwnUsage(r) /\ ~flagged[r] /\ expired[r] = {}
  /\ pc[r] \in {"wait", "processed"} /\ result[r].ok /\ OwnUsage(r)
       => flagged[r] /\ (expired[r] = plan[r].charges \/ captured[r])

RecordInv(r) == MessageInv(r) /\ OutcomeInv(r) /\ FlagInv(r)

DeliveryInv == DeliveryOK /\ \A r \in Records : RecordInv(r)
-----------------------------------------------------------------------------
\* The first failure is one of the checks: EnrichEvent returns a result, which is
\* reported when it may be retried.
LEMMA EnrichEventType ==
  ASSUME NEW ev \in Events, NEW db \in Lookups
  PROVE  EnrichEvent(ev, db) \in Reportable
<1>1. /\ Success \in Reportable /\ FailedResult \in Reportable /\ NotFound \in Reportable
      /\ NonRetryable(FailedResult) \in Reportable
  BY DEF Success, FailedResult, NotFound, NonRetryable, NonCapturable, Results, Reportable
<1>2. Fetch(db.metric) \in Reportable /\ Fetch(db.subscription) \in Reportable
  <2>1. db.metric \in Answers /\ db.subscription \in Answers
    BY DEF Lookups
  <2> QED BY <1>1, <2>1 DEF Fetch, Answers
<1> DEFINE subscription == Fetch(db.subscription)
           checks ==
             << IF ev.timestamp THEN Success ELSE NonRetryable(FailedResult),
                Fetch(db.metric),
                EvaluateExpression(ev, db),
                IF subscription.capture THEN subscription ELSE Success,
                IF subscription.ok /\ db.filters = "error" THEN FailedResult ELSE Success >>
           failures == {i \in DOMAIN checks : ~checks[i].ok}
<1>3. EvaluateExpression(ev, db) \in Reportable
  BY <1>1 DEF EvaluateExpression
<1>4. DOMAIN checks = 1 .. 5
  OBVIOUS
<1>5. \A i \in 1 .. 5 : checks[i] \in Reportable
  BY <1>1, <1>2, <1>3
<1>6. ASSUME failures # {} PROVE Min(failures) \in failures
  <2>1. failures \in SUBSET (1 .. 5)
    BY <1>4
  <2>2. \E x \in failures : \A y \in failures : x <= y
    <3> HIDE DEF failures
    <3>1. \A y \in failures : y = 1 \/ y = 2 \/ y = 3 \/ y = 4 \/ y = 5
      BY <2>1
    <3> QED BY <1>6, <3>1
  <2> QED BY <2>2 DEF Min
<1>7. EnrichEvent(ev, db) = IF failures = {} THEN Success ELSE checks[Min(failures)]
  BY DEF EnrichEvent
<1> HIDE DEF checks
<1> QED BY <1>1, <1>4, <1>5, <1>6, <1>7

-----------------------------------------------------------------------------
\* Nothing but the goroutines of record r writes what belongs to it.
SameRecord(r) ==
  /\ event'[r] = event[r] /\ pc'[r] = pc[r] /\ result'[r] = result[r]
  /\ plan'[r] = plan[r] /\ message'[r] = message[r] /\ flagged'[r] = flagged[r]
  /\ expired'[r] = expired[r] /\ captured'[r] = captured[r]
  /\ deadLetter'[r] = deadLetter[r]

LEMMA OtherRecords ==
  ASSUME NEW r \in Records, RecordInv(r), SameRecord(r)
  PROVE  RecordInv(r)'
<1> USE DEF SameRecord
<1>1. MessageInv(r)'
  BY DEF RecordInv, MessageInv, Producing, Running, ToProduce, NotAPIPostProcessed
<1>2. OutcomeInv(r)'
  BY DEF RecordInv, OutcomeInv, AccountedFor, ToProduce, NotAPIPostProcessed
<1>3. FlagInv(r)'
  BY DEF RecordInv, FlagInv, OwnUsage, NotAPIPostProcessed, Unproduced
<1> QED BY <1>1, <1>2, <1>3 DEF RecordInv

\* A delivery that keeps nothing satisfies the invariant.
LEMMA EmptyDelivery ==
  ASSUME DeliveryOK, NEW r \in Records,
         pc[r] \in {"idle", "start"}, plan[r] = NoPlan, message[r] = Unproduced,
         ~flagged[r], expired[r] = {}, result[r] = Success
  PROVE  RecordInv(r)
<1>1. MessageInv(r)
  BY DEF MessageInv, Producing, Running, Unproduced
<1>2. OutcomeInv(r) /\ FlagInv(r)
  BY DEF OutcomeInv, FlagInv, Reportable, Results, Success
<1> QED BY <1>1, <1>2 DEF RecordInv

\* Undecodable and dead-lettered records are reported before they count as
\* processed.
LEMMA UndecodableInv ==
  ASSUME DeliveryInv, NEW r \in Records, Undecodable(r)
  PROVE  DeliveryInv'
<1> USE DEF DeliveryInv, Undecodable
<1>1. DeliveryOK'
  BY DEF DeliveryOK
<1>2. /\ pc[r] = "start" /\ pc'[r] = "processed" /\ captured'[r] = TRUE
      /\ UNCHANGED <<event, result, plan, message, flagged, expired, deadLetter>>
      /\ ~event[r].decodes
  BY DEF DeliveryOK
<1>3. RecordInv(r)'
  <2>1. MessageInv(r)'
    BY <1>2 DEF RecordInv, MessageInv, Producing, Running, ToProduce, NotAPIPostProcessed
  <2>2. OutcomeInv(r)'
    BY <1>2 DEF RecordInv, OutcomeInv, AccountedFor
  <2>3. plan[r].subscribed = FALSE
    BY <1>2 DEF RecordInv, MessageInv, NoPlan
  <2>4. FlagInv(r)'
    BY <1>2, <2>3 DEF RecordInv, MessageInv, FlagInv, OwnUsage, Unproduced
  <2> QED BY <2>1, <2>2, <2>4 DEF RecordInv
<1>4. \A q \in Records \ {r} : SameRecord(q)
  BY DEF DeliveryOK, SameRecord
<1> QED BY <1>1, <1>3, <1>4, OtherRecords

\* Enrichment either fails and leaves nothing behind, or starts all produce
\* goroutines the enriched event calls for.
LEMMA EnrichInv ==
  ASSUME DeliveryInv, NEW r \in Records, NEW db \in Lookups, Enrich(r, db)
  PROVE  DeliveryInv'
<1> USE DEF DeliveryInv
<1> DEFINE p == EnrichedEvents(db)
           enriched == EnrichEvent(event[r], db)
<1>1. enriched \in Results /\ enriched \in Reportable
  BY EnrichEventType DEF DeliveryOK, Reportable
<1>2. p \in Plans
  BY DEF EnrichedEvents, Plans, Lookups
<1>3. /\ pc[r] = "start" /\ event[r].decodes
      /\ result' = [result EXCEPT ![r] = enriched] /\ result'[r] = enriched
      /\ UNCHANGED <<event, flagged, expired, captured, deadLetter>>
  BY <1>1 DEF Enrich, DeliveryOK
<1>4. message[r] = Unproduced /\ plan[r] = NoPlan /\ ~plan[r].subscribed
  BY <1>3 DEF RecordInv, MessageInv, NoPlan
<1>5. ~flagged[r] /\ expired[r] = {}
  BY <1>4 DEF RecordInv, FlagInv, OwnUsage
<1>6. CASE enriched.ok
  <2> DEFINE produced == [m \in Messages |-> IF m \in ToProduce(event[r], p)
                                            THEN "produce" ELSE "none"]
             next == IF p.subscribed /\ NotAPIPostProcessed(event[r]) THEN "flag" ELSE "wait"
  <2>1. /\ plan' = [plan EXCEPT ![r] = p]
        /\ message' = [message EXCEPT ![r] = produced]
        /\ pc' = [pc EXCEPT ![r] = next]
    BY <1>3, <1>6 DEF Enrich
  <2> HIDE DEF p, enriched
  <2>2. DeliveryOK'
    BY <1>1, <1>2, <1>3, <2>1 DEF DeliveryOK, MessageStates
  <2>3. plan'[r] = p /\ message'[r] = produced /\ pc'[r] = next
    BY <2>1 DEF DeliveryOK
  <2>4. RecordInv(r)'
    <3>1. \A m \in Messages : m \in ToProduce(event[r], p) <=> message'[r][m] # "none"
      BY <2>3
    <3>2. ToProduce(event[r], p) \subseteq Messages
      BY <1>2 DEF ToProduce, Messages, Plans
    <3>3. MessageInv(r)'
      <4>1. ToProduce(event[r], plan[r])' = ToProduce(event[r], p)
        BY <1>3, <2>3 DEF ToProduce, NotAPIPostProcessed
      <4> QED BY <1>3, <2>3, <3>1, <3>2, <4>1 DEF MessageInv, Producing
    <3>4. OutcomeInv(r)'
      BY <1>1, <1>3, <2>3 DEF OutcomeInv
    <3>5. FlagInv(r)'
      BY <1>3, <1>5, <1>6, <2>3 DEF FlagInv, OwnUsage, NotAPIPostProcessed
    <3> QED BY <3>3, <3>4, <3>5 DEF RecordInv
  <2>5. \A q \in Records \ {r} : SameRecord(q)
    BY <1>3, <2>1 DEF DeliveryOK, SameRecord
  <2> QED BY <2>2, <2>4, <2>5, OtherRecords
<1>7. CASE ~enriched.ok
  <2>1. pc' = [pc EXCEPT ![r] = "failed"] /\ UNCHANGED <<plan, message>>
    BY <1>3, <1>7 DEF Enrich
  <2> HIDE DEF enriched
  <2>2. DeliveryOK'
    BY <1>1, <1>3, <2>1 DEF DeliveryOK
  <2>3. pc'[r] = "failed" /\ plan'[r] = NoPlan /\ message'[r] = Unproduced
    BY <1>4, <2>1 DEF DeliveryOK
  <2>4. RecordInv(r)'
    <3>1. MessageInv(r)'
      BY <2>3 DEF MessageInv, Producing, Running, Unproduced
    <3>2. OutcomeInv(r)'
      BY <1>1, <1>3, <1>7, <2>3 DEF OutcomeInv
    <3>3. FlagInv(r)'
      BY <1>3, <1>5, <2>3 DEF FlagInv, Unproduced
    <3> QED BY <3>1, <3>2, <3>3 DEF RecordInv
  <2>5. \A q \in Records \ {r} : SameRecord(q)
    BY <1>3, <2>1 DEF DeliveryOK, SameRecord
  <2> QED BY <2>2, <2>4, <2>5, OtherRecords
<1> QED BY <1>6, <1>7

\* The flag and the expiry are steps of processEvent: they do not touch the
\* produce goroutines beside them.
LEMMA FlagSubscriptionRefreshInv ==
  ASSUME DeliveryInv, NEW r \in Records, FlagSubscriptionRefresh(r)
  PROVE  DeliveryInv'
<1> USE DEF DeliveryInv
<1>1. PICK ok \in BOOLEAN :
        /\ flagged' = [flagged EXCEPT ![r] = ok]
        /\ result' = [result EXCEPT ![r] = IF ok THEN Success ELSE FailedResult]
        /\ pc' = [pc EXCEPT ![r] = IF ok THEN "expire" ELSE "wait"]
  BY DEF FlagSubscriptionRefresh, Flag
<1>2. pc[r] = "flag" /\ UNCHANGED <<event, plan, message, expired, captured, deadLetter>>
  BY DEF FlagSubscriptionRefresh
<1>3. /\ Success \in Results /\ FailedResult \in Results /\ ~FailedResult.ok
      /\ Success \in Reportable /\ FailedResult \in Reportable
  BY DEF Success, FailedResult, Results, Reportable
<1>4. DeliveryOK'
  BY <1>1, <1>2, <1>3 DEF DeliveryOK
<1>5. /\ flagged'[r] = ok /\ result'[r] = IF ok THEN Success ELSE FailedResult
      /\ pc'[r] = IF ok THEN "expire" ELSE "wait"
  BY <1>1 DEF DeliveryOK
<1>6. RecordInv(r)'
  <2>1. MessageInv(r)'
    BY <1>2, <1>5 DEF RecordInv, MessageInv, Producing, Running, ToProduce, NotAPIPostProcessed
  <2>2. OutcomeInv(r)'
    BY <1>3, <1>5 DEF OutcomeInv
  <2>3. FlagInv(r)'
    BY <1>2, <1>3, <1>5 DEF RecordInv, FlagInv, OwnUsage, NotAPIPostProcessed, Success
  <2> QED BY <2>1, <2>2, <2>3 DEF RecordInv
<1>7. \A q \in Records \ {r} : SameRecord(q)
  BY <1>1, <1>2 DEF DeliveryOK, SameRecord
<1> QED BY <1>4, <1>6, <1>7, OtherRecords

LEMMA ExpireCacheInv ==
  ASSUME DeliveryInv, NEW r \in Records, ExpireCache(r)
  PROVE  DeliveryInv'
<1> USE DEF DeliveryInv
<1>1. PICK done \in SUBSET plan[r].charges :
        /\ expired' = [expired EXCEPT ![r] = done]
        /\ captured' = [captured EXCEPT ![r] = @ \/ done # plan[r].charges]
  BY DEF ExpireCache, Expire
<1>2. /\ pc[r] = "expire" /\ pc' = [pc EXCEPT ![r] = "wait"]
      /\ UNCHANGED <<event, result, plan, message, flagged, deadLetter>>
  BY DEF ExpireCache
<1>3. DeliveryOK'
  BY <1>1, <1>2 DEF DeliveryOK, Plans
<1>4. /\ pc'[r] = "wait" /\ expired'[r] = done
      /\ captured'[r] = (captured[r] \/ done # plan[r].charges)
  BY <1>1, <1>2 DEF DeliveryOK
<1>5. RecordInv(r)'
  <2>1. MessageInv(r)'
    BY <1>2, <1>4 DEF RecordInv, MessageInv, Producing, Running, ToProduce, NotAPIPostProcessed
  <2>2. OutcomeInv(r)'
    BY <1>2, <1>4 DEF RecordInv, OutcomeInv
  <2>3. FlagInv(r)'
    BY <1>2, <1>4 DEF RecordInv, FlagInv, OwnUsage, NotAPIPostProcessed
  <2> QED BY <2>1, <2>2, <2>3 DEF RecordInv
<1>6. \A q \in Records \ {r} : SameRecord(q)
  BY <1>1, <1>2 DEF DeliveryOK, SameRecord
<1> QED BY <1>3, <1>5, <1>6, OtherRecords

\* A produce goroutine moves on; it never goes back to "none".
LEMMA MessageStepInv ==
  ASSUME DeliveryInv, NEW r \in Records, NEW m \in Messages, MessageStep(r, m)
  PROVE  DeliveryInv'
<1> USE DEF DeliveryInv
<1>1. /\ message[r][m] \in {"produce", "failed"}
      /\ UNCHANGED <<event, pc, result, plan, flagged, expired, captured, deadLetter>>
  BY DEF MessageStep, produceEvent, ProduceToDeadLetterQueue
<1>2. PICK outcome \in {"pushed", "failed", "deadLettered", "captured"} :
        message' = [message EXCEPT ![r][m] = outcome]
  BY DEF MessageStep, produceEvent, ProduceToDeadLetterQueue, Produce
<1>3. DeliveryOK'
  BY <1>1, <1>2 DEF DeliveryOK, MessageStates
<1>4. /\ message'[r][m] = outcome
      /\ \A n \in Messages \ {m} : message'[r][n] = message[r][n]
  BY <1>2 DEF DeliveryOK
<1>5. Producing(r)
  BY <1>1 DEF RecordInv, MessageInv, Running
<1>6. RecordInv(r)'
  <2>1. MessageInv(r)'
    <3>1. \A n \in Messages : message'[r][n] = "none" <=> message[r][n] = "none"
      BY <1>1, <1>4
    <3>2. ToProduce(event[r], plan[r]) \subseteq Messages
      BY DEF DeliveryOK, ToProduce, Messages, Plans
    <3> QED BY <1>1, <1>5, <3>1, <3>2
            DEF RecordInv, MessageInv, Producing, ToProduce, NotAPIPostProcessed
  <2>2. OutcomeInv(r)'
    BY <1>1, <1>5 DEF RecordInv, OutcomeInv, Producing
  <2>3. FlagInv(r)'
    <3>1. message[r] # Unproduced
      BY <1>1 DEF Unproduced
    <3> QED BY <1>1, <1>5, <3>1 DEF RecordInv, FlagInv, Producing, OwnUsage, NotAPIPostProcessed
  <2> QED BY <2>1, <2>2, <2>3 DEF RecordInv
<1>7. \A q \in Records \ {r} : SameRecord(q)
  BY <1>1, <1>2 DEF DeliveryOK, SameRecord
<1> QED BY <1>3, <1>6, <1>7, OtherRecords

\* errgroup.Wait: when processEvent returns, every message is settled.
LEMMA WaitProducedInv ==
  ASSUME DeliveryInv, NEW r \in Records, WaitProduced(r)
  PROVE  DeliveryInv'
<1> USE DEF DeliveryInv, WaitProduced
<1>1. DeliveryOK'
  BY DEF DeliveryOK
<1>2. /\ pc[r] = "wait" /\ pc'[r] = IF result[r].ok THEN "processed" ELSE "failed"
      /\ UNCHANGED <<event, result, plan, message, flagged, expired, captured, deadLetter>>
  BY DEF DeliveryOK
<1>3. \A m \in ToProduce(event[r], plan[r]) : message[r][m] \in Settled
  <2>1. ToProduce(event[r], plan[r]) \subseteq Messages
    BY DEF DeliveryOK, ToProduce, Messages, Plans
  <2>2. \A m \in Messages : message[r][m] \in MessageStates
    BY DEF DeliveryOK
  <2> QED BY <1>2, <2>1, <2>2 DEF RecordInv, MessageInv, Producing, Running, MessageStates, Settled
<1>4. RecordInv(r)'
  <2>1. MessageInv(r)'
    BY <1>2 DEF RecordInv, MessageInv, Producing, Running, ToProduce, NotAPIPostProcessed
  <2>2. OutcomeInv(r)'
    BY <1>2, <1>3 DEF RecordInv, MessageInv, Producing, OutcomeInv, AccountedFor, ToProduce,
       NotAPIPostProcessed
  <2>3. FlagInv(r)'
    BY <1>2 DEF RecordInv, FlagInv, OwnUsage, NotAPIPostProcessed
  <2> QED BY <2>1, <2>2, <2>3 DEF RecordInv
<1>5. \A q \in Records \ {r} : SameRecord(q)
  BY DEF DeliveryOK, SameRecord
<1> QED BY <1>1, <1>4, <1>5, OtherRecords

\* What becomes of a failed record.
LEMMA FailureInv ==
  ASSUME DeliveryInv, NEW r \in Records, HandleFailure(r) \/ DeadLetter(r)
  PROVE  DeliveryInv'
<1> USE DEF DeliveryInv
<1>1. DeliveryOK'
  BY DEF HandleFailure, DeadLetter, DeliveryOK, Results
<1>2. UNCHANGED <<event, result, plan, message, flagged, expired>>
  BY DEF HandleFailure, DeadLetter
<1>3. \/ /\ pc[r] = "failed" /\ captured'[r] = (captured[r] \/ result[r].capture)
         /\ pc'[r] \in {"unprocessed", "deadLetter"}
         /\ pc'[r] = "unprocessed" => result[r].retryable
      \/ pc[r] = "deadLetter" /\ pc'[r] = "processed" /\ (captured'[r] \/ deadLetter'[r])
  BY DEF HandleFailure, DeadLetter, DeliveryOK
<1>4. RecordInv(r)'
  <2>1. MessageInv(r)'
    BY <1>2, <1>3 DEF RecordInv, MessageInv, Producing, Running, ToProduce, NotAPIPostProcessed
  <2>2. OutcomeInv(r)'
    BY <1>2, <1>3 DEF RecordInv, OutcomeInv, AccountedFor, Reportable
  <2>3. FlagInv(r)'
    BY <1>2, <1>3 DEF RecordInv, OutcomeInv, FlagInv, OwnUsage, NotAPIPostProcessed
  <2> QED BY <2>1, <2>2, <2>3 DEF RecordInv
<1>5. \A q \in Records \ {r} : SameRecord(q)
  BY DEF HandleFailure, DeadLetter, DeliveryOK, SameRecord
<1> QED BY <1>1, <1>4, <1>5, OtherRecords

\* A batch begins with nothing kept, and leaves nothing.
LEMMA ProcessEventsInv ==
  ASSUME DeliveryInv, NEW B \in SUBSET Records, ProcessEvents(B)
  PROVE  DeliveryInv'
<1> USE DEF DeliveryInv, ProcessEvents
<1>1. DeliveryOK'
  BY DEF DeliveryOK
<1>2. ASSUME NEW r \in Records PROVE RecordInv(r)'
  <2>1. pc'[r] \in {"idle", "start"} /\ UNCHANGED <<event, plan, message, flagged, expired>>
    OBVIOUS
  <2>2. plan[r] = NoPlan /\ message[r] = Unproduced
    BY DEF RecordInv, MessageInv, Idle
  <2>3. ~flagged[r] /\ expired[r] = {}
    BY <2>2 DEF RecordInv, FlagInv, OwnUsage, NoPlan
  <2> QED BY <1>1, <2>1, <2>2, <2>3 DEF RecordInv, MessageInv, Producing, Running, Unproduced,
             OutcomeInv, FlagInv
<1> QED BY <1>1, <1>2

LEMMA EndDeliveryInv ==
  ASSUME DeliveryInv, EndDelivery
  PROVE  DeliveryInv'
<1> USE DEF DeliveryInv, EndDelivery
<1>1. Unproduced \in [Messages -> MessageStates] /\ NoPlan \in Plans /\ Success \in Results
  BY DEF Unproduced, MessageStates, NoPlan, Plans, Success, Results
<1>2. DeliveryOK'
  BY <1>1 DEF DeliveryOK
<1>3. ASSUME NEW r \in Records PROVE RecordInv(r)'
  <2>1. Success \in Reportable
    BY <1>1 DEF Reportable, Success
  <2> QED BY <1>2, <2>1 DEF RecordInv, MessageInv, Producing, Running, Unproduced, OutcomeInv,
             FlagInv
<1> QED BY <1>2, <1>3

\* A step that leaves the delivery alone.
LEMMA BesideInv ==
  ASSUME DeliveryInv, UNCHANGED <<event, delivery>>
  PROVE  DeliveryInv'
<1>1. DeliveryOK' /\ \A r \in Records : SameRecord(r)
  BY DEF DeliveryInv, DeliveryOK, delivery, SameRecord
<1> QED BY <1>1, OtherRecords DEF DeliveryInv

\* Every step of a record's goroutine.
LEMMA RecordStepInv ==
  ASSUME DeliveryInv, NEW r \in Records, RecordStep(r)
  PROVE  DeliveryInv'
BY UndecodableInv, EnrichInv, FlagSubscriptionRefreshInv, ExpireCacheInv, WaitProducedInv,
   FailureInv DEF RecordStep

-----------------------------------------------------------------------------
\* Every step of the batch, of the services and of the environment preserves
\* the invariant of the delivery and the types of the rest.
LEMMA NextInv ==
  ASSUME DeliveryInv, [Next]_vars
  PROVE  DeliveryInv'
<1>1. CASE Deliver
  BY <1>1, ProcessEventsInv DEF Deliver
<1>2. CASE ReturnProcessed
  BY <1>2, EndDeliveryInv DEF ReturnProcessed
<1>3. CASE \E r \in Records : RecordStep(r)
  BY <1>3, RecordStepInv
<1>4. CASE \E r \in Records, m \in Messages : MessageStep(r, m)
  BY <1>4, MessageStepInv
<1>5. CASE Cancel \/ Restart \/ \E r \in Records : Age(r)
  BY <1>5, BesideInv DEF Cancel, Restart, Age
<1>6. CASE Crash
  BY <1>6, EndDeliveryInv DEF Crash
<1>7. CASE UNCHANGED vars
  BY <1>7, BesideInv DEF vars, delivery
<1> QED BY <1>1, <1>2, <1>3, <1>4, <1>5, <1>6, <1>7 DEF Next

\* ProcessEvents has nothing to begin with.
LEMMA InitInv == Init => DeliveryInv
<1> SUFFICES ASSUME Init PROVE DeliveryInv
  OBVIOUS
<1>1. Unproduced \in [Messages -> MessageStates] /\ NoPlan \in Plans /\ Success \in Results
  BY DEF Unproduced, MessageStates, NoPlan, Plans, Success, Results
<1>2. DeliveryOK
  BY <1>1 DEF Init, DeliveryOK
<1>3. ASSUME NEW r \in Records PROVE RecordInv(r)
  BY <1>2, EmptyDelivery DEF Init
<1> QED BY <1>2, <1>3 DEF DeliveryInv

\* The invariant of the delivery, record by record, holds in every reachable
\* state, also in the middle of a batch and after a crash.
THEOREM DeliveryInvariance == Spec => []DeliveryInv
BY InitInv, NextInv, PTL DEF Spec

\* Every variable keeps its type: in particular the first failure of EnrichEvent
\* is always a result, and only charges of the plan are expired.
THEOREM TypeCorrect == Spec => []TypeOK
<1> DEFINE RestOK == /\ fresh \in [Records -> BOOLEAN] /\ storeCtx \in BOOLEAN
                     /\ committed \in SUBSET Records /\ crashes \in 0 .. MaxCrashes
<1>1. Init => RestOK
  BY DEF Init
<1>2. RestOK /\ [Next]_vars => RestOK'
  <2> SUFFICES ASSUME RestOK, [Next]_vars PROVE RestOK'
    OBVIOUS
  <2>1. CASE Deliver \/ ReturnProcessed
    BY <2>1 DEF Deliver, ProcessEvents, ReturnProcessed, EndDelivery
  <2>2. CASE \E r \in Records : RecordStep(r)
    BY <2>2 DEF RecordStep, Undecodable, Enrich, FlagSubscriptionRefresh, ExpireCache,
       WaitProduced, HandleFailure, DeadLetter
  <2>3. CASE \E r \in Records, m \in Messages : MessageStep(r, m)
    BY <2>3 DEF MessageStep, produceEvent, ProduceToDeadLetterQueue
  <2>4. CASE Cancel \/ Restart \/ Crash \/ \E r \in Records : Age(r)
    <3>1. crashes' \in 0 .. MaxCrashes
      BY <2>4 DEF Cancel, Restart, Crash, Age
    <3>2. fresh' \in [Records -> BOOLEAN]
      BY <2>4 DEF Cancel, Restart, Crash, EndDelivery, Age
    <3>3. storeCtx' \in BOOLEAN /\ committed' \in SUBSET Records
      BY <2>4, Zenon DEF Cancel, Restart, Crash, Age
    <3> QED BY <3>1, <3>2, <3>3
  <2>5. CASE UNCHANGED vars
    BY <2>5 DEF vars
  <2> QED BY <2>1, <2>2, <2>3, <2>4, <2>5 DEF Next
<1>3. DeliveryInv /\ RestOK => TypeOK
  BY DEF DeliveryInv, DeliveryOK, TypeOK
<1> QED BY <1>1, <1>2, <1>3, DeliveryInvariance, PTL DEF Spec

\* No produce goroutine outlives the processEvent that started it.
THEOREM NoGoroutineOutlivesItsEvent == Spec => []NoStragglers
<1>1. DeliveryInv => NoStragglers
  BY DEF DeliveryInv, RecordInv, MessageInv, Producing, NoStragglers
<1> QED BY <1>1, DeliveryInvariance, PTL

\* A record is only reported as processed when its messages are out, or it is
\* on the dead letter topic or in the error tracker, whatever failed.
THEOREM ProcessedAreAccountedFor == Spec => []ProcessedIsAccountedFor
<1>1. DeliveryInv => ProcessedIsAccountedFor
  BY DEF DeliveryInv, RecordInv, OutcomeInv, ProcessedIsAccountedFor
<1> QED BY <1>1, DeliveryInvariance, PTL

\* Usage of a subscription is never committed in silence without its refresh
\* flag or with a charge cache left alone.
THEOREM CommittedUsageFlagged == Spec => []CommittedUsageIsFlagged
<1>1. DeliveryInv => CommittedUsageIsFlagged
  <2> SUFFICES ASSUME DeliveryInv, NEW r \in Records, pc[r] = "processed", OwnUsage(r)
               PROVE  \/ flagged[r] /\ (expired[r] = plan[r].charges \/ captured[r])
                      \/ deadLetter[r] \/ captured[r]
    BY DEF CommittedUsageIsFlagged, OwnUsage
  <2>1. CASE result[r].ok
    BY <2>1 DEF DeliveryInv, RecordInv, FlagInv
  <2>2. CASE ~result[r].ok
    BY <2>2 DEF DeliveryInv, RecordInv, OutcomeInv, AccountedFor
  <2> QED BY <2>1, <2>2
<1> QED BY <1>1, DeliveryInvariance, PTL

\* An event whose messages are out is left for a retry or dead-lettered only because
\* its refresh flag failed, never for a message or a cache expiry that did.
THEOREM RepeatsAreForTheFlag == Spec => []RepeatedOnlyForTheFlag
<1>1. DeliveryInv => RepeatedOnlyForTheFlag
  <2> SUFFICES ASSUME DeliveryInv, NEW r \in Records, message[r] # Unproduced,
                      pc[r] \in {"failed", "unprocessed", "deadLetter"}
               PROVE  OwnUsage(r) /\ ~flagged[r] /\ expired[r] = {}
    BY DEF RepeatedOnlyForTheFlag, OwnUsage
  <2>1. ~result[r].ok
    BY DEF DeliveryInv, RecordInv, OutcomeInv
  <2> QED BY <2>1 DEF DeliveryInv, RecordInv, FlagInv
<1> QED BY <1>1, DeliveryInvariance, PTL
=============================================================================
