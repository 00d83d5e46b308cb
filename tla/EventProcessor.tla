-------------------------- MODULE EventProcessor --------------------------
(***************************************************************************)
(* What ProcessRecords does with a batch: ProcessEvents and processEvent   *)
(* (events-processor/processors/events_processor), one goroutine per       *)
(* record, and under it one goroutine per message to produce.              *)
(*                                                                         *)
(* Postgres, Redis and the output topics answer or fail as they like; a    *)
(* batch may be interrupted by a crash, and any record may be delivered    *)
(* again (a processed one when the process dies before it is committed).   *)
(***************************************************************************)
EXTENDS Integers, FiniteSetsExt

CONSTANTS
  Records,   \* the records of one partition
  Events,    \* the kinds of raw event a record may hold: a set of [decodes,
             \* timestamp, ruby, apiPostProcessed : BOOLEAN]
  Charges,   \* the charges of the plans, for the metric of the events
  MaxCrashes \* bound: signals and crashes

ASSUME MaxCrashesAssumption == MaxCrashes \in Nat

ASSUME EventsAssumption ==
  Events \subseteq [decodes : BOOLEAN, timestamp : BOOLEAN, ruby : BOOLEAN,
                    apiPostProcessed : BOOLEAN]

\* One goroutine of processEvent's errgroup: a message for one output topic,
\* enriched_expanded taking one per charge.
Enriched == "enriched"
InAdvance == "in_advance"
Messages == {Enriched, InAdvance} \cup Charges
ASSUME ChargesAssumption == Charges \cap {Enriched, InAdvance} = {}

VARIABLES
  event,       \* what each record holds
  fresh,       \* ingested less than 12 hours ago
  storeCtx,    \* the context of the Redis stores is live (no shutdown signal)
  pc,          \* the goroutine of each record, "idle" outside a batch
  result,      \* what processEvent returns for it
  plan,        \* the enrichment of the event, NoPlan before it
  message,     \* the state of each produce goroutine
  flagged,     \* the subscription was flagged for refresh in this delivery
  expired,     \* the charges whose cache entry got an expiry in this delivery
  captured,    \* the error tracker received this delivery's failure
  deadLetter,  \* ... and so did the dead letter topic
  committed,   \* records some batch returned as processed
  crashes      \* signals and crashes so far

delivery == <<pc, result, plan, message, flagged, expired, captured, deadLetter>>
vars == <<event, fresh, storeCtx, pc, result, plan, message, flagged, expired,
          captured, deadLetter, committed, crashes>>
-----------------------------------------------------------------------------
(* utils.Result, and the failures built from it. *)

Success == [ok |-> TRUE, retryable |-> FALSE, capture |-> FALSE]
FailedResult == [ok |-> FALSE, retryable |-> TRUE, capture |-> TRUE]
NonRetryable(r) == [r EXCEPT !.retryable = FALSE]
NonCapturable(r) == [r EXCEPT !.capture = FALSE]
Results == [ok : BOOLEAN, retryable : BOOLEAN, capture : BOOLEAN]

\* gorm.ErrRecordNotFound, for a billable metric or a subscription.
NotFound == NonRetryable(NonCapturable(FailedResult))

Answers == {"found", "missing", "error"}
Fetch(answer) ==
  CASE answer = "found"   -> Success
    [] answer = "missing" -> NotFound
    [] answer = "error"   -> FailedResult

\* What Postgres and the expression engine answer during one enrichment.
Lookups ==
  [metric : Answers, expression : {"none", "value", "nil"}, subscription : Answers,
   filters : {"ok", "error"}, charges : SUBSET Charges, inAdvance : SUBSET Charges]

\* enrichWithBillableMetric: events of the Ruby API carry their value already.
EvaluateExpression(ev, db) ==
  IF ~ev.ruby /\ db.expression = "nil" THEN NonRetryable(FailedResult) ELSE Success

(***************************************************************************)
(* EnrichEvent: the first failure decides, in the order of the code; a     *)
(* subscription that does not exist is not a failure, and without one no   *)
(* charge is looked up.                                                    *)
(***************************************************************************)
EnrichEvent(ev, db) ==
  LET subscription == Fetch(db.subscription)
      checks ==
        << IF ev.timestamp THEN Success ELSE NonRetryable(FailedResult),
           Fetch(db.metric),
           EvaluateExpression(ev, db),
           IF subscription.capture THEN subscription ELSE Success,
           IF subscription.ok /\ db.filters = "error" THEN FailedResult ELSE Success >>
      failures == {i \in DOMAIN checks : ~checks[i].ok}
  IN  IF failures = {} THEN Success ELSE checks[Min(failures)]

\* The enriched events: one per charge, or one without charge information.
EnrichedEvents(db) ==
  LET subscribed == db.subscription = "found"
  IN  [subscribed |-> subscribed,
       charges    |-> IF subscribed THEN db.charges ELSE {},
       inAdvance  |-> subscribed /\ db.charges \cap db.inAdvance # {}]

Plans == [subscribed : BOOLEAN, charges : SUBSET Charges, inAdvance : BOOLEAN]
NoPlan == [subscribed |-> FALSE, charges |-> {}, inAdvance |-> FALSE]

NotAPIPostProcessed(ev) == ~ev.ruby \/ ~ev.apiPostProcessed

\* The messages processEvent starts a goroutine for.
ToProduce(ev, p) ==
  {Enriched} \cup p.charges
    \cup {m \in {InAdvance} : p.subscribed /\ NotAPIPostProcessed(ev) /\ p.inAdvance}

-----------------------------------------------------------------------------
\* What the stores and the producers may answer: Redis is called with the
\* context of the stores, Kafka with the one of the batch.
Flag == IF storeCtx THEN BOOLEAN ELSE {FALSE}
Expire(charges) == IF storeCtx THEN SUBSET charges ELSE {{}}
Produce == {"pushed", "failed"}

MessageStates == {"none", "produce", "failed", "pushed", "deadLettered", "captured"}
Unproduced == [m \in Messages |-> "none"]
Running(r) == \E m \in Messages : message[r][m] \in {"produce", "failed"}

TypeOK ==
  /\ event \in [Records -> Events]
  /\ fresh \in [Records -> BOOLEAN]
  /\ storeCtx \in BOOLEAN
  /\ pc \in [Records -> {"idle", "start", "flag", "expire", "wait", "failed",
                         "deadLetter", "processed", "unprocessed"}]
  /\ result \in [Records -> Results]
  /\ plan \in [Records -> Plans]
  /\ message \in [Records -> [Messages -> MessageStates]]
  /\ flagged \in [Records -> BOOLEAN]
  /\ expired \in [Records -> SUBSET Charges]
  /\ captured \in [Records -> BOOLEAN]
  /\ deadLetter \in [Records -> BOOLEAN]
  /\ committed \in SUBSET Records
  /\ crashes \in 0 .. MaxCrashes

Init ==
  /\ event \in [Records -> Events]
  /\ fresh \in [Records -> BOOLEAN]
  /\ storeCtx = TRUE
  /\ pc = [r \in Records |-> "idle"]
  /\ result = [r \in Records |-> Success]
  /\ plan = [r \in Records |-> NoPlan]
  /\ message = [r \in Records |-> Unproduced]
  /\ flagged = [r \in Records |-> FALSE]
  /\ expired = [r \in Records |-> {}]
  /\ captured = [r \in Records |-> FALSE]
  /\ deadLetter = [r \in Records |-> FALSE]
  /\ committed = {} /\ crashes = 0

Idle == \A r \in Records : pc[r] = "idle"

\* ProcessEvents starts a goroutine for every record it is given.
ProcessEvents(B) ==
  /\ Idle /\ B # {}
  /\ pc' = [r \in Records |-> IF r \in B THEN "start" ELSE "idle"]
  /\ UNCHANGED <<event, fresh, storeCtx, result, plan, message, flagged,
                 expired, captured, deadLetter, committed, crashes>>

\* A record that does not unmarshal is captured and counts as processed.
Undecodable(r) ==
  /\ pc[r] = "start" /\ ~event[r].decodes
  /\ captured' = [captured EXCEPT ![r] = TRUE]
  /\ pc' = [pc EXCEPT ![r] = "processed"]
  /\ UNCHANGED <<event, fresh, storeCtx, result, plan, message, flagged,
                 expired, deadLetter, committed, crashes>>

\* processEvent up to the flag: enrich, then start the produce goroutines.
Enrich(r, db) ==
  /\ pc[r] = "start" /\ event[r].decodes
  /\ result' = [result EXCEPT ![r] = EnrichEvent(event[r], db)]
  /\ IF result'[r].ok
       THEN LET p == EnrichedEvents(db) IN
            /\ plan' = [plan EXCEPT ![r] = p]
            /\ message' = [message EXCEPT ![r] =
                 [m \in Messages |-> IF m \in ToProduce(event[r], p)
                                     THEN "produce" ELSE "none"]]
            /\ pc' = [pc EXCEPT ![r] =
                 IF p.subscribed /\ NotAPIPostProcessed(event[r]) THEN "flag" ELSE "wait"]
       ELSE /\ pc' = [pc EXCEPT ![r] = "failed"]
            /\ UNCHANGED <<plan, message>>
  /\ UNCHANGED <<event, fresh, storeCtx, flagged, expired, captured, deadLetter,
                 committed, crashes>>

\* Faulty variant: ignores the error.
FlagUnchecked(r) ==
  /\ pc[r] = "flag"
  /\ \E ok \in Flag : flagged' = [flagged EXCEPT ![r] = ok]
  /\ pc' = [pc EXCEPT ![r] = "expire"]
  /\ UNCHANGED <<event, fresh, storeCtx, result, plan, message, expired, captured,
                 deadLetter, committed, crashes>>

\* FlagSubscriptionRefresh: an error of Redis, or of the cancelled context.
FlagSubscriptionRefresh(r) ==
  /\ pc[r] = "flag"
  /\ \E ok \in Flag :
       /\ flagged' = [flagged EXCEPT ![r] = ok]
       /\ result' = [result EXCEPT ![r] = IF ok THEN Success ELSE FailedResult]
       /\ pc' = [pc EXCEPT ![r] = IF ok THEN "expire" ELSE "wait"]
  /\ UNCHANGED <<event, fresh, storeCtx, plan, message, expired, captured,
                 deadLetter, committed, crashes>>

\* Faulty variant: expires an entry for the event without a charge too.
ExpireCacheUnchecked(r) ==
  /\ pc[r] = "expire"
  /\ expired' = [expired EXCEPT ![r] =
                   IF plan[r].charges = {} THEN {Enriched} ELSE plan[r].charges]
  /\ pc' = [pc EXCEPT ![r] = "wait"]
  /\ UNCHANGED <<event, fresh, storeCtx, result, plan, message, flagged, captured,
                 deadLetter, committed, crashes>>

\* Faulty variant: an expiry that failed fails the event.
ExpireCacheOrFail(r) ==
  /\ pc[r] = "expire"
  /\ \E done \in Expire(plan[r].charges) :
       /\ expired' = [expired EXCEPT ![r] = done]
       /\ result' = [result EXCEPT ![r] = IF done = plan[r].charges THEN Success ELSE FailedResult]
  /\ pc' = [pc EXCEPT ![r] = "wait"]
  /\ UNCHANGED <<event, fresh, storeCtx, plan, message, flagged, captured,
                 deadLetter, committed, crashes>>

\* ExpireCache: every charge is tried, a failure is only captured.
ExpireCache(r) ==
  /\ pc[r] = "expire"
  /\ \E done \in Expire(plan[r].charges) :
       /\ expired' = [expired EXCEPT ![r] = done]
       /\ captured' = [captured EXCEPT ![r] = @ \/ done # plan[r].charges]
  /\ pc' = [pc EXCEPT ![r] = "wait"]
  /\ UNCHANGED <<event, fresh, storeCtx, result, plan, message, flagged,
                 deadLetter, committed, crashes>>

\* produceEvent in its goroutine: a message that is not pushed goes to the
\* dead letter queue, one that JSON cannot hold (a timestamp that parses as
\* NaN) to the error tracker only.
produceEvent(r, m) ==
  /\ message[r][m] = "produce"
  /\ \E outcome \in Produce \cup {"captured"} : message' = [message EXCEPT ![r][m] = outcome]
  /\ UNCHANGED <<event, fresh, storeCtx, pc, result, plan, flagged, expired,
                 captured, deadLetter, committed, crashes>>

ProduceToDeadLetterQueue(r, m) ==
  /\ message[r][m] = "failed"
  /\ \E outcome \in {"deadLettered", "captured"} :
       message' = [message EXCEPT ![r][m] = outcome]
  /\ UNCHANGED <<event, fresh, storeCtx, pc, result, plan, flagged, expired,
                 captured, deadLetter, committed, crashes>>

\* Faulty variants: no wait for the goroutines; a wait for their success.
DoNotWait(r) ==
  /\ pc[r] = "wait"
  /\ pc' = [pc EXCEPT ![r] = IF result[r].ok THEN "processed" ELSE "failed"]
  /\ UNCHANGED <<event, fresh, storeCtx, result, plan, message, flagged,
                 expired, captured, deadLetter, committed, crashes>>

WaitPushed(r) ==
  /\ pc[r] = "wait" /\ \A m \in Messages : message[r][m] \in {"none", "pushed"}
  /\ pc' = [pc EXCEPT ![r] = IF result[r].ok THEN "processed" ELSE "failed"]
  /\ UNCHANGED <<event, fresh, storeCtx, result, plan, message, flagged,
                 expired, captured, deadLetter, committed, crashes>>

\* processEvent's deferred errgroup.Wait, then the result is looked at.
WaitProduced(r) ==
  /\ pc[r] = "wait" /\ ~Running(r)
  /\ pc' = [pc EXCEPT ![r] = IF result[r].ok THEN "processed" ELSE "failed"]
  /\ UNCHANGED <<event, fresh, storeCtx, result, plan, message, flagged,
                 expired, captured, deadLetter, committed, crashes>>

\* Faulty variants: does not report what it leaves for a retry; retries
\* whatever the age of the event.
RetryUnreported(r) ==
  /\ pc[r] = "failed"
  /\ pc' = [pc EXCEPT ![r] =
              IF result[r].retryable /\ fresh[r] THEN "unprocessed" ELSE "deadLetter"]
  /\ UNCHANGED <<event, fresh, storeCtx, result, plan, message, flagged,
                 expired, captured, deadLetter, committed, crashes>>

RetryForEver(r) ==
  /\ pc[r] = "failed"
  /\ captured' = [captured EXCEPT ![r] = @ \/ result[r].capture]
  /\ pc' = [pc EXCEPT ![r] = IF result[r].retryable THEN "unprocessed" ELSE "deadLetter"]
  /\ UNCHANGED <<event, fresh, storeCtx, result, plan, message, flagged,
                 expired, deadLetter, committed, crashes>>

\* A failure that can be retried is left for a later delivery, for 12 hours.
HandleFailure(r) ==
  /\ pc[r] = "failed"
  /\ captured' = [captured EXCEPT ![r] = @ \/ result[r].capture]
  /\ pc' = [pc EXCEPT ![r] =
              IF result[r].retryable /\ fresh[r] THEN "unprocessed" ELSE "deadLetter"]
  /\ UNCHANGED <<event, fresh, storeCtx, result, plan, message, flagged,
                 expired, deadLetter, committed, crashes>>

\* Faulty variant: a dead letter that cannot be pushed is not reported.
DeadLetterUnreported(r) ==
  /\ pc[r] = "deadLetter"
  /\ deadLetter' \in {deadLetter, [deadLetter EXCEPT ![r] = TRUE]}
  /\ pc' = [pc EXCEPT ![r] = "processed"]
  /\ UNCHANGED <<event, fresh, storeCtx, result, plan, message, flagged, captured,
                 expired, committed, crashes>>

\* ProduceToDeadLetterQueue on the record's goroutine.
DeadLetter(r) ==
  /\ pc[r] = "deadLetter"
  /\ \/ deadLetter' = [deadLetter EXCEPT ![r] = TRUE] /\ UNCHANGED captured
     \/ captured' = [captured EXCEPT ![r] = TRUE] /\ UNCHANGED deadLetter
  /\ pc' = [pc EXCEPT ![r] = "processed"]
  /\ UNCHANGED <<event, fresh, storeCtx, result, plan, message, flagged,
                 expired, committed, crashes>>

\* Everything one delivery keeps is gone: ProcessEvents returned, or crashed.
EndDelivery ==
  /\ pc' = [r \in Records |-> "idle"]
  /\ result' = [r \in Records |-> Success]
  /\ plan' = [r \in Records |-> NoPlan]
  /\ message' = [r \in Records |-> Unproduced]
  /\ flagged' = [r \in Records |-> FALSE]
  /\ expired' = [r \in Records |-> {}]
  /\ captured' = [r \in Records |-> FALSE]
  /\ deadLetter' = [r \in Records |-> FALSE]
  /\ UNCHANGED <<event, fresh>>

\* g.Wait, and the processed records are returned.
ReturnProcessed ==
  /\ ~Idle
  /\ \A r \in Records : pc[r] \in {"idle", "processed", "unprocessed"}
  /\ committed' = committed \cup {r \in Records : pc[r] = "processed"}
  /\ EndDelivery
  /\ UNCHANGED <<storeCtx, crashes>>

-----------------------------------------------------------------------------
(* The environment. *)

\* A shutdown signal cancels the context the Redis stores were built with.
Cancel ==
  /\ storeCtx /\ crashes < MaxCrashes
  /\ storeCtx' = FALSE /\ crashes' = crashes + 1
  /\ UNCHANGED <<event, fresh, delivery, committed>>

\* The shutdown waited for the batch; the next process has live stores.
Restart ==
  /\ ~storeCtx /\ Idle
  /\ storeCtx' = TRUE
  /\ UNCHANGED <<event, fresh, delivery, committed, crashes>>

\* The process dies in the middle of a batch and is replaced.
Crash ==
  /\ ~Idle /\ crashes < MaxCrashes
  /\ storeCtx' = TRUE /\ crashes' = crashes + 1
  /\ EndDelivery
  /\ UNCHANGED committed

\* Twelve hours have passed since the event was ingested.
Age(r) ==
  /\ fresh[r] /\ fresh' = [fresh EXCEPT ![r] = FALSE]
  /\ UNCHANGED <<event, storeCtx, delivery, committed, crashes>>

-----------------------------------------------------------------------------
Deliver == \E B \in SUBSET Records : ProcessEvents(B)

RecordStep(r) ==
  \/ Undecodable(r)
  \/ \E db \in Lookups : Enrich(r, db)
  \/ FlagSubscriptionRefresh(r) \/ ExpireCache(r)
  \/ WaitProduced(r) \/ HandleFailure(r) \/ DeadLetter(r)

MessageStep(r, m) == produceEvent(r, m) \/ ProduceToDeadLetterQueue(r, m)

Next ==
  \/ Deliver \/ ReturnProcessed
  \/ \E r \in Records : RecordStep(r)
  \/ \E r \in Records, m \in Messages : MessageStep(r, m)
  \/ Cancel \/ Restart \/ Crash
  \/ \E r \in Records : Age(r)

Spec == Init /\ [][Next]_vars

(***************************************************************************)
(* Every goroutine goes on and every call it makes returns, a stopped      *)
(* process is started again, and time passes.  Nothing promises a delivery.*)
(***************************************************************************)
Fairness ==
  /\ WF_vars(ReturnProcessed) /\ WF_vars(Restart)
  /\ \A r \in Records :
       /\ WF_vars(RecordStep(r)) /\ WF_vars(Age(r))
       /\ \A m \in Messages : WF_vars(MessageStep(r, m))

FairSpec == Spec /\ Fairness
-----------------------------------------------------------------------------
Settled == {"pushed", "deadLettered", "captured"}

\* processEvent returns, and the record is judged, only after every produce
\* goroutine it started has ended: none of them outlives its batch.
NoStragglers ==
  \A r \in Records :
    Running(r) => pc[r] \in {"flag", "expire", "wait"}

AccountedFor(r) ==
  IF event[r].decodes /\ result[r].ok
    THEN \A m \in ToProduce(event[r], plan[r]) : message[r][m] \in Settled
    ELSE deadLetter[r] \/ captured[r]

\* A record that will be committed is accounted for: every message its
\* enrichment called for is on its topic, on the dead letter topic or in the
\* error tracker, and a failure is on the dead letter topic or in the tracker.
ProcessedIsAccountedFor ==
  \A r \in Records : pc[r] = "processed" => AccountedFor(r)

\* Usage of a subscription that nobody post-processes is never committed
\* silently without the refresh flag (also when a shutdown has cancelled the
\* stores' context), nor with a charge cache left alone without a report.
CommittedUsageIsFlagged ==
  \A r \in Records :
    pc[r] = "processed" /\ plan[r].subscribed /\ NotAPIPostProcessed(event[r]) =>
      \/ flagged[r] /\ (expired[r] = plan[r].charges \/ captured[r])
      \/ deadLetter[r] \/ captured[r]

\* An event whose messages are already out is left for another delivery, or sent
\* to the dead letter topic to be replayed, for one reason only: the refresh flag
\* of its usage failed, and nothing came after that.  A message or a cache expiry
\* that failed never has the messages of the event repeated.
RepeatedOnlyForTheFlag ==
  \A r \in Records :
    pc[r] \in {"failed", "unprocessed", "deadLetter"} /\ message[r] # Unproduced =>
      /\ plan[r].subscribed /\ NotAPIPostProcessed(event[r])
      /\ ~flagged[r] /\ expired[r] = {}

\* A batch returns: no goroutine waits for another for ever.
BatchReturns == ~Idle ~> Idle

\* Retries end: a record delivered over and over is committed in the end, for
\* once it is 12 hours old a failure is dead-lettered instead of retried.
RetriesEnd ==
  \A r \in Records : []<>(pc[r] = "start") => <>(r \in committed)
=============================================================================
