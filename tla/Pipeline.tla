------------------------------ MODULE Pipeline ------------------------------
(***************************************************************************)
(* One partition of the whole service: ConsumerGroup with EventProcessor   *)
(* as its ProcessRecords, wired as StartProcessingEvents does: the signal  *)
(* that stops the consumer group also cancels the context of the Redis     *)
(* stores, while the batches it drains run under a context of their own.   *)
(***************************************************************************)
EXTENDS ConsumerGroup

CONSTANTS
  Partition,  \* the one partition
  Events,     \* the kinds of raw event its records may hold
  Charges,    \* the charges of the plans, for the metric of the events
  Healthy,    \* Postgres, Redis and Kafka answer, and fail only a cancelled call
  Signals     \* shutdown signals may be sent

ASSUME PartitionAssumption == Partitions = {Partition}
ASSUME EnvironmentAssumption == Healthy \in BOOLEAN /\ Signals \in BOOLEAN
ASSUME PipelineEventsAssumption ==
  Events \subseteq [decodes : BOOLEAN, timestamp : BOOLEAN, ruby : BOOLEAN,
                    apiPostProcessed : BOOLEAN]
ASSUME PipelineChargesAssumption == Charges \cap {"enriched", "in_advance"} = {}

VARIABLES
  event, pc, result, plan, message, flagged, expired, captured, deadLetter,
  reported,  \* history: offsets some member's ProcessRecords returned as processed
  traced     \* history: offsets of which a delivery left a trace, see AccountedFor

eventVars == <<event, pc, result, plan, message, flagged, expired, captured,
               deadLetter>>
pipelineVars == <<vars, eventVars, reported, traced>>

\* The records are younger than 12 hours: whatever may be retried is.
EP == INSTANCE EventProcessor
        WITH Records <- Offsets, MaxCrashes <- 0, crashes <- 0,
             fresh <- [o \in Offsets |-> TRUE],
             storeCtx <- ~ctxDone, committed <- reported

PipelineInit ==
  /\ Init
  /\ reported = {} /\ traced = {}
  /\ EP!Init

\* Another member's commit counts as a record processed and accounted for.
Elsewhere ==
  IF gor' = gor THEN committed[Partition] .. committed'[Partition] - 1 ELSE {}

(***************************************************************************)
(* What a step of the consumer group means for the records: consume hands  *)
(* them to ProcessEvents, whose answer is what processRecordsAndCommit     *)
(* sees; a process that ends leaves nothing of the delivery.               *)
(***************************************************************************)
HandOver ==
  /\ gor[Partition] = "select" /\ gor'[Partition] = "process"
  /\ EP!ProcessEvents(batch'[Partition])
  /\ UNCHANGED traced

TakeBack ==
  /\ gor[Partition] = "process" /\ gor'[Partition] = "commit"
  /\ EP!ReturnProcessed
  /\ handled'[Partition] = {o \in Offsets : pc[o] = "processed"}
  /\ traced' = traced \cup {o \in batch[Partition] : EP!AccountedFor(o)}

ProcessEnds ==
  /\ proc = "up" /\ proc' # "up"
  /\ EP!EndDelivery
  /\ UNCHANGED <<reported, traced>>

Beside ==
  /\ gor[Partition] = gor'[Partition] \/ gor'[Partition] \in {"select", "done"}
  /\ proc' = "up" \/ proc' = proc
  /\ reported' = reported \cup Elsewhere
  /\ traced' = traced \cup Elsewhere
  /\ UNCHANGED eventVars

\* A healthy broker sends no fetch error and accepts the owner's commits.
HealthyBroker ==
  /\ proc' # "fetchError"
  /\ gor[Partition] = "commit" /\ gor'[Partition] = "select" /\ Partition \in owned
       => committed' # committed

GroupStep ==
  /\ Next
  /\ HandOver \/ TakeBack \/ ProcessEnds \/ Beside
  /\ Healthy => HealthyBroker
  /\ ctxDone' => Signals

\* Healthy services answer: a metric that does not exist, an expression without a
\* value and a message that JSON cannot hold remain, and a call that is cancelled.
HealthyStores(r) ==
  /\ pc[r] = "start" => ~result'[r].retryable
  /\ pc[r] = "flag" /\ pc'[r] # "flag" /\ ~ctxDone => flagged'[r]
  /\ pc[r] = "expire" /\ pc'[r] # "expire" /\ ~ctxDone => expired'[r] = plan[r].charges
  /\ \A m \in DOMAIN message[r] : message'[r][m] # "failed"

EventStep(r) ==
  /\ UNCHANGED vars
  /\ EP!RecordStep(r) \/ \E m \in EP!Messages : EP!MessageStep(r, m)
  /\ Healthy => HealthyStores(r)
  /\ UNCHANGED traced

PipelineNext == GroupStep \/ \E r \in Offsets : EventStep(r)

PipelineSpec == PipelineInit /\ [][PipelineNext]_pipelineVars

\* Fairness of the two components: goroutines go on and calls return.
PipelineFairness ==
  /\ WF_pipelineVars(GroupStep /\ PollStep)
  /\ WF_pipelineVars(GroupStep /\ ConsumerStep(Partition))
  /\ \A r \in Offsets : WF_pipelineVars(EventStep(r))

PipelineFairSpec == PipelineSpec /\ PipelineFairness
-----------------------------------------------------------------------------
\* No event disappears silently, whatever fails and whoever crashes: every
\* record a committed offset passes has its messages out, or is on the dead
\* letter topic, or its failure is in the error tracker.
NothingLostSilently ==
  \A o \in Offsets : o < committed[Partition] => o \in traced

\* While every service answers and no shutdown is asked for, commits pass only
\* over records some delivery processed (their messages sent, or dead-lettered for
\* a failure no retry would help) and none brings the process down, across
\* rebalances, expired sessions, kills and restarts.
HealthyCommitsAreProcessed ==
  Healthy /\ ~Signals =>
    /\ \A o \in Offsets : o < committed[Partition] => o \in reported
    /\ proc # "nilRecord"

\* "Gracefully shutting down consumer group" (consumer.go): with every service
\* healthy, a shutdown signal does not crash the process that drains its batches.
ShutdownIsGraceful == proc # "nilRecord"

\* A healthy group that keeps its partition commits the whole log in the end.
StableGroupCatchesUp ==
  <>[](proc = "up" /\ Partition \in owned \cap session)
    => <>(committed[Partition] = LogSize)
=============================================================================
