--------------------------- MODULE PipelineProofs ---------------------------
(***************************************************************************)
(* What the consumer group and the event processor guarantee together, for *)
(* any length of the log, any poll limit, any kinds of event and any       *)
(* charges.  The invariants of the two are taken from their own proofs;    *)
(* what is new is how they are tied to each other.                         *)
(***************************************************************************)
EXTENDS Pipeline, ConsumerGroupProofs

\* The event processor of Pipeline, with its proofs.
EPP == INSTANCE EventProcessorProofs
         WITH Records <- Offsets, MaxCrashes <- 0, crashes <- 0,
              fresh <- [o \in Offsets |-> TRUE],
              storeCtx <- ~ctxDone, committed <- reported

USE LogSizeAssumption, NoneAssumption
-----------------------------------------------------------------------------
(* What a step of the group is for the partition. *)

\* ProcessRecords returns.
Returns ==
  /\ gor[Partition] = "process" /\ gor'[Partition] = "commit"
  /\ batch'[Partition] = batch[Partition]
  /\ attempted'[Partition] = attempted[Partition] \cup batch[Partition]
  /\ proc' = proc

\* Another member goes on.
GoesOnElsewhere ==
  /\ gor' = gor /\ UNCHANGED <<batch, handled, proc>>
  /\ committed[Partition] \in Nat
  /\ committed'[Partition] = committed[Partition] + 1
  /\ attempted'[Partition] = attempted[Partition] \cup {committed[Partition]}

\* The goroutine receives a batch.
Receives ==
  /\ gor[Partition] = "select" /\ gor'[Partition] = "process"
  /\ UNCHANGED <<attempted, proc>>

\* The process ends; only a commit without a record dereferences nil.
Ends ==
  /\ proc = "up" /\ proc' # "up" /\ gor'[Partition] = "done"
  /\ UNCHANGED attempted
  /\ proc' = "nilRecord" =>
       gor[Partition] = "commit" /\ CommitTarget(handled[Partition], batch[Partition]) = NoRecord

\* The goroutine is created, ends, or has committed; it processes nothing.
Turns ==
  /\ gor[Partition] # "process" /\ gor'[Partition] \in {"select", "done"}
  /\ UNCHANGED <<attempted, proc>>

\* Anything else leaves the goroutine alone.
Passes ==
  /\ gor'[Partition] = gor[Partition] /\ batch'[Partition] = batch[Partition]
  /\ handled'[Partition] = handled[Partition]
  /\ UNCHANGED attempted
  /\ proc' = proc \/ proc' = "up"

\* A partition's goroutine never changes under a batch but by returning, because
\* assigned only replaces goroutines that have ended.
LEMMA GroupSteps ==
  ASSUME IInv, Next
  PROVE  Returns \/ GoesOnElsewhere \/ Receives \/ Ends \/ Turns \/ Passes
<1> USE PartitionAssumption
<1>0. Partition \in Partitions /\ \A p \in Partitions : p = Partition
  OBVIOUS
<1>t. TypeOK
  BY DEF IInv
<1>1. ASSUME NEW reason \in {"exited", "killed", "fetchError", "nilConsumer", "mapFault"},
             proc = "up", Die(reason)
      PROVE  Ends
  BY <1>0, <1>1 DEF Die, Ends
<1>2. CASE PollStep
  <2>1. CASE PollLoop \/ PollRecords \/ PollCanceled \/ CheckContext \/ AllowRebalance
    BY <2>1 DEF PollLoop, PollRecords, PollCanceled, CheckContext, AllowRebalance,
       goroutineVars, Passes
  <2>2. CASE \E p \in Partitions : DispatchNext(p) \/ DispatchCancelled(p)
    BY <2>2 DEF DispatchNext, DispatchCancelled, goroutineVars, Passes
  <2>3. CASE \E p \in Partitions : DispatchSend(p)
    BY <1>0, <1>t, <2>3 DEF DispatchSend, Receives, TypeOK
  <2> QED BY <1>2, <2>1, <2>2, <2>3 DEF PollStep
<1>3. CASE \E p \in Partitions : ConsumerStep(p)
  <2>1. CASE ConsumeQuit(Partition)
    BY <1>0, <1>t, <2>1 DEF ConsumeQuit, Turns, TypeOK
  <2>2. CASE ProcessRecords(Partition)
    BY <1>0, <1>t, <2>2 DEF ProcessRecords, Returns, TypeOK
  <2>3. CASE CommitRecords(Partition)
    <3>1. CASE CommitTarget(handled[Partition], batch[Partition]) = NoRecord
      BY <1>0, <2>3, <3>1 DEF CommitRecords, Die, Ends
    <3>2. CASE CommitTarget(handled[Partition], batch[Partition]) # NoRecord
      BY <1>0, <1>t, <2>3, <3>2 DEF CommitRecords, Turns, TypeOK
    <3> QED BY <3>1, <3>2
  <2> QED BY <1>0, <1>3, <2>1, <2>2, <2>3 DEF ConsumerStep
<1>4. CASE Rebalance
  <2>1. ASSUME NEW S \in SUBSET Partitions, assigned(S) PROVE Turns \/ Passes
    <3>1. CASE Partition \in S
      <4>1. gor[Partition] = "done"
        BY <1>0, <2>1, <3>1 DEF assigned, AssignReady, CallbackFree, IInv, SafetyInv, GoroutineInv
      <4> QED BY <1>0, <2>1, <3>1, <4>1 DEF assigned, Turns
    <3>2. CASE Partition \notin S
      BY <1>0, <2>1, <3>2 DEF assigned, Passes
    <3> QED BY <3>1, <3>2
  <2>2. ASSUME NEW S \in SUBSET Partitions, lost(S) PROVE Ends \/ Passes
    BY <1>1, <2>2 DEF lost, TakeAway, Passes
  <2>3. CASE lostReturn
    BY <2>3 DEF lostReturn, goroutineVars, Passes
  <2> QED BY <1>4, <2>1, <2>2, <2>3 DEF Rebalance
<1>5. CASE ShutdownStep
  <2>1. CASE CloseLeave
    BY <1>1, <2>1 DEF CloseLeave, TakeAway, Passes
  <2>2. CASE Exit
    BY <1>1, <2>2 DEF Exit
  <2>3. CASE gracefulShutdown \/ RangeDone \/ ShutdownWaited \/ CloseReturn
    BY <2>3 DEF gracefulShutdown, RangeDone, ShutdownWaited, CloseReturn, goroutineVars, Passes
  <2>4. CASE \E p \in Partitions : ShutDownConsumer(p)
    BY <2>4 DEF ShutDownConsumer, Passes
  <2> QED BY <1>5, <2>1, <2>2, <2>3, <2>4 DEF ShutdownStep
<1>6. CASE Environment
  <2>1. CASE Kill \/ FetchError \/ MapFault
    BY <1>1, <2>1 DEF Kill, FetchError, MapFault
  <2>2. CASE Cancel \/ Restart \/ SessionExpire
    BY <2>2 DEF Cancel, Restart, SessionExpire, goroutineVars, Passes
  <2>3. CASE OtherMember(Partition)
    BY <1>0, <1>t, <2>3 DEF OtherMember, goroutineVars, GoesOnElsewhere, TypeOK
  <2> QED BY <1>0, <1>6, <2>1, <2>2, <2>3 DEF Environment
<1> QED BY <1>2, <1>3, <1>4, <1>5, <1>6 DEF Next
-----------------------------------------------------------------------------
(* The event processor as Pipeline names it is the one that was proved about. *)

\* The assumptions of EventProcessor hold of the instance.
LEMMA InstanceAssumptions ==
  EPP!EventsAssumption /\ EPP!ChargesAssumption /\ EPP!MaxCrashesAssumption
BY PipelineEventsAssumption, PipelineChargesAssumption
   DEF EPP!Enriched, EPP!InAdvance, EPP!EventsAssumption, EPP!ChargesAssumption, EPP!MaxCrashesAssumption

\* The operators of the two instances agree.
LEMMA SameOperators ==
  /\ EP!Messages = EPP!Messages /\ EP!Lookups = EPP!Lookups
  /\ EP!Success = EPP!Success /\ EP!FailedResult = EPP!FailedResult
  /\ \A ev, db : EP!EnrichEvent(ev, db) = EPP!EnrichEvent(ev, db)
  /\ \A db : EP!EnrichedEvents(db) = EPP!EnrichedEvents(db)
  /\ \A ev, p : EP!ToProduce(ev, p) = EPP!ToProduce(ev, p)
  /\ \A ev : EP!NotAPIPostProcessed(ev) <=> EPP!NotAPIPostProcessed(ev)
<1> USE DEF EP!Success, EPP!Success, EP!FailedResult, EPP!FailedResult, EP!Enriched,
            EPP!Enriched, EP!InAdvance, EPP!InAdvance
<1>1. \A ev, db : EP!EnrichEvent(ev, db) = EPP!EnrichEvent(ev, db)
  BY DEF EP!EnrichEvent, EPP!EnrichEvent, EP!Fetch, EPP!Fetch, EP!EvaluateExpression,
     EPP!EvaluateExpression, EP!NotFound, EPP!NotFound, EP!NonRetryable, EPP!NonRetryable,
     EP!NonCapturable, EPP!NonCapturable, EP!Min, EPP!Min
<1>2. \A db : EP!EnrichedEvents(db) = EPP!EnrichedEvents(db)
  BY DEF EP!EnrichedEvents, EPP!EnrichedEvents
<1>3. EP!Lookups = EPP!Lookups
  BY DEF EP!Lookups, EPP!Lookups, EP!Answers, EPP!Answers
<1>4. EP!Messages = EPP!Messages
  BY DEF EP!Messages, EPP!Messages
<1>5. \A ev, p : EP!ToProduce(ev, p) = EPP!ToProduce(ev, p)
  BY DEF EP!ToProduce, EPP!ToProduce, EP!NotAPIPostProcessed, EPP!NotAPIPostProcessed
<1>6. \A ev : EP!NotAPIPostProcessed(ev) <=> EPP!NotAPIPostProcessed(ev)
  BY DEF EP!NotAPIPostProcessed, EPP!NotAPIPostProcessed
<1> QED BY <1>1, <1>2, <1>3, <1>4, <1>5, <1>6

\* So do the steps of the goroutines.
LEMMA SameSteps ==
  ASSUME NEW r \in Offsets
  PROVE  /\ EP!RecordStep(r) => EPP!RecordStep(r)
         /\ \A m \in EP!Messages : EP!MessageStep(r, m) => EPP!MessageStep(r, m)
<1>1. ASSUME EP!Undecodable(r) PROVE EPP!RecordStep(r)
  BY <1>1 DEF EPP!RecordStep, EP!Undecodable, EPP!Undecodable
<1>2. ASSUME NEW db \in EP!Lookups, EP!Enrich(r, db) PROVE EPP!RecordStep(r)
  BY <1>2, SameOperators DEF EPP!RecordStep, EP!Enrich, EPP!Enrich
<1>3. ASSUME EP!FlagSubscriptionRefresh(r) PROVE EPP!RecordStep(r)
  BY <1>3, SameOperators DEF EPP!RecordStep, EP!FlagSubscriptionRefresh,
     EPP!FlagSubscriptionRefresh, EP!Flag, EPP!Flag
<1>4. ASSUME EP!ExpireCache(r) PROVE EPP!RecordStep(r)
  BY <1>4 DEF EPP!RecordStep, EP!ExpireCache, EPP!ExpireCache, EP!Expire, EPP!Expire
<1>5. ASSUME EP!WaitProduced(r) PROVE EPP!RecordStep(r)
  BY <1>5, SameOperators DEF EPP!RecordStep, EP!WaitProduced, EPP!WaitProduced, EP!Running,
     EPP!Running
<1>6. ASSUME EP!HandleFailure(r) \/ EP!DeadLetter(r) PROVE EPP!RecordStep(r)
  BY <1>6 DEF EPP!RecordStep, EP!HandleFailure, EPP!HandleFailure, EP!DeadLetter, EPP!DeadLetter
<1>7. ASSUME NEW m \in EP!Messages, EP!MessageStep(r, m) PROVE EPP!MessageStep(r, m)
  BY <1>7 DEF EP!MessageStep, EPP!MessageStep, EP!produceEvent, EPP!produceEvent, EP!Produce,
     EPP!Produce, EP!ProduceToDeadLetterQueue, EPP!ProduceToDeadLetterQueue
<1> QED BY <1>1, <1>2, <1>3, <1>4, <1>5, <1>6, <1>7 DEF EP!RecordStep

\* And the beginning and the end of a batch.
LEMMA SameBatches ==
  /\ EP!Init => EPP!Init
  /\ \A B : EP!ProcessEvents(B) => EPP!ProcessEvents(B)
  /\ EP!EndDelivery => EPP!EndDelivery
  /\ \A r : EPP!AccountedFor(r) => EP!AccountedFor(r)
<1> USE DEF EP!Success, EPP!Success, EP!NoPlan, EPP!NoPlan, EP!Unproduced, EPP!Unproduced
<1>1. EP!Init => EPP!Init
  BY SameOperators DEF EP!Init, EPP!Init
<1>2. \A B : EP!ProcessEvents(B) => EPP!ProcessEvents(B)
  BY DEF EP!ProcessEvents, EPP!ProcessEvents, EP!Idle, EPP!Idle
<1>3. EP!EndDelivery => EPP!EndDelivery
  BY SameOperators DEF EP!EndDelivery, EPP!EndDelivery
<1>4. \A r : EPP!AccountedFor(r) => EP!AccountedFor(r)
  BY SameOperators DEF EP!AccountedFor, EPP!AccountedFor, EP!Settled, EPP!Settled
<1> QED BY <1>1, <1>2, <1>3, <1>4
-----------------------------------------------------------------------------
(* The invariant of the two together. *)

\* ProcessEvents runs while the goroutine of the partition waits for it, on the
\* records of its batch.
LinkInv ==
  \A o \in Offsets : pc[o] # "idle" <=> gor[Partition] = "process" /\ o \in batch[Partition]

\* Whatever was tried has left a trace, whether it was processed or not.
TraceInv == attempted[Partition] \subseteq traced

\* While every service answers and no signal is sent, no failure is one to retry,
\* so every batch is processed as a whole.
HealthyInv ==
  /\ \A o \in Offsets : result[o].ok \/ ~result[o].retryable
  /\ \A o \in Offsets : pc[o] # "unprocessed"
  /\ attempted[Partition] \subseteq reported
  /\ gor[Partition] = "commit" => handled[Partition] = batch[Partition]
  /\ proc # "nilRecord"

PipelineInv ==
  /\ IInv /\ EPP!DeliveryInv /\ LinkInv /\ TraceInv
  /\ ctxDone => Signals
  /\ Healthy /\ ~Signals => HealthyInv

\* A step of the group leaves the deliveries in order.
LEMMA GroupDelivery ==
  ASSUME PipelineInv, GroupStep
  PROVE  EPP!DeliveryInv' /\ LinkInv'
<1>1. /\ IInv /\ EPP!DeliveryInv /\ LinkInv /\ Next
      /\ HandOver \/ TakeBack \/ ProcessEnds \/ Beside
  BY DEF PipelineInv, GroupStep
<1>2. batch'[Partition] \in SUBSET Offsets
  <2>1. IInv'
    BY <1>1, NextIInv
  <2> QED BY <2>1, PartitionAssumption DEF IInv, TypeOK
<1>3. EPP!DeliveryInv'
  <2>1. CASE HandOver
    BY <1>1, <1>2, <2>1, SameBatches, InstanceAssumptions, EPP!ProcessEventsInv DEF HandOver
  <2>2. CASE TakeBack \/ ProcessEnds
    BY <1>1, <2>2, SameBatches, InstanceAssumptions, EPP!EndDeliveryInv
       DEF TakeBack, ProcessEnds, EP!ReturnProcessed
  <2>3. CASE Beside
    BY <1>1, <2>3, InstanceAssumptions, EPP!BesideInv DEF Beside, eventVars, EPP!delivery
  <2> QED BY <1>1, <2>1, <2>2, <2>3
<1>4. LinkInv'
  <2>1. CASE HandOver
    BY <1>2, <2>1 DEF HandOver, EP!ProcessEvents, LinkInv
  <2>2. CASE TakeBack
    BY <2>2 DEF TakeBack, EP!ReturnProcessed, EP!EndDelivery, LinkInv
  <2>3. CASE ProcessEnds
    <3>1. gor'[Partition] = "done"
      BY <1>1, <2>3, GroupSteps DEF ProcessEnds, Returns, GoesOnElsewhere, Receives, Ends,
         Turns, Passes
    <3> QED BY <2>3, <3>1 DEF ProcessEnds, EP!EndDelivery, LinkInv
  <2>4. CASE Beside
    <3>1. /\ gor[Partition] = "process" <=> gor'[Partition] = "process"
          /\ gor[Partition] = "process" => batch'[Partition] = batch[Partition]
      BY <1>1, <2>4, GroupSteps DEF Beside, Returns, GoesOnElsewhere, Receives, Ends,
         Turns, Passes
    <3> QED BY <1>1, <2>4, <3>1 DEF Beside, eventVars, LinkInv
  <2> QED BY <1>1, <2>1, <2>2, <2>3, <2>4
<1> QED BY <1>3, <1>4

\* A goroutine that moves belongs to a batch, and stays in it.
LEMMA StepsStayInBatch ==
  ASSUME EPP!DeliveryInv, NEW r \in Offsets,
         EP!RecordStep(r) \/ \E m \in EP!Messages : EP!MessageStep(r, m)
  PROVE  /\ pc[r] # "idle" /\ pc'[r] # "idle"
         /\ \A o \in Offsets \ {r} : pc'[o] = pc[o] /\ result'[o] = result[o]
         /\ reported' = reported
<1>0. /\ pc \in [Offsets -> {"idle", "start", "flag", "expire", "wait", "failed",
                             "deadLetter", "processed", "unprocessed"}]
      /\ result \in [Offsets -> EPP!Results]
      /\ DOMAIN pc = Offsets /\ DOMAIN result = Offsets
  BY DEF EPP!DeliveryInv, EPP!DeliveryOK
<1>1. CASE EP!Undecodable(r)
  BY <1>0, <1>1 DEF EP!Undecodable
<1>2. ASSUME NEW db \in EP!Lookups, EP!Enrich(r, db)
      PROVE  /\ pc[r] # "idle" /\ pc'[r] # "idle"
             /\ \A o \in Offsets \ {r} : pc'[o] = pc[o] /\ result'[o] = result[o]
             /\ reported' = reported
  BY <1>0, <1>2 DEF EP!Enrich
<1>3. CASE EP!FlagSubscriptionRefresh(r)
  BY <1>0, <1>3 DEF EP!FlagSubscriptionRefresh
<1>4. CASE EP!ExpireCache(r)
  BY <1>0, <1>4 DEF EP!ExpireCache
<1>5. CASE EP!WaitProduced(r)
  BY <1>0, <1>5 DEF EP!WaitProduced
<1>6. CASE EP!HandleFailure(r)
  BY <1>0, <1>6 DEF EP!HandleFailure
<1>7. CASE EP!DeadLetter(r)
  BY <1>0, <1>7 DEF EP!DeadLetter
<1>8. ASSUME NEW m \in EP!Messages, EP!MessageStep(r, m)
      PROVE  /\ pc[r] # "idle" /\ pc'[r] # "idle"
             /\ \A o \in Offsets \ {r} : pc'[o] = pc[o] /\ result'[o] = result[o]
             /\ reported' = reported
  <2>1. message[r][m] \in {"produce", "failed"} /\ UNCHANGED <<pc, result, reported>>
    BY <1>8 DEF EP!MessageStep, EP!produceEvent, EP!ProduceToDeadLetterQueue
  <2>2. EPP!Running(r)
    BY <1>8, <2>1, SameOperators DEF EPP!Running
  <2>3. EPP!Producing(r)
    BY <2>2 DEF EPP!DeliveryInv, EPP!RecordInv, EPP!MessageInv
  <2> QED BY <2>1, <2>3 DEF EPP!Producing
<1> QED BY <1>1, <1>2, <1>3, <1>4, <1>5, <1>6, <1>7, <1>8 DEF EP!RecordStep

\* With healthy stores, what fails is what no retry would help.
LEMMA HealthyResults ==
  ASSUME EPP!DeliveryInv, NEW r \in Offsets, ~ctxDone, HealthyStores(r),
         result[r].ok \/ ~result[r].retryable, pc[r] # "unprocessed",
         EP!RecordStep(r) \/ \E m \in EP!Messages : EP!MessageStep(r, m)
  PROVE  (result'[r].ok \/ ~result'[r].retryable) /\ pc'[r] # "unprocessed"
<1>0. /\ pc \in [Offsets -> {"idle", "start", "flag", "expire", "wait", "failed",
                             "deadLetter", "processed", "unprocessed"}]
      /\ result \in [Offsets -> EPP!Results] /\ flagged \in [Offsets -> BOOLEAN]
      /\ DOMAIN pc = Offsets /\ DOMAIN result = Offsets /\ DOMAIN flagged = Offsets
  BY DEF EPP!DeliveryInv, EPP!DeliveryOK
<1>1. CASE EP!Undecodable(r)
  BY <1>0, <1>1 DEF EP!Undecodable
<1>2. ASSUME NEW db \in EP!Lookups, EP!Enrich(r, db)
      PROVE  (result'[r].ok \/ ~result'[r].retryable) /\ pc'[r] # "unprocessed"
  <2>1. pc[r] = "start" /\ result'[r] = EPP!EnrichEvent(event[r], db)
    BY <1>0, <1>2, SameOperators DEF EP!Enrich
  <2>2. ~result'[r].retryable
    BY <2>1 DEF HealthyStores
  <2>3. pc'[r] # "unprocessed"
    BY <1>0, <1>2 DEF EP!Enrich
  <2> QED BY <2>2, <2>3
<1>3. CASE EP!FlagSubscriptionRefresh(r)
  <2>1. PICK ok \in BOOLEAN :
          /\ flagged' = [flagged EXCEPT ![r] = ok]
          /\ result' = [result EXCEPT ![r] = IF ok THEN EP!Success ELSE EP!FailedResult]
          /\ pc' = [pc EXCEPT ![r] = IF ok THEN "expire" ELSE "wait"]
    BY <1>3 DEF EP!FlagSubscriptionRefresh, EP!Flag
  <2>2. ok
    <3>1. pc[r] = "flag" /\ pc'[r] # "flag" /\ flagged'[r] = ok
      BY <1>0, <1>3, <2>1 DEF EP!FlagSubscriptionRefresh
    <3> QED BY <3>1 DEF HealthyStores
  <2> QED BY <1>0, <2>1, <2>2 DEF EP!Success
<1>4. CASE EP!ExpireCache(r)
  BY <1>0, <1>4 DEF EP!ExpireCache
<1>5. CASE EP!WaitProduced(r)
  BY <1>0, <1>5 DEF EP!WaitProduced
<1>6. CASE EP!HandleFailure(r)
  <2>1. ~result[r].ok
    BY <1>6 DEF EP!HandleFailure, EPP!DeliveryInv, EPP!RecordInv, EPP!OutcomeInv
  <2> QED BY <1>0, <1>6, <2>1 DEF EP!HandleFailure
<1>7. CASE EP!DeadLetter(r)
  BY <1>0, <1>7 DEF EP!DeadLetter
<1>8. ASSUME NEW m \in EP!Messages, EP!MessageStep(r, m)
      PROVE  (result'[r].ok \/ ~result'[r].retryable) /\ pc'[r] # "unprocessed"
  BY <1>8 DEF EP!MessageStep, EP!produceEvent, EP!ProduceToDeadLetterQueue
<1> QED BY <1>1, <1>2, <1>3, <1>4, <1>5, <1>6, <1>7, <1>8 DEF EP!RecordStep

\* A step of the event processor keeps the invariant.
LEMMA EventStepInv ==
  ASSUME PipelineInv, NEW r \in Offsets, EventStep(r)
  PROVE  PipelineInv'
<1> DEFINE Moves == EP!RecordStep(r) \/ \E m \in EP!Messages : EP!MessageStep(r, m)
<1>1. UNCHANGED vars /\ Moves /\ UNCHANGED traced /\ (Healthy => HealthyStores(r))
  BY DEF EventStep
<1> HIDE DEF Moves
<1>2. UNCHANGED <<proc, ctxDone, gor, batch, handled, attempted>>
  BY <1>1 DEF vars, goroutineVars
<1>3. IInv'
  BY <1>1, NextIInv DEF PipelineInv
<1>4. EPP!DeliveryInv'
  <2>1. CASE EP!RecordStep(r)
    BY <2>1, SameSteps, InstanceAssumptions, EPP!RecordStepInv DEF PipelineInv
  <2>2. ASSUME NEW m \in EP!Messages, EP!MessageStep(r, m) PROVE EPP!DeliveryInv'
    <3>1. m \in EPP!Messages /\ EPP!MessageStep(r, m)
      BY <2>2, SameSteps, SameOperators
    <3> QED BY <3>1, InstanceAssumptions, EPP!MessageStepInv DEF PipelineInv
  <2> QED BY <1>1, <2>1, <2>2 DEF Moves
<1>5. /\ pc[r] # "idle" /\ pc'[r] # "idle"
      /\ \A o \in Offsets \ {r} : pc'[o] = pc[o] /\ result'[o] = result[o]
      /\ reported' = reported
  BY <1>1, StepsStayInBatch DEF PipelineInv, Moves
<1>6. LinkInv' /\ TraceInv'
  BY <1>1, <1>2, <1>5 DEF PipelineInv, LinkInv, TraceInv
<1>7. ASSUME Healthy, ~Signals PROVE HealthyInv'
  <2>1. HealthyInv /\ ~ctxDone
    BY <1>7 DEF PipelineInv
  <2>2. (result'[r].ok \/ ~result'[r].retryable) /\ pc'[r] # "unprocessed"
    BY <1>1, <1>7, <2>1, HealthyResults DEF PipelineInv, HealthyInv, Moves
  <2> QED BY <1>2, <1>5, <2>1, <2>2 DEF HealthyInv
<1>8. ctxDone' => Signals
  BY <1>2 DEF PipelineInv
<1> QED BY <1>3, <1>4, <1>6, <1>7, <1>8 DEF PipelineInv

\* A step of the group is one of six for the partition, and which one decides
\* what it is for the records.
LEMMA GroupStepKinds ==
  ASSUME IInv, GroupStep
  PROVE  \/ Returns /\ TakeBack
         \/ GoesOnElsewhere /\ Beside
         \/ Receives /\ HandOver
         \/ Ends /\ ProcessEnds
         \/ Turns /\ Beside
         \/ Passes /\ Beside
<1>1. Next /\ (HandOver \/ TakeBack \/ ProcessEnds \/ Beside)
  BY DEF GroupStep
<1>2. Returns \/ GoesOnElsewhere \/ Receives \/ Ends \/ Turns \/ Passes
  BY <1>1, GroupSteps
<1> QED BY <1>1, <1>2 DEF Returns, GoesOnElsewhere, Receives, Ends, Turns, Passes,
    HandOver, TakeBack, ProcessEnds, Beside

\* A batch that is taken back is one whose records are all settled.
LEMMA ReturnedAreAccountedFor ==
  ASSUME PipelineInv, TakeBack, NEW o \in batch[Partition]
  PROVE  o \in Offsets /\ pc[o] \in {"processed", "unprocessed"} /\ EP!AccountedFor(o)
<1>1. o \in Offsets
  BY PartitionAssumption DEF PipelineInv, IInv, TypeOK
<1>2. pc[o] \in {"processed", "unprocessed"}
  BY <1>1 DEF PipelineInv, LinkInv, TakeBack, EP!ReturnProcessed
<1>3. EPP!OutcomeInv(o)
  BY <1>1 DEF PipelineInv, EPP!DeliveryInv, EPP!RecordInv
<1>4. EPP!AccountedFor(o)
  BY <1>2, <1>3 DEF EPP!OutcomeInv, EPP!AccountedFor
<1> QED BY <1>1, <1>2, <1>4, SameBatches

\* Traces are kept, and every attempt adds its own.
LEMMA GroupTrace ==
  ASSUME PipelineInv, GroupStep
  PROVE  TraceInv'
<1>0. IInv /\ TraceInv
  BY DEF PipelineInv
<1>1. CASE Returns /\ TakeBack
  <2>1. batch[Partition] \subseteq traced'
    BY <1>1, ReturnedAreAccountedFor DEF TakeBack
  <2> QED BY <1>0, <1>1, <2>1 DEF Returns, TakeBack, TraceInv
<1>2. CASE GoesOnElsewhere /\ Beside
  <2>1. committed[Partition] \in Elsewhere
    BY <1>2 DEF GoesOnElsewhere, Elsewhere
  <2> QED BY <1>0, <1>2, <2>1 DEF GoesOnElsewhere, Beside, TraceInv
<1>3. CASE Receives /\ HandOver
  BY <1>0, <1>3 DEF Receives, HandOver, TraceInv
<1>4. CASE Ends /\ ProcessEnds
  BY <1>0, <1>4 DEF Ends, ProcessEnds, TraceInv
<1>5. CASE (Turns \/ Passes) /\ Beside
  BY <1>0, <1>5 DEF Turns, Passes, Beside, TraceInv
<1> QED BY <1>0, <1>1, <1>2, <1>3, <1>4, <1>5, GroupStepKinds

\* Batches processed as a whole have a record to commit.
LEMMA WholeBatchesCommit ==
  ASSUME IInv, gor[Partition] = "commit", handled[Partition] = batch[Partition]
  PROVE  CommitTarget(handled[Partition], batch[Partition]) # NoRecord
<1>1. PICK records : records = batch[Partition]
  OBVIOUS
<1>2. records \in SUBSET (0 .. LogSize) /\ records # {}
  BY <1>1, PartitionAssumption DEF IInv, TypeOK, Offsets, SafetyInv, GoroutineInv
<1>3. PICK r \in records : TRUE
  BY <1>2
<1>4. CommitTarget(records, records) # NoRecord
  BY <1>2, <1>3, CommitTargetIsMaximal
<1> QED BY <1>1, <1>4

\* A step of the group keeps a healthy service healthy.
LEMMA GroupHealth ==
  ASSUME IInv, LinkInv, HealthyInv, GroupStep, EPP!DeliveryInv
  PROVE  HealthyInv'
<1>1. CASE Returns /\ TakeBack
  <2>1. batch[Partition] \subseteq {o \in Offsets : pc[o] = "processed"}
    BY <1>1, PartitionAssumption
       DEF IInv, TypeOK, LinkInv, HealthyInv, TakeBack, EP!ReturnProcessed
  <2>2. {o \in Offsets : pc[o] = "processed"} \subseteq batch[Partition]
    BY DEF LinkInv
  <2>3. /\ \A o \in Offsets : result'[o].ok /\ pc'[o] = "idle"
        /\ reported' = reported \cup {o \in Offsets : pc[o] = "processed"}
    BY <1>1 DEF TakeBack, EP!ReturnProcessed, EP!EndDelivery, EP!Success
  <2> QED BY <1>1, <2>1, <2>2, <2>3 DEF Returns, TakeBack, HealthyInv
<1>2. CASE GoesOnElsewhere /\ Beside
  <2>1. committed[Partition] \in Elsewhere
    BY <1>2 DEF GoesOnElsewhere, Elsewhere
  <2> QED BY <1>2, <2>1 DEF GoesOnElsewhere, Beside, eventVars, HealthyInv
<1>3. CASE Receives /\ HandOver
  BY <1>3 DEF Receives, HandOver, EP!ProcessEvents, HealthyInv
<1>4. CASE Ends /\ ProcessEnds
  <2>1. \A o \in Offsets : result'[o].ok /\ pc'[o] = "idle"
    BY <1>4 DEF ProcessEnds, EP!EndDelivery, EP!Success
  <2>2. proc' # "nilRecord"
    BY <1>4, WholeBatchesCommit DEF Ends, HealthyInv
  <2> QED BY <1>4, <2>1, <2>2 DEF Ends, ProcessEnds, HealthyInv
<1>5. CASE (Turns \/ Passes) /\ Beside
  BY <1>5 DEF Turns, Passes, Beside, eventVars, HealthyInv
<1> QED BY <1>1, <1>2, <1>3, <1>4, <1>5, GroupStepKinds

\* A step of the group keeps the invariant.
LEMMA GroupStepInv ==
  ASSUME PipelineInv, GroupStep
  PROVE  PipelineInv'
<1>1. IInv'
  BY NextIInv DEF PipelineInv, GroupStep
<1>2. EPP!DeliveryInv' /\ LinkInv' /\ TraceInv'
  BY GroupDelivery, GroupTrace
<1>3. ctxDone' => Signals
  BY DEF GroupStep
<1>4. Healthy /\ ~Signals => HealthyInv'
  BY GroupHealth DEF PipelineInv
<1> QED BY <1>1, <1>2, <1>3, <1>4 DEF PipelineInv

\* The service starts with no record in hand.
LEMMA PipelineInitInv == PipelineInit => PipelineInv
<1> SUFFICES ASSUME PipelineInit PROVE PipelineInv
  OBVIOUS
<1>1. Init /\ EP!Init /\ reported = {} /\ traced = {}
  BY DEF PipelineInit
<1>2. IInv
  BY <1>1, InitIInv
<1>3. EPP!DeliveryInv
  BY <1>1, SameBatches, InstanceAssumptions, EPP!InitInv
<1>4. /\ \A o \in Offsets : pc[o] = "idle" /\ result[o].ok
      /\ gor[Partition] = "done" /\ attempted[Partition] = {}
      /\ proc = "up" /\ ctxDone = FALSE
  BY <1>1, PartitionAssumption DEF EP!Init, EP!Success, Init, ProcessInit, NoOffsets
<1>5. LinkInv /\ TraceInv /\ HealthyInv
  BY <1>4 DEF LinkInv, TraceInv, HealthyInv
<1> QED BY <1>2, <1>3, <1>4, <1>5 DEF PipelineInv

\* The invariant of the service is kept by every step, and by none.
LEMMA PipelineNextInv == PipelineInv /\ [PipelineNext]_pipelineVars => PipelineInv'
<1> SUFFICES ASSUME PipelineInv, [PipelineNext]_pipelineVars PROVE PipelineInv'
  OBVIOUS
<1>1. CASE GroupStep
  BY <1>1, GroupStepInv
<1>2. ASSUME NEW r \in Offsets, EventStep(r) PROVE PipelineInv'
  BY <1>2, EventStepInv
<1>3. CASE UNCHANGED pipelineVars
  <2>1. UNCHANGED <<vars, eventVars, reported, traced>>
    BY <1>3 DEF pipelineVars
  <2>2. IInv'
    BY <2>1, NextIInv DEF PipelineInv
  <2>3. EPP!DeliveryInv'
    BY <2>1, InstanceAssumptions, EPP!BesideInv DEF PipelineInv, eventVars, EPP!delivery
  <2>4. UNCHANGED <<gor, batch, handled, attempted, proc, ctxDone, pc, result>>
    BY <2>1 DEF vars, goroutineVars, eventVars
  <2>5. LinkInv' /\ TraceInv' /\ (HealthyInv => HealthyInv')
    BY <2>1, <2>4 DEF PipelineInv, LinkInv, TraceInv, HealthyInv
  <2> QED BY <2>2, <2>3, <2>4, <2>5 DEF PipelineInv
<1> QED BY <1>1, <1>2, <1>3 DEF PipelineNext
-----------------------------------------------------------------------------
(* The theorems. *)

\* The consumer group and the event processor keep their invariants when they
\* are wired together, and agree on which records are being processed.
THEOREM PipelineInvariance == PipelineSpec => []PipelineInv
<1>1. PipelineInit => PipelineInv
  BY PipelineInitInv
<1>2. PipelineInv /\ [PipelineNext]_pipelineVars => PipelineInv'
  BY PipelineNextInv
<1> QED BY <1>1, <1>2, PTL DEF PipelineSpec

\* No event disappears silently: whatever fails, crashes or is rebalanced, each
\* record a committed offset passes was produced, dead lettered or reported.
THEOREM NothingIsLostSilently == PipelineSpec => []NothingLostSilently
<1>1. PipelineInv => NothingLostSilently
  BY PartitionAssumption
     DEF PipelineInv, TraceInv, IInv, SafetyInv, CoverInv, NothingLostSilently
<1> QED BY <1>1, PipelineInvariance, PTL

\* While every service answers and no signal is sent, commits pass only over
\* records some delivery processed, beside whatever produce goroutines and dead
\* letters it had, and none of them brings the process down.
THEOREM HealthyCommits == PipelineSpec => []HealthyCommitsAreProcessed
<1>1. PipelineInv => HealthyCommitsAreProcessed
  BY PartitionAssumption
     DEF PipelineInv, HealthyInv, IInv, SafetyInv, CoverInv, HealthyCommitsAreProcessed
<1> QED BY <1>1, PipelineInvariance, PTL
=============================================================================
