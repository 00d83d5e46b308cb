# Formal models of the Lago events processor

TLA+ models of `events-processor/`, the Go service that consumes raw usage events
from Kafka, enriches them with what Postgres knows of the customer's plan, and
produces them to the topics the billing engine and ClickHouse read. The rest of
the repository (compose files, deploy scripts, connector and proxy configuration)
configures other programs and holds no logic that could be modelled.

Everything is checked with TLC on small instances. Every safety property, action
property and refinement is also proved with TLAPS, for every number of partitions,
records, events, subscriptions, filters and signals. What is left to TLC alone is
liveness.

## 1. Inventory

| component | source | state | operations | what is hard |
|---|---|---|---|---|
| consumer group | `config/kafka/consumer.go` | the unlocked `consumers` map, a goroutine and three channels per partition, the client's fetch position, the committed offset | `poll`, `pollRecords`, `assigned`, `lost`, `consume`, `processRecordsAndCommit`, `gracefulShutdown` | five kinds of goroutine; callbacks racing with polls and with the shutdown; fenced commits; crashes between processing and commit; blocking sends |
| commit choice | `findMaxCommitableRecord` | none | the offset to commit for a batch processed in part | order of completion, gaps, nothing to commit |
| event processor | `processors/events_processor/processor.go` | per batch: processed records under a mutex, a goroutine per record, one per message | `ProcessEvents`, `processEvent` | early returns beside running goroutines; retry, dead letter and capture decisions; redelivery |
| enrichment | `enrichment_service.go` | none | `EnrichEvent` | which of several failures decides, and whether it is retried |
| producers | `event_producer_service.go`, `config/kafka/producer.go` | none | produce, fall back to the dead letter topic, then to the error tracker | the fallback failing too |
| refresh flag and charge cache | `subscription_refresh_service.go`, `cache_service.go`, `models/stores.go`, `models/charge_cache.go` | Redis | `Flag`, `ExpireKey` | the stores keep the application's context, which a shutdown cancels before batches are drained; several processes of the API fill the cache meanwhile |
| charge filters | `models/flat_filters.go` | rows in no particular order | `MatchingFilter` | several matching rows, nested filters, values compared as printed |
| subscription lookup | `models/subscriptions.go` | Postgres | `FetchSubscription` | the millisecond of an upgrade, redelivery after an upgrade |
| timestamps | `utils/time.go`, `models/event.go` | none | `ToTime`, `ToFloat64Timestamp`, `CustomTime` | float64 rounding, truncation; the 12 hours of retries rest on `ingested_at`, which each dead letter rewrites |
| results | `utils/result.go` | none | success, retryable and capturable failures | |
| startup and shutdown | `main.go`, `processors/main_processor.go` | connections, deferred calls, one context | signal, initialisation, deferred closes | a failure or a signal between any two statements; closes against running batches |
| tracing | `config/tracing` | the provider | choice, start, stop | a provider that could not be made |
| environment, error tracker, connections | `utils/env.go`, `utils/error_tracker.go`, `config/kafka/kafka.go`, `config/redis`, `config/database` | reports waiting in the Sentry client | constructors, `CaptureError`, `LogAndPanic` | which of them sees the cancelled context |

How they interact: `poll` hands the records of a partition over an unbuffered
channel to that partition's goroutine, which calls `ProcessEvents` with the batch
and commits according to what comes back. The client runs `assigned` and `lost`
on its own goroutine, never between a poll that returned records and
`AllowRebalance` (`BlockRebalanceOnPoll`). A signal cancels one context that the
poll loop, `Start` and the Redis stores share. `ProcessEvents` runs a goroutine
per record, which runs a goroutine per output message.

What makes it correct, in one sentence each:

- an event is never skipped without having been tried, whatever rebalances,
  expires or crashes, and a commit never moves back (ConsumerGroup);
- a revoked partition is drained before another member may have it, and neither
  the callbacks nor the shutdown wait for ever (ConsumerGroup);
- the offset committed for a batch is the end of its processed prefix
  (CommitOffsets, FindMaxCommitable);
- an event that will be committed has all its messages out, or is on the dead
  letter topic or in the error tracker, its usage is flagged for refresh or its
  failure reported, another delivery of what was already produced is asked for only
  when the flag failed, and retries end (EventProcessor);
- while every service answers, commits pass over processed events only and a
  group that keeps its partition gets to the end of the log; whatever fails, no
  event disappears without a trace (Pipeline);
- each charge puts the event in its most specific bucket, and groups it by the
  values its filter lists (FlatFilters);
- whoever finds the cached usage gone is told of every event that expired it
  (ChargeCache);
- batches find their stores open, the deferred calls close everything but the
  producers, no report comes after the flush, and a signal ends the process
  (Lifecycle);
- an event is charged to the subscription that was current, also when it is
  delivered again later (Subscriptions).

`PROJECT.json` lists the hazards behind these, each at its line.

## 2. Modules

| module | models | extends |
|---|---|---|
| `CommitOffsets` | `findMaxCommitableRecord` and the length test before it, on sets of offsets | |
| `FindMaxCommitable` | the same as the loops of the code, over sequences in completion order, as recursive functions | `ConsumerGroup` |
| `ConsumerGroup` | one member of the group, its client, the broker and the other members | `CommitOffsets` |
| `AtLeastOnce` | abstract: what a member of the group promises | |
| `ConsumerGroupRefinement` | the mapping under which `ConsumerGroup` implements `AtLeastOnce` | `ConsumerGroup`, instantiates `AtLeastOnce` |
| `Pipeline` | one partition of the wired service | `ConsumerGroup`, instantiates `EventProcessor` |
| `Lifecycle` | one process from `main` to its end | instantiates `AtLeastOnce` |
| `Redelivery` | `ConsumerGroup` with the history of what was reported processed | `ConsumerGroup` |
| `EventProcessor` | a batch: record goroutines, message goroutines, retries, shutdown and crash | |
| `ChargeCache` | one entry of the charge usage cache | |
| `FlatFilters` | matching and choice of the charge filter, grouping | |
| `Timestamps` | the conversions of an event's timestamp and of `ingested_at` | |
| `Subscriptions` | the subscription query against the API's history of subscriptions | `Timestamps` |
| `FindMaxCommitableProofs`, `ConsumerGroupProofs`, `EventProcessorProofs`, `ChargeCacheProofs`, `FlatFiltersProofs`, `LifecycleProofs`, `SubscriptionsProofs`, `PipelineProofs` | theorems | the module they are named for; `ConsumerGroupProofs` is also about `CommitOffsets` and extends `ConsumerGroupRefinement`, `PipelineProofs` also extends `ConsumerGroupProofs` and instantiates `EventProcessorProofs` |
| `MC...` | constants and symmetries of the runs | |

### ConsumerGroup

One action per step between which another goroutine can run:

- the poll goroutine (`pollPC`): `PollLoop`, `PollRecords`/`PollCanceled`/
  `FetchError`, `CheckContext`, then per partition `DispatchNext` (the map lookup)
  and `DispatchSend` or `DispatchCancelled` (the two branches of the select), and
  `AllowRebalance`;
- each partition goroutine (`gor`): `ConsumeQuit`, `ProcessRecords`,
  `CommitRecords`. `ProcessRecords` returns any subset of the batch.
  `CommitRecords` succeeds only for a partition the member owns in the current
  generation, and may fail (the code logs and goes on). A nil record ends the
  process;
- the callbacks: `assigned`, `lost` (take the consumers out, close the quit
  channels) and `lostReturn` (the deferred wait);
- the main goroutine (`mainPC`): `gracefulShutdown`, `ShutDownConsumer`,
  `RangeDone`, `ShutdownWaited`, `CloseLeave`, `CloseReturn`, `Exit`;
- the environment: `Cancel`, `Kill`, `Restart`, `SessionExpire`, `OtherMember`.

`quit` and `done` channels are closed only once in the code (`sync.Once`, `defer`), so they
are sets. `gracefulShutdown` ranges over the map without a lock while a callback
may write it. That is undefined in Go, so it is a choice: the runtime aborts
(`MapFault`), or the range passes some of the new entries by.

External assumptions, from how the code uses franz-go and Kafka: callbacks are
serialised and wait for `AllowRebalance`; a rebalance or `Close` revokes what the
client fetches through the registered callback; a partition starts from the
committed offset when assigned; the broker accepts commits of the current
generation only; the context `consume` receives is the client's, which is
cancelled only after `Close` has run the callbacks; `PollRecords` moves the fetch
position past what it returns and nothing moves it back.

### AtLeastOnce and ConsumerGroupRefinement

`AtLeastOnce` knows which partitions have a batch in hand, which offsets were
tried and which offset is committed: an offset is committed only when everything
before it was tried, commits only advance, and a process stops by itself only with
no batch in hand. `ConsumerGroup` implements it with `busy` the partitions whose
goroutine is between the receive of a batch and the return of `CommitRecords`.

### Pipeline

`ConsumerGroup` and `EventProcessor` share the process: the step that hands a batch
to a partition goroutine is `ProcessEvents` (`HandOver`), the step in which
`ProcessRecords` returns is `ReturnProcessed`, with exactly its records
(`TakeBack`), and the context of the Redis stores is the context of the group
(`storeCtx <- ~ctxDone`), as `StartProcessingEvents` wires them. `Healthy` leaves out
the failures of Postgres, Redis and Kafka, except those of a call under a
cancelled context. What healthy services may still answer stays: a metric that does not
exist, an expression without a value, a timestamp that cannot be read, a message that
JSON cannot hold; such events end on the dead letter topic or in the error tracker. The
produce goroutines run beside the flag and the expiry, as everywhere. `Signals` allows
SIGTERM. `Charges` are the charges of the plans, each with its messages and its cache
expiry: any in the proofs, one in `pipeline_healthy` and `pipeline_shutdown`, none in
`pipeline_failures`, where a charge would not fit with three records. The records are younger than 12 hours.
What another member commits counts as processed by it. A record is *traced* when
its messages were settled, or it was dead-lettered, or its error was handed to the
Sentry client.

### Lifecycle

`Steps` are the statements of `main` and `StartProcessingEvents` that can fail, need
undoing or wait; `Outcomes` says how each may end. `Step` runs the next one: it
pushes what the statement defers, or reports and panics (`LogAndPanic`), or panics.
`Consume` is the consumer group as `AtLeastOnce` describes it, `StartReturns` its
shutdown. `Deferred` is what each statement defers and `Undone` what a deferred call
closes. `Unwind` runs the deferred calls, last first; `Flush` gets the reports out or
gives up after its two seconds. A panic of another goroutine (`WorkerPanic`) runs none. `Signal` and `HandleSignal` are `setupGracefulShutdown`: a
channel of capacity one and a goroutine that takes one signal. `CloseHangs` is the
hang of `consumer_shutdown`. Connections that a constructor opened before it failed
are left out: nobody holds them.

### ChargeCache

One key of the cache. An event starts (`Start`), its message reaches ClickHouse within
`Lag` ticks of the expiry (`Propagate`, external), and `ExpireKey` gives the entry
`Expiration` ticks, which does nothing when there is no entry. The cache is shared by
the processes of the API, its workers and its clock (`docs/architecture.md`), external
here: any of the `Readers` asks ClickHouse when it finds no entry (`Query`) and writes
the answer later (`Fill`), over whatever another one has written meanwhile, and without
expiry. `Lag < Expiration` is the assumption behind `EXPIRATION_TIME`; a
slot is used again by another event once its event is counted.

### EventProcessor

`pc[r]` follows the goroutine of record `r`: `ProcessEvents`, then `Undecodable` or
`Enrich` (with any answer of Postgres and of the expression engine),
`FlagSubscriptionRefresh`, `ExpireCache`, `WaitProduced` (the deferred
`errgroup.Wait`), and for failures `HandleFailure` and `DeadLetter`.
`message[r][m]` is the goroutine of one output message: `produceEvent`, then
`ProduceToDeadLetterQueue`. `ReturnProcessed` ends the batch. `Cancel` kills the
context of the stores in the middle of a batch, `Crash` the whole process, `Age`
lets an event become older than 12 hours. Any record may be delivered again, also
one that was committed: another member may have fetched it before. `EnrichEvent` keeps the order of the
lookups, because the first failure decides whether the event is retried and
captured. Payloads, keys and the enriched fields are left out.

### FlatFilters, Timestamps, Subscriptions

`FlatFilters` adds rows one at a time, in any order, and looks at the bucket after
each. A row carries its pricing group keys; the fields that are only copied into the
bucket, pay-in-advance among them, are left out. The rows of a charge and its matching
rows are sets of places in the answer, and `BestFilter` is the loop over them, from
place to place, with 0 for the nil `bestFilter`. `Sprint` is what `fmt.Sprintf("%v")`
makes of a JSON value: two values may print the same.

`Timestamps` works in ticks. All that matters of float64 is that its spacing at
today's epoch divides a second and not a millisecond, and that the spacing of a
thousand times a timestamp divides a millisecond and is slightly coarser: `Ulp`,
`ProductUlp`. `UnmarshalJSON` and `MarshalJSON` are those of `CustomTime`: several
forms are read, one is written, without the fraction of a second. `Subscriptions` lets the API start, upgrade and terminate
subscriptions at chosen ticks and asks what the query answers for an event.

## 3. Runs

| run | instance | distinct states | result |
|---|---|---|---|
| `consumer_safety` | 2 partitions, 2 records each, polls of up to 3; loops on up to 5 offsets with gaps | 917,909 | all safety properties and the inductive invariant hold, `AtLeastOnce` is implemented, the loops agree with `CommitTarget` |
| `consumer_liveness` | 2 partitions, with 2 records and 1 record to go, polls of 1 | 331,191 | no deadlock but the one below |
| `consumer_shutdown` | 1 partition | | **violation**: the shutdown can hang |
| `redelivery` | 1 partition, 3 records | | **violation**: a record left for a retry is passed over |
| `event` | 1 record of every kind, 1 charge, 1 signal or crash | 25,398 | accounting, flagging, repeating and waiting hold, batches return, retries end |
| `flat_filters` | 2 charges, 2 keys, up to 3 rows | 69,904 | the bucket is the most specific, groups are values of the filter |
| `subscriptions` | 6 milliseconds, up to 3 subscriptions | 432,432 | the choice is right and stable, the conversions are close |
| `pipeline_healthy` | 1 partition, 2 records, polls of 1, 1 charge, no failures | 41,032 | commits are processed, the log is committed |
| `pipeline_failures` | 1 partition, 3 records, polls of 2, no charge, any failure | 1,017,585 | nothing is lost without a trace |
| `pipeline_shutdown` | 1 record, 1 charge, no failures, a signal | | **violation**: a shutdown crashes |
| `lifecycle` | every configuration, 1 partition, 2 signals | 39,330 | closes, reports and signals are handled |
| `charge_cache` | 2 events, 2 readers, expiry 3, lag 2 | 11,899 | reads count the events that expired the entry, a quiet cache catches up |

Bounds. Two partitions are what it takes for a poll, a rebalance and the shutdown
to treat one partition while another is in use; two records per partition let a
batch be followed by another one of the same partition, and a batch be processed
in part. In `consumer_liveness` the process joins a group that has already tried and
committed the first record of one of the two partitions (`ResumedInit` in
`MCConsumerGroup`): of the other there are two records, and polls of one, so that a
second batch is fetched while the goroutine still processes or commits the first, and
the dispatcher blocks on it, with another partition to serve, lose or shut down
beside. Three records in `redelivery` give the failed record one before and one
after it. Five offsets with gaps reach every shape of a processed prefix. One
record suffices for `event` since the goroutines of two records share nothing but
the processed slice, whose order `LoopsAgree` covers, and the wait, which the
batches of two records in `pipeline_failures` have; one charge, since the message
goroutines of two charges share nothing but the wait.
Three rows and two keys give a parent, a child and a competing filter. A
millisecond of 8 ticks and float64 values 3 ticks apart have values just below,
at and just above a millisecond. `MaxCrashes` bounds crashes and signals: a
counter that grows for ever would not change what a further crash does.
Three records and polls of two let a record be left in one batch and passed over by
the commit of the next in `pipeline_failures`. Where nothing is left two records and polls of one are
enough, which makes room for a charge and for events of both sources in
`pipeline_healthy`.
`lifecycle` needs one partition, since its group is abstract, and a second signal to
find nobody waiting for it. Two events, two readers and a lag one tick below the expiry
give the cache every order of two arrivals, two expiries and two overlapping reads.

Deadlock checking is off where a model may stop: all records committed
(`EventProcessor`), the process ended (`Lifecycle`), all rows fetched, no room for
another subscription.

Fairness. `ConsumerGroup!FairSpec`: a goroutine that can run does (the Go
scheduler), processing and commits return, the client finishes a callback and
`Close`. Nothing is assumed of the broker, of signals, of crashes or of records
arriving. `EventProcessor!FairSpec`: goroutines run, calls return, a stopped
process is started again, time passes. No delivery is assumed: `RetriesEnd` only
says that a record that *is* delivered over and over is committed in the end.
`Pipeline!PipelineFairSpec`: the poll goroutine, the partition goroutine and the
record goroutines go on. `Lifecycle!FairSpec`: the main goroutine and the signal's
goroutine go on, batches end, and a shutdown that could return again and again does
(strong fairness, since the abstract group may take another batch first;
`ShutdownEnds` checks the detailed one). `ChargeCache!FairSpec`: time passes,
messages arrive, calls return; nobody has to send an event, to read the usage or to
write what was read.

### What the violations show

1. `redelivery`. When a record fails with a retryable error, only the records
   before it are committed, but the client's position has already moved past it.
   The next batch of the partition commits beyond it, and it is not consumed again
   ("It will be consumed again and reprocessed", `processor.go:79-80`). It comes
   back only if the process stops or loses the partition before that next commit.
2. `consumer_shutdown`. A context cancelled between the return of `PollRecords`
   with records and the check at `consumer.go:179` makes `pollRecords` return
   without `AllowRebalance`. `Close` then waits for a rebalance that stays blocked.
   `ShutdownEnds` in `consumer_liveness` shows that this is the only way to hang.
3. `pipeline_shutdown`. The signal cancels the context the Redis stores keep
   (`main_processor.go:180`), while the batches in hand go on. Their `Flag` fails and
   the record is left for a retry. When the record left is the first of its batch,
   for this or any other retryable failure, `findMaxCommitableRecord` returns nil,
   which is handed to `CommitRecords`: the process crashes, here although every
   service is healthy.

### Limits of what holds

Modelling also showed where a guarantee ends. The passing properties state what is
left of it:

- `ToTime` truncates a float64 that is often just below the millisecond it stands for
  (1741007009.346 becomes .345), `ToFloat64Timestamp` does not. `TimesAreClose` says how
  early the looked-up time can be: an event in the first millisecond of a
  subscription can be looked up before it.
- `EXPIRE` restarts the five seconds at every event, so the cached usage of a charge
  with an event every few seconds is not removed: `QuietCacheCatchesUp` needs a pause.
- `EXPIRE` of a missing key does nothing. If the API has read ClickHouse before the
  event arrived and writes afterwards, the value stays, without expiry, until the
  next event of that charge: `ReadsCountTheEvent` is about events that found an entry.
- Two processes of the API may miss the entry together. If one fills it, an event finds
  it, and the other writes only then what it was told before the event, that write
  replaces the entry and its five seconds, and stays until the next event. This is why
  `QuietCacheCatchesUp` has the hypothesis `NoReadStraddlesAHit`.
- A panic of the poll goroutine or of a partition's runs no deferred call of `main`:
  `ReportsPrecedeFlush` is about the main goroutine. It says that no report comes too late
  for `sentry.Flush`, not that all are sent: the flush gives up after two seconds.
- The four producers are opened and never closed, and of telemetry only the exporter is
  shut down, not what batches spans in front of it or serves the Kafka clients'
  instrumentation: `OnlyProducersStayOpen` leaves the producers out, and what the SDK
  holds inside is not modelled.
- Filters compare and group by what `%v` prints. A JSON 1000000 prints as 1e+06: it does
  not match a filter on 1000000 and is grouped apart from the string. How values print is
  the constant `Sprint`; `GroupsAreFilterValues` only says that both places print alike.
- A record whose flag failed after its messages went out sends them again when it is
  delivered or replayed: `RepeatedOnlyForTheFlag` says that this is the only reason for
  which the service itself asks for another delivery then. A crash or a rebalance before
  the commit repeats messages too, as at-least-once delivery does.
- `MapFault` may abort the process in the middle of a shutdown: `LostFindsConsumer` says
  nothing of that. Nor does `CommitCoversHandled` of what the commit of the *next* batch
  passes over, which is `redelivery`.
- An event without `ingested_at` counts as older than 12 hours from the start and is
  never left for a retry. `ReplaysKeepIngestedAt` says that this does not change.

### Mutants

Every property of a passing run is shown to depend on the code by a faulty variant
of a definition, kept beside it (`\* Faulty variant: ...`): a dropped wait, a
non-blocking send, an unfenced commit, a forgotten quit channel, `NULLS LAST`, and
so on. `PROJECT.json` pairs them.

## 4. Proofs

`ConsumerGroupProofs` begins with the choice of the offset: for any finite set of
offsets, what `CommitTarget` returns is a processed record of the batch with no
unprocessed one before it (`CommitTargetIsSafe`), no later record would do
(`CommitTargetIsMaximal`), and a further processed record never moves it back
(`CommitTargetIsMonotone`). They rest on `MaxOfOffsets`, the existence of the maximum
of a non-empty set of naturals bounded above.

`FindMaxCommitableProofs`, for any `MaxOffset < MaxInt64`: `LoopsComputeCommitTarget`
(`FindTheTarget`, which `LoopsAgree` states in the initial state), that the loops and
the length test of the code make that same choice. A loop is a recursive function, of
which nothing is known but that it is *some* function that satisfies its equation, if
there is one. `LoopExists` proves that there is, from the least place at which it
could not go on; `MinUnprocessedInv` and `BestRecordsInv` then carry the invariant of
each loop from place to place (`IsMinUpTo`, the least unprocessed offset so far, and
`IsBestUpTo`, the largest processed one below it so far). `LengthsTellAll` counts:
since no record completes twice, equal lengths mean equal contents, and only then.

The safety of the consumer group, in `ConsumerGroupProofs`, is for every
`Partitions`, `LogSize` and `MaxPoll`, from the assumptions `LogSize \in Nat`,
`MaxPoll \in Nat \ {0}` and `None \notin Partitions`:

| theorem | property |
|---|---|
| `SafetyInvariance` | `TypeOK` and `SafetyInv` |
| `NothingSkippedUntried` | `NoUnattemptedCommit` |
| `RevocationDrains` | `RevokedIsQuiescent` |
| `ConsumersAreFound` | `LostFindsConsumer` |
| `CommitsOnlyAdvance` | `CommittedNeverMovesBack` |
| `CommitsCoverHandled` | `CommitCoversHandled` |
| `MapIsStable` | `MapStableDuringDispatch` |

None of these properties is inductive. That a commit skips nothing depends on
everything before a batch having been tried, which depends on the order in which
fetches were handed over, which depends on the rebalance being blocked meanwhile.
`SafetyInv` says so in four parts:

- `PollerInv`: records in the hands of `pollRecords` keep callbacks out, so their
  partitions still have their consumers;
- `GoroutineInv`: a partition that is neither fetched nor being revoked has no
  running goroutine, and a goroutine about to commit has tried its batch;
- `CoverInv`: every offset before a commit, a batch or a fetch has been tried or is
  held by the member. Before the *position* this holds only as long as no cancelled
  context has dropped records, after which nothing more is polled;
- `OrderInv`: for an owner, commit, batch, fetch and position follow each other.

There is one lemma per action (one for all actions that only move a program
counter, one for all that only give up ownership), and `NextIInv` puts them
together. The action properties follow from the invariant and from `WhoCommits`,
which says which steps can change a committed offset.

Its last part, from the same assumptions, is `KeepsPromise`: `ConsumerGroup`
implements `AtLeastOnce` (`ImplementsAtLeastOnce`). `SafetyInv` gives the two guards
of the abstract commit (everything before it was tried, it only advances). The guard
of the abstract exit, no batch in hand, needs one invariant more, `ClosingInv`: once
`Close` has begun to leave, the session is empty and stays so, and `Start` returns
only after the last callback has. So `Close` drains also the consumers that the
unlocked range of `gracefulShutdown` did not come across.

`EventProcessorProofs`, for any `Records`, `Events`, `Charges` and `MaxCrashes`:

| theorem | property |
|---|---|
| `DeliveryInvariance` | `DeliveryInv`, inductive |
| `TypeCorrect` | `TypeOK` |
| `NoGoroutineOutlivesItsEvent` | `NoStragglers` |
| `ProcessedAreAccountedFor` | `ProcessedIsAccountedFor` |
| `CommittedUsageFlagged` | `CommittedUsageIsFlagged` |
| `RepeatsAreForTheFlag` | `RepeatedOnlyForTheFlag` |

The goroutine of a record and the produce goroutines under it write only what belongs
to the record, so the invariant is stated record by record and `OtherRecords` settles
all others at once. Its parts: `MessageInv` (the produce goroutines are those the
enrichment called for, started together, running only while `processEvent` is
between their start and its return), `OutcomeInv` (a record on a failure path has a
failed result, a result that may be retried is one that is reported, what is left for
a retry has been reported) and `FlagInv` (Redis is called only for usage this service
has to handle, and `processEvent` succeeds only after the flag). Without `MessageInv`
the wait of `processEvent` would prove nothing about the messages; without the second
half of `OutcomeInv` a record left for a retry could leave no trace.

`ChargeCacheProofs`, for any `Slots`, any number of `Readers` and `Lag < Expiration`:
`CacheInvariance` and `MissesSeeTheirEvents` (`ReadsCountTheEvent`). The property speaks
of the moment a reader finds the entry missing; the invariant says why it works out: as
long as there is an entry it outlives the way of every event that expired it
(`OutlivesInv`), so that when it is gone ClickHouse counts them all (`CountedInv`). The
write of a reader, however old its answer, only prolongs the entry.

`FlatFiltersProofs`, for any charges, properties and strings, any way of printing a
property and any finite set of keys (`KeysAssumption`: a filter has finitely many keys,
so its specificity is a number):

| theorem | property |
|---|---|
| `MostSpecificBucket` | `BucketIsMostSpecific` |
| `GroupedByFilterValues` | `GroupsAreFilterValues` |
| `LaterRowsOnlyRefine` | `RowsOnlyRefine` |

The state invariant, `FetchInv`, is only that the rows are rows and the event an
event. The induction is in the loop of `MatchingFilter`: `BestFilterDef` (the recursive
function has the values of its equation) and `BestFilterInv` (after each place,
`IsBest`: the *first* of the most specific matching rows so far). "First" is
what makes it inductive under the strict comparison of the code and what
`RowsOnlyRefine` needs: one more row can only join the matching rows of its own
charge, behind them (`OneMoreRow`), so it wins only if it is strictly more specific
(`OneMoreBucket`). `MatchesByPlace` relates the places the loop sees to the set of
rows of the reference `Matches`; two rows that are equal are one element there.

`LifecycleProofs`, for any `Partitions`, `LogSize` and `MaxSignals`:

| theorem | property |
|---|---|
| `LifecycleInvariance` | `LifecycleInv`, inductive |
| `TypeCorrect` | `TypeOK` |
| `StoresOutliveBatches` | `BatchesHaveTheirStores` |
| `ClosedButTheProducers` | `OnlyProducersStayOpen` |
| `FlushSeesEveryReport` | `ReportsPrecedeFlush` |

`StartupInv` ties what is open to how far the statements got (a producer or a store
is either made or the startup does not go on, `MadeOrPanic`), `DeferInv` ties what is
open and what was reported to the calls still deferred. `Consume` needs
`consuming => at = Len(Steps)`: the abstract group runs in the place of the last
statement only.

`SubscriptionsProofs`, for any millisecond, second and float64 spacings that satisfy
`PrecisionAssumption`, any instants and any number of subscriptions:

| theorem | property |
|---|---|
| `SubscriptionsInvariance` | `SubscriptionsInv`, inductive |
| `ConversionsAreClose` | `TimesAreClose` |
| `ReplaysDoNotRejuvenate` | `ReplaysKeepIngestedAt` |
| `RightSubscription` | `ChargedToItsSubscription` |
| `NoGapAtUpgrade` | `UpgradeIsSeamless` |
| `PastIsSettled` | `PastIsStable` |

The conversions rest on lemmas about `Truncate` and `Nearest` (how far they move a
value, that they are monotone and which values they keep). The invariant is that the
rows follow each other, so only the last can be active, and that nothing was started
or terminated after the last action of the API. Without the first, two rows could cover
one time and the newest be the wrong one; without the second, the API could change
what covers a time that is past.

`PipelineProofs`, for any `LogSize`, `MaxPoll`, `Events` and `Charges`, with and without failures
and signals:

| theorem | property |
|---|---|
| `PipelineInvariance` | `PipelineInv`, inductive |
| `NothingIsLostSilently` | `NothingLostSilently` |
| `HealthyCommits` | `HealthyCommitsAreProcessed` |

Both components' invariants are taken from their own proofs: `ConsumerGroupProofs` is
extended, `EventProcessorProofs` is instantiated with the substitution `Pipeline` uses,
and its lemmas on single steps are cited (`SameSteps` and `SameBatches` say that the
two instances are the same). `GroupSteps` sorts the steps of the group by what they
are for the partition's goroutine: a goroutine that processes a batch is never
replaced under it. New are `LinkInv` (a record is in the event processor exactly while
the goroutine waits for the batch it belongs to), `TraceInv` (whatever was tried has
left a trace) and, for a healthy service without signals, `HealthyInv`: no failure is
one to retry, since what healthy services refuse (an unreadable timestamp, a missing
metric, an expression without a value) is not retried, so batches are processed as a
whole, and the commit of a whole batch has a
record (`WholeBatchesCommit`). With `CoverInv` they give the two properties. That
`HealthyInv` needs `~Signals` is what `pipeline_shutdown` shows.

Only model-checked is liveness (`LostReturns`, `FetchesAreHandedOver`, `ShutdownEnds`,
`BatchReturns`, `RetriesEnd`, `StableGroupCatchesUp`, `SignalEndsProcess`,
`QuietCacheCatchesUp`): arguments from fairness, which speaks of what is enabled, are
out of the prover's reach. The three violations are counterexamples and need no proof.

## 5. State of the plan

The components were modelled in the order of the table of section 2, the consumer group
first. Every one of them has its run, and every property of a run that is not liveness
its theorem. A change to the code touches, in this order: the mapped definition, the
run of its module, the lemma of the action it belongs to. Further work would be on
what section 6 lists, the payloads of events first: three of the five hazards that no
property covers are about them.

## 6. Not modelled

- Logging, spans with their attributes and tags, TLS and pool options: processing
  does not depend on them.
- The JSON of the messages, their keys, the layout of the cache key, the value of an
  event: data no property here tells apart.
- The expression engine: a library outside the repository; its answers are an input
  of `EnrichEvent`. It writes its result into a map shared with the raw event, which
  a replayed dead letter would show; that needs the payloads.
- The `Scan` and `Value` methods of the filter columns: driver glue.
- The compose files, deploy scripts, connectors and images: configuration of other
  programs.
