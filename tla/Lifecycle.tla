----------------------------- MODULE Lifecycle -----------------------------
(***************************************************************************)
(* One process from main to its end (events-processor/main.go and          *)
(* processors/main_processor.go): what main and StartProcessingEvents set  *)
(* up and in which order, what a failure or a signal does in between, and  *)
(* what the deferred calls undo.  The consumer group that runs in the      *)
(* middle is known by its promise only (AtLeastOnce).                      *)
(***************************************************************************)
EXTENDS Integers, Sequences, FiniteSets

CONSTANTS
  Partitions, LogSize,  \* of the consumer group
  MaxSignals            \* bound: SIGINT and SIGTERM sent to the process

ASSUME MaxSignalsAssumption == MaxSignals \in Nat

Producers == {"enriched", "enrichedExpanded", "inAdvance", "deadLetter"}
Stores == {"db", "flagStore", "chargeCache"}

\* The statements of main and of StartProcessingEvents that can fail, need
\* undoing or wait for something.
Steps ==
  << "notify", "tracerProvider", "initTracer", "sentry", "brokers",
     "enriched", "enrichedExpanded", "inAdvance", "deadLetter", "maxConns",
     "db", "flagStore", "chargeCache", "consumerGroup" >>

VARIABLES
  config,     \* the environment variables that matter
  at,         \* the next statement, an index of Steps
  phase,      \* "starting", "consuming", "unwinding", "hung", or how it ended
  panicking,  \* the unwinding is due to a panic of the main goroutine
  open,       \* what the constructors returned and nobody has closed
  defers,     \* the deferred calls of main and StartProcessingEvents, last first
  sigChan,    \* signals in signChan, a channel of capacity 1
  waiting,    \* the goroutine of setupGracefulShutdown has not returned
  sent,       \* signals sent so far
  ctxDone,    \* the context of the process is cancelled
  reports,    \* "held" while the Sentry client has reports to send, "timedOut"
              \* once Flush has given up on them, "none" otherwise
  mode, busy, tried, committed  \* of AtLeastOnce

groupVars == <<mode, busy, tried, committed>>
signalVars == <<sigChan, waiting, sent, ctxDone>>
vars == <<config, at, phase, panicking, open, defers, signalVars, reports, groupVars>>

Group == INSTANCE AtLeastOnce
-----------------------------------------------------------------------------
(* The configuration. *)

\* TRACING_PROVIDER, DD_TRACE_ENABLED, OTEL_EXPORTER_OTLP_ENDPOINT is set,
\* LAGO_KAFKA_SCRAM_ALGORITHM.
Configs ==
  [provider : {"datadog", "opentelemetry", "other"}, ddEnabled : BOOLEAN,
   otlpEndpoint : BOOLEAN, scram : {"", "SCRAM-SHA-256", "other"}]

findTracingProvider(c) ==
  IF c.provider # "other" THEN c.provider
  ELSE IF c.ddEnabled THEN "datadog"
  ELSE IF c.otlpEndpoint THEN "opentelemetry" ELSE "none"

Tracing == findTracingProvider(config)

(***************************************************************************)
(* How a constructor may end: "ok", an error that is handed to             *)
(* LogAndPanic, a panic of its own, or "nil": an OpenTelemetry provider    *)
(* that could not be made is a nil pointer in a non-nil interface, and     *)
(* main goes on.                                                           *)
(***************************************************************************)
NewOTelTracerProvider == {"ok", "nil"}
NewDatadogTracerProvider == {"ok"}

InitTracerProvider ==
  CASE Tracing = "opentelemetry" -> NewOTelTracerProvider
    [] Tracing = "datadog"       -> NewDatadogTracerProvider
    [] Tracing = "none"          -> {"ok"}

\* InitTracer asks the provider for its options.
InitTracer == IF "tracerProvider" \in open THEN {"ok"} ELSE {"panic"}

\* NewKafkaClient: an unknown algorithm leaves a nil option in the list.
NewKafkaClient ==
  (IF config.scram = "other" THEN {"panic"} ELSE {"ok", "error"})
    \cup (IF Tracing = "opentelemetry" THEN {"error"} ELSE {})

\* A ping under the context of the process fails once that is cancelled.
Ping(outcomes) == IF ctxDone THEN outcomes \ {"ok"} ELSE outcomes

\* The topic has to be set; the client is pinged.
initProducer == {"error"} \cup Ping(NewKafkaClient)

\* NewConnection does not see the context of the process.
NewConnection == {"ok", "error"}

NewRedisDB == Ping({"ok", "error"})

\* initFlagStore, initChargeCacheStore: the number of the database may not parse.
initStore == {"error"} \cup NewRedisDB

Outcomes(step) ==
  CASE step = "notify"         -> {"ok"}
    [] step = "tracerProvider" -> InitTracerProvider
    [] step = "initTracer"     -> InitTracer
    [] step = "sentry"         -> {"ok", "nil"}
    [] step = "brokers"        -> {"ok", "panic"}
    [] step \in Producers      -> initProducer
    [] step = "maxConns"       -> {"ok", "error"}
    [] step = "db"             -> NewConnection
    [] step \in {"flagStore", "chargeCache"} -> initStore
    [] step = "consumerGroup"  -> NewKafkaClient

\* What the statement leaves to be closed.
Opens(step) == {step} \cap ({"tracerProvider", "sentry", "consumerGroup"} \cup Producers \cup Stores)

DeferredCalls == {"cancel", "Stop", "Flush", "db.Close", "flagger.Close", "CacheStore.Close"}

\* Faulty variant: calls Flush where it stands.
DeferredWithoutFlush(step) ==
  CASE step = "notify"         -> <<"cancel">>
    [] step = "tracerProvider" -> <<"Stop">>
    [] step = "db"             -> <<"db.Close">>
    [] step = "flagStore"      -> <<"flagger.Close">>
    [] step = "chargeCache"    -> <<"CacheStore.Close">>
    [] OTHER                   -> << >>

\* Faulty variant: forgets the cache store.
DeferredWithoutCache(step) ==
  CASE step = "notify"         -> <<"cancel">>
    [] step = "tracerProvider" -> <<"Stop">>
    [] step = "sentry"         -> <<"Flush">>
    [] step = "db"             -> <<"db.Close">>
    [] step = "flagStore"      -> <<"flagger.Close">>
    [] OTHER                   -> << >>

\* What the statement defers, whether or not it made anything to close.
Deferred(step) ==
  CASE step = "notify"         -> <<"cancel">>
    [] step = "tracerProvider" -> <<"Stop">>
    [] step = "sentry"         -> <<"Flush">>
    [] step = "db"             -> <<"db.Close">>
    [] step = "flagStore"      -> <<"flagger.Close">>
    [] step = "chargeCache"    -> <<"CacheStore.Close">>
    [] OTHER                   -> << >>

\* What a deferred call closes.
Undone(call) ==
  CASE call = "Stop"             -> {"tracerProvider"}
    [] call = "db.Close"         -> {"db"}
    [] call = "flagger.Close"    -> {"flagStore"}
    [] call = "CacheStore.Close" -> {"chargeCache"}
    [] OTHER                     -> {}
-----------------------------------------------------------------------------
TypeOK ==
  /\ config \in Configs
  /\ at \in 1 .. Len(Steps)
  /\ phase \in {"starting", "consuming", "unwinding", "hung", "exited", "panicked",
                "killed", "crashed"}
  /\ panicking \in BOOLEAN
  /\ open \subseteq {"tracerProvider", "sentry", "consumerGroup"} \cup Producers \cup Stores
  /\ defers \in Seq(DeferredCalls)
  /\ sigChan \in 0 .. 1 /\ waiting \in BOOLEAN
  /\ sent \in 0 .. MaxSignals /\ ctxDone \in BOOLEAN
  /\ reports \in {"none", "held", "timedOut"}

Init ==
  /\ config \in Configs
  /\ at = 1 /\ phase = "starting" /\ panicking = FALSE
  /\ open = {} /\ defers = << >>
  /\ sigChan = 0 /\ waiting = TRUE /\ sent = 0 /\ ctxDone = FALSE
  /\ reports = "none"
  /\ mode = "stopped" /\ busy = {}
  /\ tried = [p \in Partitions |-> {}] /\ committed = [p \in Partitions |-> 0]

\* A panic of the main goroutine runs the deferred calls.
Panic ==
  /\ phase' = "unwinding" /\ panicking' = TRUE
  /\ UNCHANGED <<at, open, defers>>

\* The Sentry client takes a report, if it was initialised.
Report == reports' = IF "sentry" \in open THEN "held" ELSE reports

\* LogAndPanic reports before it panics.
LogAndPanic == Report /\ Panic

Proceed(step, made) ==
  /\ open' = open \cup made
  /\ defers' = Deferred(step) \o defers
  /\ IF at = Len(Steps)
       THEN phase' = "consuming" /\ UNCHANGED at
       ELSE at' = at + 1 /\ UNCHANGED phase
  /\ UNCHANGED panicking

\* The next statement; the last one leads into cg.Start.
Step ==
  /\ phase = "starting"
  /\ LET step == Steps[at] IN \E outcome \in Outcomes(step) :
       \/ outcome = "ok" /\ Proceed(step, Opens(step)) /\ UNCHANGED reports
       \/ outcome = "nil" /\ Proceed(step, {}) /\ UNCHANGED reports
       \/ outcome = "error" /\ LogAndPanic
       \/ outcome = "panic" /\ Panic /\ UNCHANGED reports
  /\ IF phase' = "consuming" THEN Group!Start ELSE UNCHANGED groupVars
  /\ UNCHANGED <<config, signalVars>>

\* The consumer group takes, tries and finishes batches.
Consume ==
  /\ phase = "consuming"
  /\ \E p \in Partitions : Group!Take(p) \/ Group!Try(p) \/ Group!Finish(p)
  /\ UNCHANGED <<config, at, phase, panicking, open, defers, signalVars, reports>>

\* CaptureError while a batch is processed.
CaptureError ==
  /\ phase = "consuming" /\ busy # {}
  /\ Report
  /\ UNCHANGED <<config, at, phase, panicking, open, defers, signalVars,
                 groupVars>>

\* The Sentry client sends in the background.
Send ==
  /\ reports # "none" /\ phase \in {"starting", "consuming", "unwinding", "hung"}
  /\ reports' = "none"
  /\ UNCHANGED <<config, at, phase, panicking, open, defers, signalVars,
                 groupVars>>

\* A panic of any other goroutine (a fetch error, a nil record to commit) ends
\* the process where it stands: no deferred call of main runs.
WorkerPanic ==
  /\ phase = "consuming"
  /\ Group!Crash
  /\ phase' = "crashed"
  /\ UNCHANGED <<config, at, panicking, open, defers, signalVars, reports>>

\* Faulty variant: Start returns when the context is done, without a shutdown.
StartReturnsAtOnce ==
  /\ phase = "consuming" /\ ctxDone
  /\ phase' = "unwinding"
  /\ UNCHANGED <<config, at, panicking, open, defers, signalVars, reports,
                 groupVars>>

\* cg.Start returns after its shutdown, which closes the client.
StartReturns ==
  /\ phase = "consuming" /\ ctxDone
  /\ Group!Stop
  /\ phase' = "unwinding" /\ open' = open \ {"consumerGroup"}
  /\ UNCHANGED <<config, at, panicking, defers, signalVars, reports>>

\* ... or the client's Close waits for ever (ConsumerGroup, ShutdownCompletes).
CloseHangs ==
  /\ phase = "consuming" /\ ctxDone /\ busy = {}
  /\ phase' = "hung"
  /\ UNCHANGED <<config, at, panicking, open, defers, signalVars, reports,
                 groupVars>>

\* The deferred calls, last first.  Stopping the OpenTelemetry provider shuts
\* its exporter down; on a nil provider it panics, which skips no other call.
\* Flush waits for the reports held, two seconds at most.
Unwind ==
  /\ phase = "unwinding" /\ defers # << >>
  /\ LET call == Head(defers) IN
       /\ open' = open \ Undone(call)
       /\ reports' \in IF call = "Flush" /\ reports = "held" THEN {"none", "timedOut"}
                                                          ELSE {reports}
       /\ ctxDone' = (ctxDone \/ call = "cancel")
       /\ panicking' = (panicking \/ (call = "Stop" /\ "tracerProvider" \notin open))
  /\ defers' = Tail(defers)
  /\ UNCHANGED <<config, at, phase, sigChan, waiting, sent, groupVars>>

MainEnds ==
  /\ phase = "unwinding" /\ defers = << >>
  /\ phase' = IF panicking THEN "panicked" ELSE "exited"
  /\ UNCHANGED <<config, at, panicking, open, defers, signalVars, reports,
                 groupVars>>
-----------------------------------------------------------------------------
Alive == phase \in {"starting", "consuming", "unwinding", "hung"}

\* Faulty variant: a channel without bound.
SignalQueued ==
  /\ Alive /\ sent < MaxSignals
  /\ sent' = sent + 1
  /\ sigChan' = sigChan + 1
  /\ UNCHANGED <<config, at, phase, panicking, open, defers, waiting, ctxDone,
                 reports, groupVars>>

\* signal.Notify does not wait for room in the channel; before it is called a
\* signal kills the process.
Signal ==
  /\ Alive /\ sent < MaxSignals
  /\ sent' = sent + 1
  /\ IF at = 1 THEN phase' = "killed" /\ UNCHANGED sigChan
               ELSE sigChan' = 1 /\ UNCHANGED phase
  /\ UNCHANGED <<config, at, panicking, open, defers, waiting, ctxDone, reports, groupVars>>

\* Faulty variant: logs the signal and does not cancel.
LogSignal ==
  /\ Alive /\ waiting /\ sigChan = 1
  /\ sigChan' = 0 /\ waiting' = FALSE
  /\ UNCHANGED <<config, at, phase, panicking, open, defers, sent, ctxDone, reports, groupVars>>

\* The goroutine of setupGracefulShutdown: one signal, then it is gone.
HandleSignal ==
  /\ Alive /\ waiting /\ sigChan = 1
  /\ sigChan' = 0 /\ waiting' = FALSE /\ ctxDone' = TRUE
  /\ UNCHANGED <<config, at, phase, panicking, open, defers, sent, reports,
                 groupVars>>

Next ==
  \/ Step \/ Consume \/ CaptureError \/ Send \/ WorkerPanic
  \/ StartReturns \/ CloseHangs \/ Unwind \/ MainEnds
  \/ Signal \/ HandleSignal

Spec == Init /\ [][Next]_vars

(***************************************************************************)
(* The main goroutine and the signal's goroutine go on, and batches end.   *)
(* A shutdown that can again and again return does in the end: see         *)
(* ShutdownEnds in ConsumerGroup.                                          *)
(***************************************************************************)
Drain == Consume /\ busy' \subseteq busy /\ busy' # busy

Fairness ==
  /\ WF_vars(Step) /\ WF_vars(Unwind) /\ WF_vars(MainEnds) /\ WF_vars(HandleSignal)
  /\ WF_vars(Drain) /\ SF_vars(StartReturns)

FairSpec == Spec /\ Fairness
-----------------------------------------------------------------------------
\* While a batch is in hand, everything processEvent calls is there: the four
\* producers, Postgres and the two Redis stores.  No path of the startup leads
\* to Start without them, and no deferred Close overtakes the drain.
BatchesHaveTheirStores ==
  busy # {} => Producers \cup Stores \subseteq open

\* However main ends, whichever statement failed and whenever the signal came, of
\* all that the statements were given only the Sentry client and the producers,
\* which nobody closes, are left open: the stores and the tracer provider are
\* closed by the deferred calls, the consumer group by its own shutdown.
OnlyProducersStayOpen ==
  phase \in {"exited", "panicked"} => open \subseteq Producers \cup {"sentry"}

\* When main ends, no report is left that the deferred Flush did not see: each one,
\* that of LogAndPanic included, was sent or was given the two seconds of Flush.
ReportsPrecedeFlush == phase \in {"exited", "panicked"} => reports # "held"

\* A signal ends the process, also in the middle of its startup or when it
\* comes twice, unless Close hangs.
SignalEndsProcess == sent > 0 ~> ~Alive \/ phase = "hung"
=============================================================================
