--------------------------- MODULE LifecycleProofs ---------------------------
(***************************************************************************)
(* Startup, drain and unwinding of one process, for any configuration, any *)
(* failure, any consumer group that keeps AtLeastOnce and any signals.     *)
(***************************************************************************)
EXTENDS Lifecycle, TLAPS

USE MaxSignalsAssumption

\* A call is still to be made by the unwinding.
Pending(call) == \E i \in 1 .. Len(defers) : defers[i] = call

\* What a deferred call closes, and the call that closes it.
Closable == {"tracerProvider"} \cup Stores
ClosedBy(c) ==
  CASE c = "tracerProvider" -> "Stop"
    [] c = "db"             -> "db.Close"
    [] c = "flagStore"      -> "flagger.Close"
    [] c = "chargeCache"    -> "CacheStore.Close"

\* What the first statements have made.
MadeBefore(n) == {s \in Producers \cup Stores : \E j \in 1 .. n - 1 : Steps[j] = s}

\* The statements go through in order, each leaving what it makes, and a batch
\* exists only between the last of them and the return of Start.
StartupInv ==
  /\ phase = "starting" => MadeBefore(at) \subseteq open
  /\ phase = "consuming" => at = Len(Steps) /\ Producers \cup Stores \subseteq open
  /\ busy # {} => phase = "consuming"

\* What the deferred calls close is open only while the call is pending, the
\* consumer group only while it runs, and reports are made only while Flush is
\* pending.
DeferInv ==
  /\ \A c \in open \cap Closable : Pending(ClosedBy(c)) \/ phase \in {"hung", "killed", "crashed"}
  /\ "consumerGroup" \in open => phase \in {"consuming", "hung", "killed", "crashed"}
  /\ phase \in {"starting", "consuming"} /\ "sentry" \in open => Pending("Flush")
  /\ reports = "held" => Pending("Flush") \/ phase \in {"hung", "killed", "crashed"}
  /\ phase \in {"exited", "panicked"} => defers = << >>

LifecycleInv == TypeOK /\ StartupInv /\ DeferInv
-----------------------------------------------------------------------------
\* The statements by number.
LEMMA StepsByNumber ==
  /\ Len(Steps) = 14
  /\ Steps[1] = "notify" /\ Steps[2] = "tracerProvider" /\ Steps[3] = "initTracer"
  /\ Steps[4] = "sentry" /\ Steps[5] = "brokers" /\ Steps[6] = "enriched"
  /\ Steps[7] = "enrichedExpanded" /\ Steps[8] = "inAdvance" /\ Steps[9] = "deadLetter"
  /\ Steps[10] = "maxConns" /\ Steps[11] = "db" /\ Steps[12] = "flagStore"
  /\ Steps[13] = "chargeCache" /\ Steps[14] = "consumerGroup"
BY DEF Steps

\* The consumer group is the last of them.
LEMMA GroupIsLast ==
  ASSUME NEW n \in 1 .. 14, Steps[n] = "consumerGroup"
  PROVE  n = 14
<1>1. n \in {1, 2, 3, 4, 5, 6, 7, 8, 9, 10, 11, 12, 13, 14}
  OBVIOUS
<1> QED BY <1>1, StepsByNumber

\* All producers and stores come before the consumer group.
LEMMA AllMade == MadeBefore(14) = Producers \cup Stores
BY StepsByNumber DEF MadeBefore, Producers, Stores

\* A producer or a store is either made or main does not go on.
LEMMA MadeOrPanic ==
  ASSUME NEW step \in Producers \cup Stores
  PROVE  Outcomes(step) \subseteq {"ok", "error", "panic"}
<1>1. CASE step \in Producers
  <2>1. Outcomes(step) = initProducer
    BY <1>1 DEF Outcomes, Producers
  <2> QED BY <2>1 DEF initProducer, Ping, NewKafkaClient
<1>2. CASE step = "db"
  BY <1>2 DEF Outcomes, Producers, NewConnection
<1>3. CASE step \in {"flagStore", "chargeCache"}
  <2>1. Outcomes(step) = initStore
    BY <1>3 DEF Outcomes, Producers
  <2> QED BY <2>1 DEF initStore, NewRedisDB, Ping
<1> QED BY <1>1, <1>2, <1>3 DEF Stores

\* A deferred call goes before the others, and hides none of them.
LEMMA DeferFirst ==
  ASSUME TypeOK, NEW step, defers' = Deferred(step) \o defers
  PROVE  /\ defers' \in Seq(DeferredCalls)
         /\ \A c : Pending(c) => Pending(c)'
         /\ step \in Closable => Pending(ClosedBy(step))'
         /\ step = "sentry" => Pending("Flush")'
<1>1. defers \in Seq(DeferredCalls)
  BY DEF TypeOK
<1>2. CASE Deferred(step) = << >>
  <2>1. defers' = defers
    BY <1>1, <1>2
  <2>2. step \notin Closable /\ step # "sentry"
    BY <1>2 DEF Deferred, Closable, Stores
  <2> QED BY <1>1, <2>1, <2>2 DEF Pending
<1>3. ASSUME NEW call \in DeferredCalls, Deferred(step) = <<call>>
      PROVE  /\ defers' \in Seq(DeferredCalls)
             /\ \A c : Pending(c) => Pending(c)'
             /\ Pending(call)'
  <2>1. defers' = <<call>> \o defers
    BY <1>3
  <2>2. defers' \in Seq(DeferredCalls)
    BY <1>1, <2>1
  <2>3. /\ Len(defers') = Len(defers) + 1 /\ defers'[1] = call
        /\ \A i \in 1 .. Len(defers) : defers'[i + 1] = defers[i]
    BY <1>1, <2>1
  <2>4. \A c : Pending(c) => Pending(c)'
    BY <1>1, <2>3 DEF Pending
  <2>5. Pending(call)'
    BY <1>1, <2>3 DEF Pending
  <2> QED BY <2>2, <2>4, <2>5
<1>4. CASE Deferred(step) # << >>
  <2> USE DEF Closable, ClosedBy, Stores, DeferredCalls
  <2>1. CASE step = "notify"
    BY <2>1, <1>3 DEF Deferred
  <2>2. CASE step = "sentry"
    BY <2>2, <1>3 DEF Deferred
  <2>3. CASE step = "tracerProvider"
    BY <2>3, <1>3 DEF Deferred
  <2>4. CASE step = "db"
    BY <2>4, <1>3 DEF Deferred
  <2>5. CASE step = "flagStore"
    BY <2>5, <1>3 DEF Deferred
  <2>6. CASE step = "chargeCache"
    BY <2>6, <1>3 DEF Deferred
  <2> QED BY <1>4, <2>1, <2>2, <2>3, <2>4, <2>5, <2>6 DEF Deferred
<1> QED BY <1>2, <1>4

\* The unwinding makes the first pending call and keeps the others.
LEMMA UnwindFirst ==
  ASSUME TypeOK, defers # << >>, defers' = Tail(defers)
  PROVE  /\ defers' \in Seq(DeferredCalls)
         /\ \A c : Pending(c) /\ c # Head(defers) => Pending(c)'
<1>1. defers \in Seq(DeferredCalls) /\ Len(defers) > 0
  BY DEF TypeOK
<1>2. defers' \in Seq(DeferredCalls)
  BY <1>1
<1>3. /\ Len(defers') = Len(defers) - 1 /\ Head(defers) = defers[1]
      /\ \A i \in 1 .. Len(defers) - 1 : defers'[i] = defers[i + 1]
  BY <1>1
<1>4. ASSUME NEW c, Pending(c), c # Head(defers) PROVE Pending(c)'
  <2>1. PICK i \in 1 .. Len(defers) : defers[i] = c
    BY <1>4 DEF Pending
  <2>2. i - 1 \in 1 .. Len(defers) - 1 /\ i = (i - 1) + 1
    BY <1>1, <1>3, <1>4, <2>1
  <2>3. defers'[i - 1] = c
    BY <1>3, <2>1, <2>2
  <2> QED BY <1>3, <2>2, <2>3 DEF Pending
<1> QED BY <1>2, <1>4

-----------------------------------------------------------------------------
\* A statement goes through, with or without something made.
LEMMA ProceedInv ==
  ASSUME LifecycleInv, phase = "starting", NEW outcome \in Outcomes(Steps[at]),
         NEW made, Proceed(Steps[at], made), UNCHANGED <<reports, busy, config, signalVars>>,
         (outcome = "ok" /\ made = Opens(Steps[at])) \/ (outcome = "nil" /\ made = {})
  PROVE  LifecycleInv'
<1>s. PICK step : step = Steps[at]
  OBVIOUS
<1>0. TypeOK /\ defers' = Deferred(step) \o defers
  BY <1>s DEF LifecycleInv, Proceed
<1>1. /\ defers' \in Seq(DeferredCalls)
      /\ \A c : Pending(c) => Pending(c)'
      /\ step \in Closable => Pending(ClosedBy(step))'
      /\ step = "sentry" => Pending("Flush")'
  BY <1>0, DeferFirst
<1> USE DEF LifecycleInv, Proceed, signalVars
<1>2. /\ made \subseteq {step}
      /\ made \subseteq {"tracerProvider", "sentry", "consumerGroup"} \cup Producers \cup Stores
  BY <1>s DEF Opens
<1>3. at \in 1 .. 14
  BY StepsByNumber DEF TypeOK
<1>4. TypeOK'
  <2>1. at' \in 1 .. Len(Steps)
    BY <1>3, StepsByNumber
  <2>2. phase' \in {"starting", "consuming"}
    OBVIOUS
  <2> QED BY <1>1, <1>2, <2>1, <2>2 DEF TypeOK
<1>5. StartupInv'
  <2>1. busy' = {}
    BY DEF StartupInv
  <2>2. step \in Producers \cup Stores => step \in open'
    <3>1. ASSUME step \in Producers \cup Stores PROVE made = {step}
      <4>1. outcome = "ok"
        BY <1>s, <3>1, MadeOrPanic
      <4> QED BY <1>s, <3>1, <4>1 DEF Opens
    <3> QED BY <3>1
  <2>3. MadeBefore(at) \subseteq open'
    BY DEF StartupInv
  <2>4. CASE at = 14
    <3>1. phase' = "consuming" /\ at' = Len(Steps) /\ Producers \cup Stores \subseteq open'
      BY <2>3, <2>4, AllMade, StepsByNumber
    <3> QED BY <2>1, <3>1 DEF StartupInv
  <2>5. CASE at # 14
    <3>1. phase' = "starting" /\ at' = at + 1
      BY <2>5, StepsByNumber
    <3>2. \A s \in MadeBefore(at') : s \in MadeBefore(at) \/ (s = step /\ s \in Producers \cup Stores)
      BY <1>s, <1>3, <3>1 DEF MadeBefore
    <3>3. MadeBefore(at)' = MadeBefore(at')
      BY DEF MadeBefore
    <3> QED BY <2>1, <2>2, <2>3, <3>1, <3>2, <3>3 DEF StartupInv
  <2> QED BY <2>4, <2>5
<1>6. DeferInv'
  <2>1. \A c \in open' \cap Closable : Pending(ClosedBy(c))'
    BY <1>1, <1>2 DEF DeferInv
  <2>2. "sentry" \in open' => Pending("Flush")'
    BY <1>1, <1>2 DEF DeferInv
  <2>3. reports' = "held" => Pending("Flush")'
    BY <1>1 DEF DeferInv
  <2>4. phase' \notin {"exited", "panicked"}
    OBVIOUS
  <2>5. "consumerGroup" \in open' => phase' = "consuming"
    <3>1. "consumerGroup" \notin open
      BY DEF DeferInv
    <3>2. step = "consumerGroup" => at = 14
      BY <1>s, <1>3, GroupIsLast
    <3> QED BY <1>2, <3>1, <3>2, StepsByNumber
  <2> QED BY <2>1, <2>2, <2>3, <2>4, <2>5 DEF DeferInv
<1> QED BY <1>4, <1>5, <1>6

\* A statement fails: nothing was made, and the deferred calls are due.
LEMMA PanicInv ==
  ASSUME LifecycleInv, phase = "starting", Panic, UNCHANGED <<busy, config, signalVars>>,
         Report \/ UNCHANGED reports
  PROVE  LifecycleInv'
<1> USE DEF LifecycleInv, Panic, signalVars, Report
<1>1. TypeOK'
  BY DEF TypeOK
<1>2. StartupInv'
  BY DEF StartupInv
<1>3. \A c : Pending(c) <=> Pending(c)'
  BY DEF Pending
<1>4. DeferInv'
  <2>2. reports' = "held" => Pending("Flush")'
    BY <1>3 DEF DeferInv
  <2> QED BY <1>3, <2>2 DEF DeferInv
<1> QED BY <1>1, <1>2, <1>4

LEMMA StepInv ==
  ASSUME LifecycleInv, Step
  PROVE  LifecycleInv'
<1>1. phase = "starting" /\ UNCHANGED <<busy, config, signalVars>>
  BY DEF Step, groupVars, Group!Start
<1>2. PICK outcome \in Outcomes(Steps[at]) :
        \/ outcome = "ok" /\ Proceed(Steps[at], Opens(Steps[at])) /\ UNCHANGED reports
        \/ outcome = "nil" /\ Proceed(Steps[at], {}) /\ UNCHANGED reports
        \/ outcome = "error" /\ LogAndPanic
        \/ outcome = "panic" /\ Panic /\ UNCHANGED reports
  BY DEF Step
<1>3. CASE outcome = "ok" /\ Proceed(Steps[at], Opens(Steps[at])) /\ UNCHANGED reports
  BY <1>1, <1>3, ProceedInv
<1>4. CASE outcome = "nil" /\ Proceed(Steps[at], {}) /\ UNCHANGED reports
  BY <1>1, <1>4, ProceedInv
<1>5. CASE Panic /\ UNCHANGED reports
  BY <1>1, <1>5, PanicInv
<1>6. CASE LogAndPanic
  BY <1>1, <1>6, PanicInv DEF LogAndPanic
<1> QED BY <1>2, <1>3, <1>4, <1>5, <1>6

\* While the group consumes: batches come and go, errors are captured, another
\* goroutine panics, the shutdown returns or hangs.
LEMMA ConsumingInv ==
  ASSUME LifecycleInv, Consume \/ CaptureError \/ WorkerPanic \/ StartReturns \/ CloseHangs
  PROVE  LifecycleInv'
<1> USE DEF LifecycleInv, Consume, CaptureError, WorkerPanic, StartReturns, CloseHangs,
            groupVars, signalVars
<1>1. /\ phase = "consuming" /\ UNCHANGED <<config, at, panicking, defers, signalVars>>
      /\ phase' \in {"consuming", "crashed", "unwinding", "hung"}
      /\ open' \in {open, open \ {"consumerGroup"}}
      /\ reports' = reports \/ ("sentry" \in open /\ reports' = "held")
  BY DEF Report
<1>2. TypeOK'
  BY <1>1 DEF TypeOK
<1>3. StartupInv'
  <2>1. Producers \cup Stores \subseteq open'
    BY <1>1 DEF StartupInv, Producers, Stores
  <2>2. busy' # {} => phase' = "consuming"
    BY DEF Group!Crash, Group!Stop, StartupInv
  <2> QED BY <1>1, <2>1, <2>2 DEF StartupInv
<1>4. \A c : Pending(c) <=> Pending(c)'
  BY <1>1 DEF Pending
<1>5. DeferInv'
  <2>1. reports' = "held" => Pending("Flush")'
    BY <1>1, <1>4 DEF DeferInv
  <2>2. phase' = "unwinding" => "consumerGroup" \notin open'
    OBVIOUS
  <2> QED BY <1>1, <1>4, <2>1, <2>2 DEF DeferInv
<1> QED BY <1>2, <1>3, <1>5

\* The unwinding closes what it comes to, and flushes before it is done.
LEMMA UnwindInv ==
  ASSUME LifecycleInv, Unwind
  PROVE  LifecycleInv'
<1> USE DEF LifecycleInv, Unwind, groupVars
<1> DEFINE call == Head(defers)
<1>1. /\ defers' \in Seq(DeferredCalls)
      /\ \A c : Pending(c) /\ c # call => Pending(c)'
  BY UnwindFirst
<1>2. TypeOK'
  <2>1. ctxDone' \in BOOLEAN /\ panicking' \in BOOLEAN
    BY DEF TypeOK
  <2>2. reports' \in {"none", "held", "timedOut"}
    BY DEF TypeOK
  <2> QED BY <1>1, <2>1, <2>2 DEF TypeOK
<1>3. StartupInv'
  BY DEF StartupInv
<1>4. DeferInv'
  <2>1. \A c \in open' \cap Closable : c \in open /\ ClosedBy(c) # call
    BY DEF Closable, Stores, ClosedBy, Undone
  <2>2. \A c \in open' \cap Closable : Pending(ClosedBy(c))'
    BY <1>1, <2>1 DEF DeferInv
  <2>3. reports' = "held" => reports = "held" /\ call # "Flush"
    OBVIOUS
  <2>4. reports' = "held" => Pending("Flush")'
    BY <1>1, <2>3 DEF DeferInv
  <2> QED BY <2>2, <2>4 DEF DeferInv
<1> QED BY <1>2, <1>3, <1>4

\* main ends; signals and the background sender touch none of it.
LEMMA OutsideInv ==
  ASSUME LifecycleInv, MainEnds \/ Send \/ Signal \/ HandleSignal
  PROVE  LifecycleInv'
<1> USE DEF LifecycleInv, MainEnds, Send, Signal, HandleSignal, Alive, groupVars, signalVars
<1>1. /\ UNCHANGED <<config, at, panicking, open, defers, busy>>
      /\ \/ phase' \in {phase, "killed"}
         \/ phase = "unwinding" /\ phase' \in {"exited", "panicked"} /\ defers = << >>
      /\ reports' = reports \/ reports' = "none"
  OBVIOUS
<1>2. TypeOK'
  <2>1. reports' \in {"none", "held", "timedOut"}
    BY <1>1 DEF TypeOK
  <2>2. sigChan' \in 0 .. 1 /\ sent' \in 0 .. MaxSignals
    BY DEF TypeOK
  <2>3. waiting' \in BOOLEAN /\ ctxDone' \in BOOLEAN
    BY Zenon DEF TypeOK
  <2> QED BY <1>1, <2>1, <2>2, <2>3 DEF TypeOK
<1>3. StartupInv'
  <2>1. phase' \in {"starting", "consuming"} => phase' = phase
    BY <1>1
  <2>2. phase = "consuming" => phase' = "consuming"
    BY <1>1, StepsByNumber DEF StartupInv
  <2> QED BY <1>1, <2>1, <2>2 DEF StartupInv, MadeBefore
<1>4. \A c : Pending(c) <=> Pending(c)'
  BY <1>1 DEF Pending
<1>5. DeferInv'
  <2>1. reports' = "held" => reports = "held"
    BY <1>1
  <2>2. CASE defers = << >>
    <3>1. \A c : ~Pending(c)
      BY <2>2 DEF Pending
    <3> QED BY <1>1, <1>4, <2>1, <2>2, <3>1 DEF DeferInv
  <2>3. CASE defers # << >>
    <3> QED BY <1>1, <1>4, <2>1, <2>3 DEF DeferInv
  <2> QED BY <2>2, <2>3
<1> QED BY <1>2, <1>3, <1>5

\* The invariant of the lifecycle holds in every reachable state.
THEOREM LifecycleInvariance == Spec => []LifecycleInv
<1>1. Init => LifecycleInv
  <2> SUFFICES ASSUME Init PROVE LifecycleInv
    OBVIOUS
  <2>1. TypeOK
    <3>1. at \in 1 .. Len(Steps) /\ sent \in 0 .. MaxSignals /\ sigChan \in 0 .. 1
      BY StepsByNumber DEF Init
    <3>2. defers \in Seq(DeferredCalls)
      BY DEF Init
    <3> QED BY <3>1, <3>2, Zenon DEF Init, TypeOK
  <2>2. StartupInv /\ DeferInv
    BY DEF Init, StartupInv, MadeBefore, DeferInv
  <2> QED BY <2>1, <2>2 DEF LifecycleInv
<1>2. LifecycleInv /\ [Next]_vars => LifecycleInv'
  <2> SUFFICES ASSUME LifecycleInv, [Next]_vars PROVE LifecycleInv'
    OBVIOUS
  <2>1. CASE UNCHANGED vars
    BY <2>1 DEF vars, groupVars, signalVars, LifecycleInv, TypeOK, StartupInv, MadeBefore,
       DeferInv, Pending
  <2> QED BY <2>1, StepInv, ConsumingInv, UnwindInv, OutsideInv DEF Next
<1> QED BY <1>1, <1>2, PTL DEF Spec

\* The state of the process is well-typed: the channel never holds more than one
\* signal, and the deferred calls are those of main and StartProcessingEvents.
THEOREM TypeCorrect == Spec => []TypeOK
<1>1. LifecycleInv => TypeOK
  BY DEF LifecycleInv
<1> QED BY <1>1, LifecycleInvariance, PTL

\* While ProcessEvents has a batch, the producers, the database and both Redis
\* stores are open.
THEOREM StoresOutliveBatches == Spec => []BatchesHaveTheirStores
<1>1. LifecycleInv => BatchesHaveTheirStores
  BY DEF LifecycleInv, StartupInv, BatchesHaveTheirStores
<1> QED BY <1>1, LifecycleInvariance, PTL

\* When main returns or its panic reaches the top, the deferred calls have closed
\* the stores and the tracer provider and the shutdown the consumer group: only
\* the four producers and the Sentry client are left open.
THEOREM ClosedButTheProducers == Spec => []OnlyProducersStayOpen
<1>1. LifecycleInv => OnlyProducersStayOpen
  <2> SUFFICES ASSUME LifecycleInv, phase \in {"exited", "panicked"}
               PROVE  open \subseteq Producers \cup {"sentry"}
    BY DEF OnlyProducersStayOpen
  <2>1. \A c : ~Pending(c)
    BY DEF LifecycleInv, DeferInv, Pending
  <2>2. open \cap Closable = {} /\ "consumerGroup" \notin open
    BY <2>1 DEF LifecycleInv, DeferInv
  <2> QED BY <2>2 DEF LifecycleInv, TypeOK, Closable
<1> QED BY <1>1, LifecycleInvariance, PTL

\* Every report is made before the deferred Flush, which sends it or waits for it
\* as long as it waits: none is left that it did not see.
THEOREM FlushSeesEveryReport == Spec => []ReportsPrecedeFlush
<1>1. LifecycleInv => ReportsPrecedeFlush
  <2> SUFFICES ASSUME LifecycleInv, phase \in {"exited", "panicked"}
               PROVE  reports # "held"
    BY DEF ReportsPrecedeFlush
  <2>1. \A c : ~Pending(c)
    BY DEF LifecycleInv, DeferInv, Pending
  <2> QED BY <2>1 DEF LifecycleInv, DeferInv
<1> QED BY <1>1, LifecycleInvariance, PTL
=============================================================================
