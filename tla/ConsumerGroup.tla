--------------------------- MODULE ConsumerGroup ---------------------------
(***************************************************************************)
(* One member of the Kafka consumer group                                  *)
(* (events-processor/config/kafka/consumer.go): the poll goroutine, the    *)
(* rebalance callbacks, one goroutine per assigned partition, the main     *)
(* goroutine that shuts the group down, and what the franz-go client and   *)
(* the broker do around them.                                              *)
(*                                                                         *)
(* ProcessRecords is opaque here: it returns some subset of its batch (see *)
(* EventProcessor for what it does).                                       *)
(***************************************************************************)
EXTENDS CommitOffsets, FiniteSets

CONSTANTS
  Partitions,  \* the partitions of the consumed topic
  LogSize,     \* bound: records in each partition
  MaxPoll      \* records one PollRecords may return (10000 in the code)

ASSUME LogSizeAssumption == LogSize \in Nat
ASSUME MaxPollAssumption == MaxPoll \in Nat \ {0}

None == "none"
ASSUME NoneAssumption == None \notin Partitions

Offsets == 0 .. LogSize - 1

VARIABLES
  \* the process
  proc,       \* "up", "exited", or what killed it
  ctxDone,    \* the context given to Start is cancelled (SIGTERM, SIGINT)
  \* the poll goroutine
  pollPC, fetches, sending,
  \* the franz-go client
  pollerHeld, \* a poll returned records and AllowRebalance has not been called
  session,    \* partitions the client is fetching
  position,   \* next offset the client returns for a partition
  lostWait,   \* partitions of the running lost callback, {} when none runs
  \* ConsumerGroup.consumers and the goroutine behind each PartitionConsumer
  consumers, gor, quit, batch, handled,
  \* Start and gracefulShutdown
  mainPC,
  toVisit,    \* keys the range over consumers has not passed yet
  shutWait,   \* consumers whose done channel gracefulShutdown waits for
  \* the broker
  owned,      \* partitions this member owns in the current generation
  committed,  \* committed offset of the group
  \* history
  attempted   \* offsets some ProcessRecords call has returned from

pollVars == <<pollPC, fetches, sending>>
clientVars == <<pollerHeld, session, position, lostWait>>
goroutineVars == <<consumers, gor, quit, batch, handled>>
mainVars == <<mainPC, toVisit, shutWait>>
brokerVars == <<owned, committed>>
vars == <<proc, ctxDone, pollVars, clientVars, goroutineVars, mainVars,
          brokerVars, attempted>>

Faults == {"killed", "fetchError", "nilRecord", "nilConsumer", "mapFault"}
NoOffsets == [p \in Partitions |-> {}]

TypeOK ==
  /\ proc \in {"up", "exited"} \cup Faults
  /\ ctxDone \in BOOLEAN
  /\ pollPC \in {"loop", "polling", "fetched", "dispatch", "returned"}
  /\ fetches \in [Partitions -> SUBSET Offsets]
  /\ sending \in Partitions \cup {None}
  /\ pollerHeld \in BOOLEAN
  /\ session \in SUBSET Partitions
  /\ position \in [Partitions -> 0 .. LogSize]
  /\ lostWait \in SUBSET Partitions
  /\ consumers \in SUBSET Partitions
  /\ gor \in [Partitions -> {"select", "process", "commit", "done"}]
  /\ quit \in SUBSET Partitions
  /\ batch \in [Partitions -> SUBSET Offsets]
  /\ handled \in [Partitions -> SUBSET Offsets]
  /\ mainPC \in {"running", "ranging", "waiting", "closing", "leaving", "stopped"}
  /\ toVisit \in SUBSET Partitions
  /\ shutWait \in SUBSET Partitions
  /\ owned \in SUBSET Partitions
  /\ committed \in [Partitions -> 0 .. LogSize]
  /\ attempted \in [Partitions -> SUBSET Offsets]

(***************************************************************************)
(* NewConsumerGroup and the entry of Start: an empty map of consumers, the *)
(* poll goroutine about to loop, the main goroutine waiting on the context.*)
(***************************************************************************)
ProcessInit ==
  /\ proc = "up"
  /\ ctxDone = FALSE
  /\ pollPC = "loop" /\ fetches = NoOffsets /\ sending = None
  /\ pollerHeld = FALSE /\ session = {} /\ lostWait = {}
  /\ position = [p \in Partitions |-> 0]
  /\ consumers = {} /\ gor = [p \in Partitions |-> "done"] /\ quit = {}
  /\ batch = NoOffsets /\ handled = NoOffsets
  /\ mainPC = "running" /\ toVisit = {} /\ shutWait = {}
  /\ owned = {}

\* The first process of a group that has committed nothing.
Init ==
  /\ ProcessInit
  /\ committed = [p \in Partitions |-> 0]
  /\ attempted = NoOffsets

(***************************************************************************)
(* The process ends and nothing volatile survives.  The broker only        *)
(* notices when the session expires or the next process joins.             *)
(***************************************************************************)
Die(reason) ==
  /\ proc' = reason
  /\ ctxDone' = FALSE
  /\ pollPC' = "loop" /\ fetches' = NoOffsets /\ sending' = None
  /\ pollerHeld' = FALSE /\ session' = {} /\ lostWait' = {}
  /\ position' = [p \in Partitions |-> 0]
  /\ consumers' = {} /\ gor' = [p \in Partitions |-> "done"] /\ quit' = {}
  /\ batch' = NoOffsets /\ handled' = NoOffsets
  /\ mainPC' = "running" /\ toVisit' = {} /\ shutWait' = {}
  /\ UNCHANGED <<brokerVars, attempted>>

-----------------------------------------------------------------------------
(* The poll goroutine: poll and pollRecords. *)

\* poll: the select on ctx.Done with a default branch.
PollLoop ==
  /\ proc = "up" /\ pollPC = "loop"
  /\ pollPC' = IF ctxDone THEN "returned" ELSE "polling"
  /\ UNCHANGED <<proc, ctxDone, fetches, sending, clientVars, goroutineVars,
                 mainVars, brokerVars, attempted>>

\* The runs of consecutive offsets a poll may return for the session.
Polls ==
  {f \in [Partitions -> SUBSET Offsets] :
     /\ \A p \in Partitions :
          /\ p \notin session => f[p] = {}
          /\ \E end \in position[p] .. LogSize : f[p] = position[p] .. end - 1
     /\ Cardinality(UNION {{p} \X f[p] : p \in Partitions}) \in 1 .. MaxPoll}

(***************************************************************************)
(* PollRecords returns records, which blocks rebalance callbacks until     *)
(* AllowRebalance; it waits while a callback runs.                         *)
(***************************************************************************)
PollRecords ==
  /\ proc = "up" /\ pollPC = "polling" /\ lostWait = {}
  /\ \E f \in Polls :
       /\ fetches' = f
       /\ position' = [p \in Partitions |->
                         IF f[p] = {} THEN position[p] ELSE Max(f[p]) + 1]
  /\ pollPC' = "fetched" /\ pollerHeld' = TRUE
  /\ UNCHANGED <<proc, ctxDone, sending, session, lostWait, goroutineVars,
                 mainVars, brokerVars, attempted>>

\* PollRecords returns the context's error, or that the client is closed.
PollCanceled ==
  /\ proc = "up" /\ pollPC = "polling" /\ ctxDone
  /\ pollPC' = "returned"
  /\ UNCHANGED <<proc, ctxDone, fetches, sending, clientVars, goroutineVars,
                 mainVars, brokerVars, attempted>>

\* Any other fetch error panics in EachError.
FetchError ==
  /\ proc = "up" /\ pollPC = "polling"
  /\ Die("fetchError")

\* Faulty variant: lets rebalances in before the records are handed over.
CheckContextAllowing ==
  /\ proc = "up" /\ pollPC = "fetched"
  /\ IF ctxDone
       THEN pollPC' = "returned" /\ fetches' = NoOffsets
       ELSE pollPC' = "dispatch" /\ UNCHANGED fetches
  /\ pollerHeld' = FALSE
  /\ UNCHANGED <<proc, ctxDone, sending, session, position, lostWait,
                 goroutineVars, mainVars, brokerVars, attempted>>

(***************************************************************************)
(* The check of ctx.Err(): a cancelled context makes pollRecords return    *)
(* with the records it was given, and without calling AllowRebalance.      *)
(***************************************************************************)
CheckContext ==
  /\ proc = "up" /\ pollPC = "fetched"
  /\ IF ctxDone
       THEN pollPC' = "returned" /\ fetches' = NoOffsets
       ELSE pollPC' = "dispatch" /\ UNCHANGED fetches
  /\ UNCHANGED <<proc, ctxDone, sending, clientVars, goroutineVars, mainVars,
                 brokerVars, attempted>>

\* EachPartition: look up the consumer; a partition without one is skipped.
DispatchNext(p) ==
  /\ proc = "up" /\ pollPC = "dispatch" /\ sending = None /\ fetches[p] # {}
  /\ IF p \in consumers
       THEN sending' = p /\ UNCHANGED fetches
       ELSE fetches' = [fetches EXCEPT ![p] = {}] /\ UNCHANGED sending
  /\ UNCHANGED <<proc, ctxDone, pollPC, clientVars, goroutineVars, mainVars,
                 brokerVars, attempted>>

\* consumer.records <- p.Records meets the receive in consume's select.
DispatchSend(p) ==
  /\ proc = "up" /\ pollPC = "dispatch" /\ sending = p /\ gor[p] = "select"
  /\ gor' = [gor EXCEPT ![p] = "process"]
  /\ batch' = [batch EXCEPT ![p] = fetches[p]]
  /\ fetches' = [fetches EXCEPT ![p] = {}]
  /\ sending' = None
  /\ UNCHANGED <<proc, ctxDone, pollPC, clientVars, consumers, quit, handled,
                 mainVars, brokerVars, attempted>>

\* Faulty variant: drops the records of a consumer that does not take them now.
DispatchNonBlocking(p) ==
  /\ proc = "up" /\ pollPC = "dispatch" /\ sending = p
  /\ fetches' = [fetches EXCEPT ![p] = {}]
  /\ sending' = None
  /\ UNCHANGED <<proc, ctxDone, pollPC, clientVars, goroutineVars, mainVars,
                 brokerVars, attempted>>

\* Faulty variant: a bare send, which no cancelled context interrupts.
DispatchUninterrupted(p) == FALSE

\* The other branch of the send's select: the records are dropped.
DispatchCancelled(p) ==
  /\ proc = "up" /\ pollPC = "dispatch" /\ sending = p /\ ctxDone
  /\ fetches' = [fetches EXCEPT ![p] = {}]
  /\ sending' = None
  /\ UNCHANGED <<proc, ctxDone, pollPC, clientVars, goroutineVars, mainVars,
                 brokerVars, attempted>>

AllowRebalance ==
  /\ proc = "up" /\ pollPC = "dispatch" /\ fetches = NoOffsets
  /\ pollPC' = "loop" /\ pollerHeld' = FALSE
  /\ UNCHANGED <<proc, ctxDone, fetches, sending, session, position, lostWait,
                 goroutineVars, mainVars, brokerVars, attempted>>

-----------------------------------------------------------------------------
(* A partition's goroutine: consume and processRecordsAndCommit.  The      *)
(* context consume also selects on is the client's, which Close cancels    *)
(* only after the lost callback has drained every goroutine.               *)

ConsumeQuit(p) ==
  /\ proc = "up" /\ gor[p] = "select" /\ p \in quit
  /\ gor' = [gor EXCEPT ![p] = "done"]
  /\ UNCHANGED <<proc, ctxDone, pollVars, clientVars, consumers, quit, batch,
                 handled, mainVars, brokerVars, attempted>>

\* processRecords returns the records it counts as processed.
ProcessRecords(p) ==
  /\ proc = "up" /\ gor[p] = "process"
  /\ \E h \in SUBSET batch[p] : handled' = [handled EXCEPT ![p] = h]
  /\ attempted' = [attempted EXCEPT ![p] = @ \cup batch[p]]
  /\ gor' = [gor EXCEPT ![p] = "commit"]
  /\ UNCHANGED <<proc, ctxDone, pollVars, clientVars, consumers, quit, batch,
                 mainVars, brokerVars>>

\* Faulty variant: commits outside the group's generation, never fenced.
CommitUnfenced(p) ==
  /\ proc = "up" /\ gor[p] = "commit"
  /\ LET target == CommitTarget(handled[p], batch[p])
     IN IF target = NoRecord
          THEN Die("nilRecord")
          ELSE /\ committed' = [committed EXCEPT ![p] = target + 1]
               /\ gor' = [gor EXCEPT ![p] = "select"]
               /\ batch' = [batch EXCEPT ![p] = {}]
               /\ handled' = [handled EXCEPT ![p] = {}]
               /\ UNCHANGED <<proc, ctxDone, pollVars, clientVars, consumers,
                              quit, mainVars, owned, attempted>>

(***************************************************************************)
(* CommitRecords: the broker accepts the commit of a partition's owner; a  *)
(* failure is only logged.  A nil record is dereferenced by the client.    *)
(***************************************************************************)
CommitRecords(p) ==
  /\ proc = "up" /\ gor[p] = "commit"
  /\ LET target == CommitTarget(handled[p], batch[p])
     IN IF target = NoRecord
          THEN Die("nilRecord")
          ELSE /\ \/ p \in owned /\ committed' = [committed EXCEPT ![p] = target + 1]
                  \/ UNCHANGED committed
               /\ gor' = [gor EXCEPT ![p] = "select"]
               /\ batch' = [batch EXCEPT ![p] = {}]
               /\ handled' = [handled EXCEPT ![p] = {}]
               /\ UNCHANGED <<proc, ctxDone, pollVars, clientVars, consumers,
                              quit, mainVars, owned, attempted>>

-----------------------------------------------------------------------------
(* Rebalance callbacks, run by the client one at a time and never between  *)
(* a poll that returned records and its AllowRebalance.                    *)

CallbackFree == lostWait = {} /\ ~pollerHeld
GroupManaged == mainPC \in {"running", "ranging", "waiting"} \* Close not called

\* A member the broker has expired first loses what it still fetches.
AssignReady(S) ==
  /\ GroupManaged /\ CallbackFree
  /\ session \subseteq owned
  /\ S # {} /\ S \cap owned = {}

LostReady(S) ==
  /\ GroupManaged /\ CallbackFree
  /\ S # {} /\ S \subseteq session
  /\ session \subseteq owned \/ S = session

\* assigned: a new PartitionConsumer and its goroutine for every partition.
\* A running range over the map may or may not come across the new entries.
assigned(S) ==
  /\ proc = "up" /\ AssignReady(S)
  /\ owned' = owned \cup S
  /\ session' = session \cup S
  /\ position' = [p \in Partitions |-> IF p \in S THEN committed[p] ELSE position[p]]
  /\ consumers' = consumers \cup S
  /\ gor' = [p \in Partitions |-> IF p \in S THEN "select" ELSE gor[p]]
  /\ quit' = quit \ S
  /\ batch' = [p \in Partitions |-> IF p \in S THEN {} ELSE batch[p]]
  /\ handled' = [p \in Partitions |-> IF p \in S THEN {} ELSE handled[p]]
  /\ \E passed \in SUBSET S : toVisit' = toVisit \ passed
  /\ UNCHANGED <<proc, ctxDone, pollVars, pollerHeld, lostWait, mainPC,
                 shutWait, committed, attempted>>

\* Faulty variant: forgets to close the quit channels.
TakeAwayWithoutQuit(S) ==
  /\ consumers' = consumers \ S
  /\ session' = session \ S
  /\ lostWait' = S
  /\ UNCHANGED <<proc, ctxDone, pollVars, pollerHeld, position, gor, quit, batch,
                 handled, toVisit, shutWait, brokerVars, attempted>>

(***************************************************************************)
(* lost, also registered for revocations: take the consumers out of the    *)
(* map, close their quit channels, then wait for every goroutine.  A       *)
(* partition without a consumer would dereference nil.                     *)
(***************************************************************************)
TakeAway(S) ==
  /\ consumers' = consumers \ S
  /\ quit' = quit \cup S
  /\ session' = session \ S
  /\ lostWait' = S
  /\ UNCHANGED <<proc, ctxDone, pollVars, pollerHeld, position, gor, batch,
                 handled, toVisit, shutWait, brokerVars, attempted>>

lost(S) ==
  /\ proc = "up" /\ LostReady(S)
  /\ IF S \subseteq consumers
       THEN TakeAway(S) /\ UNCHANGED mainPC
       ELSE Die("nilConsumer")

\* Faulty variant: returns without waiting for the goroutines.
lostReturnAtOnce ==
  /\ proc = "up" /\ lostWait # {}
  /\ lostWait' = {}
  /\ owned' = owned \ lostWait
  /\ shutWait' = shutWait \ lostWait
  /\ UNCHANGED <<proc, ctxDone, pollVars, pollerHeld, session, position,
                 goroutineVars, mainPC, toVisit, committed, attempted>>

\* lost's deferred errgroup.Wait: the partitions are only given up here.
lostReturn ==
  /\ proc = "up" /\ lostWait # {}
  /\ \A p \in lostWait : gor[p] = "done"
  /\ lostWait' = {}
  /\ owned' = owned \ lostWait
  /\ shutWait' = shutWait \ lostWait
  /\ UNCHANGED <<proc, ctxDone, pollVars, pollerHeld, session, position,
                 goroutineVars, mainPC, toVisit, committed, attempted>>

\* Go's runtime may abort on a map written while gracefulShutdown ranges it.
MapFault ==
  /\ proc = "up" /\ mainPC = "ranging"
  /\ \E S \in SUBSET Partitions : AssignReady(S) \/ LostReady(S)
  /\ Die("mapFault")

-----------------------------------------------------------------------------
(* The main goroutine: Start and gracefulShutdown. *)

Cancel ==
  /\ proc = "up" /\ ~ctxDone
  /\ ctxDone' = TRUE
  /\ UNCHANGED <<proc, pollVars, clientVars, goroutineVars, mainVars,
                 brokerVars, attempted>>

gracefulShutdown ==
  /\ proc = "up" /\ mainPC = "running" /\ ctxDone
  /\ mainPC' = "ranging" /\ toVisit' = Partitions
  /\ UNCHANGED <<proc, ctxDone, pollVars, clientVars, goroutineVars, shutWait,
                 brokerVars, attempted>>

\* Faulty variants: take the consumer out of the map; only wait for it.
ShutDownAndDelete(p) ==
  /\ proc = "up" /\ mainPC = "ranging" /\ p \in toVisit \cap consumers
  /\ toVisit' = toVisit \ {p}
  /\ quit' = quit \cup {p}
  /\ shutWait' = shutWait \cup {p}
  /\ consumers' = consumers \ {p}
  /\ UNCHANGED <<proc, ctxDone, pollVars, clientVars, gor, batch, handled,
                 mainPC, brokerVars, attempted>>

ShutDownWithoutQuit(p) ==
  /\ proc = "up" /\ mainPC = "ranging" /\ p \in toVisit \cap consumers
  /\ toVisit' = toVisit \ {p}
  /\ shutWait' = shutWait \cup {p}
  /\ UNCHANGED <<proc, ctxDone, pollVars, clientVars, goroutineVars, mainPC,
                 brokerVars, attempted>>

\* One iteration of the range: close the consumer's quit channel, wait for it.
ShutDownConsumer(p) ==
  /\ proc = "up" /\ mainPC = "ranging" /\ p \in toVisit \cap consumers
  /\ toVisit' = toVisit \ {p}
  /\ quit' = quit \cup {p}
  /\ shutWait' = shutWait \cup {p}
  /\ UNCHANGED <<proc, ctxDone, pollVars, clientVars, consumers, gor, batch,
                 handled, mainPC, brokerVars, attempted>>

RangeDone ==
  /\ proc = "up" /\ mainPC = "ranging" /\ toVisit \cap consumers = {}
  /\ mainPC' = "waiting" /\ toVisit' = {}
  /\ UNCHANGED <<proc, ctxDone, pollVars, clientVars, goroutineVars, shutWait,
                 brokerVars, attempted>>

ShutdownWaited ==
  /\ proc = "up" /\ mainPC = "waiting"
  /\ \A p \in shutWait : gor[p] = "done"
  /\ mainPC' = "closing" /\ shutWait' = {}
  /\ UNCHANGED <<proc, ctxDone, pollVars, clientVars, goroutineVars, toVisit,
                 brokerVars, attempted>>

\* client.Close leaves the group, which revokes what is left of the session.
CloseLeave ==
  /\ proc = "up" /\ mainPC = "closing" /\ CallbackFree
  /\ IF session \subseteq consumers
       THEN TakeAway(session) /\ mainPC' = "leaving"
       ELSE Die("nilConsumer")

CloseReturn ==
  /\ proc = "up" /\ mainPC = "leaving" /\ lostWait = {}
  /\ mainPC' = "stopped" /\ owned' = {}
  /\ UNCHANGED <<proc, ctxDone, pollVars, clientVars, goroutineVars, toVisit,
                 shutWait, committed, attempted>>

\* Start has returned, and main returns.
Exit == proc = "up" /\ mainPC = "stopped" /\ Die("exited")
-----------------------------------------------------------------------------
(* The environment. *)

Kill == proc = "up" /\ Die("killed")

Restart ==
  /\ proc # "up"
  /\ proc' = "up" /\ owned' = {}
  /\ UNCHANGED <<ctxDone, pollVars, clientVars, goroutineVars, mainVars,
                 committed, attempted>>

\* The broker expires the member: its commits are fenced from here on.
SessionExpire ==
  /\ owned # {} /\ owned' = {}
  /\ UNCHANGED <<proc, ctxDone, pollVars, clientVars, goroutineVars, mainVars,
                 committed, attempted>>

\* Another member of the group, which owns p, processes and commits a record.
OtherMember(p) ==
  /\ p \notin owned /\ committed[p] < LogSize
  /\ attempted' = [attempted EXCEPT ![p] = @ \cup {committed[p]}]
  /\ committed' = [committed EXCEPT ![p] = @ + 1]
  /\ UNCHANGED <<proc, ctxDone, pollVars, clientVars, goroutineVars, mainVars,
                 owned>>
-----------------------------------------------------------------------------
PollStep ==
  \/ PollLoop \/ PollRecords \/ PollCanceled \/ CheckContext \/ AllowRebalance
  \/ \E p \in Partitions : DispatchNext(p) \/ DispatchSend(p) \/ DispatchCancelled(p)

ConsumerStep(p) == ConsumeQuit(p) \/ ProcessRecords(p) \/ CommitRecords(p)

ShutdownStep ==
  \/ gracefulShutdown \/ RangeDone \/ ShutdownWaited \/ CloseLeave
  \/ CloseReturn \/ Exit
  \/ \E p \in Partitions : ShutDownConsumer(p)

Rebalance ==
  \/ \E S \in SUBSET Partitions : assigned(S) \/ lost(S)
  \/ lostReturn

Environment ==
  \/ Cancel \/ Kill \/ Restart \/ SessionExpire \/ FetchError \/ MapFault
  \/ \E p \in Partitions : OtherMember(p)

Next ==
  \/ PollStep
  \/ \E p \in Partitions : ConsumerStep(p)
  \/ Rebalance
  \/ ShutdownStep
  \/ Environment

Spec == Init /\ [][Next]_vars

(***************************************************************************)
(* Fairness.  Each goroutine that can move eventually does, ProcessRecords *)
(* and CommitRecords return, and the client runs the callbacks a Close     *)
(* asks for.  Nothing obliges the broker to rebalance, a signal to arrive, *)
(* a crash to happen or records to be there.                               *)
(***************************************************************************)
Fairness ==
  /\ WF_vars(PollStep)
  /\ \A p \in Partitions : WF_vars(ConsumerStep(p))
  /\ WF_vars(lostReturn)
  /\ WF_vars(ShutdownStep)

FairSpec == Spec /\ Fairness
-----------------------------------------------------------------------------
(***************************************************************************)
(* Safety.                                                                 *)
(***************************************************************************)

\* No committed offset passes over a record that ProcessRecords never saw:
\* across revocations, expired sessions, dropped fetches, crashes and
\* shutdowns, an event is never skipped without having been tried.
NoUnattemptedCommit ==
  \A p \in Partitions : \A o \in Offsets : o < committed[p] => o \in attempted[p]

\* lost only gives partitions up once their goroutines have ended: no batch
\* of a partition this member no longer holds is still being processed.
RevokedIsQuiescent ==
  \A p \in Partitions \ (session \cup lostWait) : gor[p] = "done"

\* lost finds a PartitionConsumer for every partition the client takes away,
\* also when Close revokes the partitions gracefulShutdown went through.
LostFindsConsumer == proc # "nilConsumer"

\* Commits of one batch never reach past a record of that batch that
\* ProcessRecords did not report as processed (processRecordsAndCommit).
CommitCoversHandled ==
  [][\A p \in Partitions :
       gor[p] = "commit" /\ committed'[p] # committed[p] /\ gor'[p] # "commit"
         => \A o \in batch[p] : o < committed'[p] => o \in handled[p]]_vars

\* The committed offset of a partition never moves back, whichever member
\* commits and however late the goroutine of a lost partition does.
CommittedNeverMovesBack ==
  [][\A p \in Partitions : committed'[p] >= committed[p]]_vars

\* The unlocked consumers map does not change while pollRecords reads it.
MapStableDuringDispatch ==
  [][pollPC = "dispatch" /\ proc' = "up" => consumers' = consumers]_vars

(***************************************************************************)
(* The inductive invariant behind the safety properties.                   *)
(***************************************************************************)

\* Records in pollRecords' hands keep rebalances out, so their partitions
\* still have the consumers they were polled for.
PollerInv ==
  /\ pollPC \in {"fetched", "dispatch"} => pollerHeld
  /\ pollPC \notin {"fetched", "dispatch"} => fetches = NoOffsets
  /\ sending # None => pollPC = "dispatch" /\ fetches[sending] # {}
  /\ \A p \in Partitions : fetches[p] # {} => p \in session
  /\ session \subseteq consumers

\* What each goroutine holds.
GoroutineInv ==
  \A p \in Partitions :
    /\ p \notin session \cup lostWait => gor[p] = "done"
    /\ gor[p] \in {"select", "done"} => batch[p] = {}
    /\ gor[p] \in {"process", "commit"} => batch[p] # {}
    /\ gor[p] = "commit" => batch[p] \subseteq attempted[p] /\ handled[p] \subseteq batch[p]

\* Every offset before a commit, a batch, a fetch or a position that will be
\* polled from has been attempted, or is in the hands of this member.
CoverInv ==
  \A p \in Partitions : \A o \in Offsets :
    /\ o < committed[p] => o \in attempted[p]
    /\ \A b \in batch[p] : o < b => o \in attempted[p] \cup batch[p]
    /\ \A f \in fetches[p] : o < f => o \in attempted[p] \cup batch[p] \cup fetches[p]
    /\ (pollPC = "polling" \/ ~ctxDone) /\ p \in session /\ o < position[p]
         => o \in attempted[p] \cup batch[p] \cup fetches[p]

\* An owner's commit, batch, fetch and position follow each other in the log.
OrderInv ==
  \A p \in Partitions :
    /\ \A b \in batch[p], f \in fetches[p] : b < f
    /\ p \in session => \A o \in batch[p] \cup fetches[p] : o < position[p]
    /\ p \in owned => \A o \in batch[p] \cup fetches[p] : committed[p] <= o
    /\ p \in owned \cap session => committed[p] <= position[p]

\* The four parts hold together in every state, also around rebalances,
\* fenced commits, shutdowns and restarts: together they are inductive.
SafetyInv == PollerInv /\ GoroutineInv /\ CoverInv /\ OrderInv

(***************************************************************************)
(* Liveness, under FairSpec.                                               *)
(***************************************************************************)

\* A lost callback returns: it never waits for a goroutine that waits for it.
LostReturns == lostWait # {} ~> lostWait = {}

\* pollRecords gets rid of the records it was given, whatever the state of
\* the partition goroutines and of the shutdown.
FetchesAreHandedOver == fetches # NoOffsets ~> fetches = NoOffsets

\* A cancelled context ends the process, unless pollRecords returned with
\* the rebalance still blocked: Close then waits for ever.
ShutdownEnds == ctxDone ~> (proc # "up" \/ (pollPC = "returned" /\ pollerHeld))

\* What Start logs: after a cancelled context the shutdown completes.
ShutdownCompletes == ctxDone ~> proc # "up"
=============================================================================
