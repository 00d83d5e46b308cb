------------------------ MODULE ConsumerGroupProofs ------------------------
(***************************************************************************)
(* The consumer group for any set of partitions, any log size and any poll *)
(* limit, in three parts.  What the choice of the committed offset         *)
(* guarantees, for batches of any size and any set of processed records.   *)
(* Safety of ConsumerGroup: TypeOK and SafetyInv are proved together by    *)
(* induction, one lemma per kind of step, and the properties follow from   *)
(* them.  And that ConsumerGroup implements AtLeastOnce: its initial       *)
(* states are mapped to initial states of the promise, and each of its     *)
(* steps to a step of the promise or to none.                              *)
(***************************************************************************)
EXTENDS ConsumerGroupRefinement, WellFoundedInduction, TLAPS
-----------------------------------------------------------------------------
(* The choice of the committed offset. *)

\* A non-empty set of offsets below a bound has a largest element, and Max
\* (used for CommitRecords and for the last loop of findMaxCommitableRecord)
\* is it.
LEMMA MaxOfOffsets ==
  ASSUME NEW n \in Nat, NEW S \in SUBSET (0 .. n), S # {}
  PROVE  Max(S) \in S /\ \A x \in S : x <= Max(S)
<1> DEFINE Bounds == {u \in Nat : \A x \in S : x <= u}
<1>1. PICK u \in Bounds : \A v \in Bounds : ~(v < u)
  <2>1. Bounds # {} /\ Bounds \subseteq Nat
    <3>1. n \in Bounds
      OBVIOUS
    <3> QED BY <3>1
  <2>2. PICK u \in Bounds : \A v \in Bounds : ~(<<v, u>> \in OpToRel(<, Nat))
    BY <2>1, NatLessThanWellFounded, WFMin, Zenon
  <2>3. \A v \in Bounds : ~(v < u)
    BY <2>2 DEF OpToRel
  <2> QED BY <2>3
<1>2. u \in S
  <2>1. SUFFICES ASSUME u \notin S PROVE FALSE
    OBVIOUS
  <2>2. \A x \in S : x <= u - 1 /\ 0 <= x
    BY <2>1
  <2>3. u - 1 \in Nat
    <3>1. PICK x \in S : TRUE
      OBVIOUS
    <3>2. x \in Nat /\ u \in Nat /\ x <= u - 1
      BY <2>2
    <3> QED BY <3>2
  <2>4. u - 1 \in Bounds
    BY <2>2, <2>3
  <2> QED BY <2>4, <1>1
<1>3. \A y \in S : u >= y
  BY <1>1
<1>4. Max(S) \in S /\ \A y \in S : Max(S) >= y
  BY <1>2, <1>3 DEF Max
<1> QED BY <1>4

\* Whatever subset of a batch ProcessRecords reports, the record the consumer
\* commits up to is one of the processed ones and no unprocessed record of
\* the batch is at or before it; nil is the only other outcome.
THEOREM CommitTargetIsSafe ==
  ASSUME NEW n \in Nat, NEW records \in SUBSET (0 .. n), records # {},
         NEW processed \in SUBSET records,
         CommitTarget(processed, records) # NoRecord
  PROVE  /\ CommitTarget(processed, records) \in processed
         /\ \A r \in records : r <= CommitTarget(processed, records) => r \in processed
<1>1. CASE processed = records
  BY <1>1, MaxOfOffsets DEF CommitTarget
<1>2. CASE processed # records
  <2> DEFINE before == Committable(processed, records)
  <2>1. before # {} /\ CommitTarget(processed, records) = Max(before)
    BY <1>2 DEF CommitTarget, findMaxCommitableRecord
  <2>2. before \in SUBSET (0 .. n)
    BY DEF Committable
  <2>3. Max(before) \in before
    BY <2>1, <2>2, MaxOfOffsets
  <2>4. PICK t \in processed :
          t = Max(before) /\ \A u \in records \ processed : t < u
    BY <2>3 DEF Committable
  <2>5. \A r \in records : r <= t => r \in processed
    BY <2>4
  <2> QED BY <2>1, <2>4, <2>5
<1> QED BY <1>1, <1>2

\* The commit is as far as it may go: it is nil only when the batch has no
\* processed prefix, and no processed record after it has everything before
\* it processed.
THEOREM CommitTargetIsMaximal ==
  ASSUME NEW n \in Nat, NEW records \in SUBSET (0 .. n), records # {},
         NEW processed \in SUBSET records,
         NEW r \in processed, \A u \in records : u <= r => u \in processed
  PROVE  CommitTarget(processed, records) # NoRecord /\ r <= CommitTarget(processed, records)
<1>1. CASE processed = records
  <2>1. Max(records) \in 0 .. n /\ r <= Max(records)
    BY MaxOfOffsets
  <2> QED BY <1>1, <2>1 DEF CommitTarget, NoRecord
<1>2. CASE processed # records
  <2> DEFINE before == Committable(processed, records)
  <2>1. r \in before
    BY DEF Committable
  <2>2. before \in SUBSET (0 .. n)
    BY DEF Committable
  <2>3. Max(before) \in 0 .. n /\ r <= Max(before)
    BY <2>1, <2>2, MaxOfOffsets
  <2>4. CommitTarget(processed, records) = Max(before)
    BY <1>2, <2>1 DEF CommitTarget, findMaxCommitableRecord
  <2> QED BY <2>3, <2>4 DEF NoRecord
<1> QED BY <1>1, <1>2

\* One more processed record never moves the commit of a batch back, so it does
\* not matter to the commit which goroutine of ProcessEvents fails late.
THEOREM CommitTargetIsMonotone ==
  ASSUME NEW n \in Nat, NEW records \in SUBSET (0 .. n), records # {},
         NEW more \in SUBSET records, NEW processed \in SUBSET more
  PROVE  CommitTarget(processed, records) <= CommitTarget(more, records)
<1> DEFINE target == CommitTarget(processed, records)
<1>1. CASE target # NoRecord
  <2>1. target \in processed /\ \A r \in records : r <= target => r \in processed
    BY <1>1, CommitTargetIsSafe
  <2>2. target \in more /\ \A r \in records : r <= target => r \in more
    BY <2>1
  <2> QED BY <2>2, CommitTargetIsMaximal
<1>2. CASE target = NoRecord
  <2>1. CASE CommitTarget(more, records) = NoRecord
    BY <1>2, <2>1 DEF NoRecord
  <2>2. CASE CommitTarget(more, records) # NoRecord
    <3>1. CommitTarget(more, records) \in more
      BY <2>2, CommitTargetIsSafe
    <3>2. CommitTarget(more, records) \in 0 .. n
      BY <3>1
    <3>3. target = -1
      BY <1>2 DEF NoRecord
    <3> HIDE DEF target
    <3>4. target <= CommitTarget(more, records)
      BY <3>2, <3>3
    <3> QED BY <3>4 DEF target
  <2> QED BY <2>1, <2>2
<1> QED BY <1>1, <1>2
-----------------------------------------------------------------------------
(* Safety of the consumer group. *)

IInv == TypeOK /\ SafetyInv

USE LogSizeAssumption, NoneAssumption

\* What a fresh process starts from is well typed.
LEMMA FreshTypes ==
  /\ NoOffsets \in [Partitions -> SUBSET Offsets]
  /\ [p \in Partitions |-> 0] \in [Partitions -> 0 .. LogSize]
  /\ [p \in Partitions |-> "done"] \in [Partitions -> {"select", "process", "commit", "done"}]
BY DEF NoOffsets

\* The initial state satisfies the invariant.
LEMMA InitIInv == Init => IInv
<1> SUFFICES ASSUME Init PROVE IInv
  OBVIOUS
<1>1. TypeOK
  BY FreshTypes DEF Init, ProcessInit, TypeOK
<1>2. PollerInv /\ GoroutineInv
  BY DEF Init, ProcessInit, PollerInv, GoroutineInv, NoOffsets
<1>3. CoverInv
  BY DEF Init, ProcessInit, CoverInv, NoOffsets, Offsets
<1>4. OrderInv
  BY DEF Init, ProcessInit, OrderInv, NoOffsets
<1> QED BY <1>1, <1>2, <1>3, <1>4 DEF IInv, SafetyInv

\* The end of the process, for whatever reason: nothing but what the broker
\* holds survives.
LEMMA DieIInv ==
  ASSUME IInv, NEW reason \in {"exited"} \cup Faults, Die(reason)
  PROVE  IInv'
<1> USE DEF IInv, SafetyInv, Die, brokerVars
<1>1. TypeOK'
  BY FreshTypes DEF TypeOK
<1>2. PollerInv' /\ GoroutineInv'
  BY DEF PollerInv, GoroutineInv, NoOffsets
<1>3. CoverInv'
  BY DEF CoverInv, NoOffsets, TypeOK
<1>4. OrderInv'
  BY DEF OrderInv, NoOffsets, TypeOK
<1> QED BY <1>1, <1>2, <1>3, <1>4

\* Steps of the poll loop and of the shutdown that only move a goroutine on:
\* no record, partition or offset changes hands.
LEMMA ControlIInv ==
  ASSUME IInv, 
         \/ PollLoop \/ PollCanceled \/ Cancel \/ gracefulShutdown \/ RangeDone
         \/ ShutdownWaited \/ \E p \in Partitions : ShutDownConsumer(p)
  PROVE  IInv'
<1> USE DEF IInv, SafetyInv, PollLoop, PollCanceled, Cancel, gracefulShutdown,
            RangeDone, ShutdownWaited, ShutDownConsumer, pollVars, clientVars,
            goroutineVars, mainVars, brokerVars
<1>1. TypeOK'
  BY DEF TypeOK
<1>2. PollerInv'
  BY DEF PollerInv
<1>3. GoroutineInv'
  BY DEF GoroutineInv
<1>4. CoverInv'
  BY DEF CoverInv
<1>5. OrderInv'
  BY DEF OrderInv
<1> QED BY <1>1, <1>2, <1>3, <1>4, <1>5

\* Steps in which the broker takes everything away from this member.
LEMMA DisownIInv ==
  ASSUME IInv, Restart \/ SessionExpire \/ CloseReturn
  PROVE  IInv'
<1> USE DEF IInv, SafetyInv, Restart, SessionExpire, CloseReturn, pollVars,
            clientVars, goroutineVars, mainVars
<1>1. TypeOK'
  BY DEF TypeOK
<1>2. PollerInv'
  BY DEF PollerInv
<1>3. GoroutineInv'
  BY DEF GoroutineInv
<1>4. CoverInv'
  BY DEF CoverInv
<1>5. OrderInv'
  BY DEF OrderInv
<1> QED BY <1>1, <1>2, <1>3, <1>4, <1>5

\* Another member commits a record it has processed, of a partition this
\* member does not own.
LEMMA OtherMemberIInv ==
  ASSUME IInv, NEW p \in Partitions, OtherMember(p)
  PROVE  IInv'
<1> USE DEF IInv, SafetyInv, OtherMember, pollVars, clientVars, goroutineVars, mainVars
<1>1. committed[p] \in Offsets
  BY DEF TypeOK, Offsets
<1>2. TypeOK'
  BY <1>1 DEF TypeOK, Offsets
<1>3. PollerInv'
  BY DEF PollerInv
<1>4. GoroutineInv'
  BY DEF GoroutineInv, TypeOK
<1>5. CoverInv'
  <2> SUFFICES ASSUME NEW q \in Partitions PROVE
        \A o \in Offsets :
          /\ o < committed'[q] => o \in attempted'[q]
          /\ \A b \in batch[q] : o < b => o \in attempted'[q] \cup batch[q]
          /\ \A f \in fetches[q] : o < f => o \in attempted'[q] \cup batch[q] \cup fetches[q]
          /\ (pollPC = "polling" \/ ~ctxDone) /\ q \in session /\ o < position[q]
               => o \in attempted'[q] \cup batch[q] \cup fetches[q]
    BY DEF CoverInv
  <2>1. attempted[q] \subseteq attempted'[q]
    BY DEF TypeOK
  <2>2. \A o \in Offsets : o < committed'[q] => o \in attempted'[q]
    BY DEF TypeOK, CoverInv, Offsets
  <2> QED BY <2>1, <2>2 DEF CoverInv
<1>6. OrderInv'
  BY DEF OrderInv, TypeOK
<1> QED BY <1>2, <1>3, <1>4, <1>5, <1>6

\* lost returns: every goroutine it waited for has ended.
LEMMA LostReturnIInv ==
  ASSUME IInv, lostReturn
  PROVE  IInv'
<1> USE DEF IInv, SafetyInv, lostReturn, pollVars, goroutineVars
<1>1. TypeOK'
  BY DEF TypeOK
<1>2. PollerInv'
  BY DEF PollerInv
<1>3. GoroutineInv'
  BY DEF GoroutineInv
<1>4. CoverInv'
  BY DEF CoverInv
<1>5. OrderInv'
  BY DEF OrderInv
<1> QED BY <1>1, <1>2, <1>3, <1>4, <1>5

\* lost takes partitions away; it runs only while no polled record waits.
LEMMA TakeAwayIInv ==
  ASSUME IInv, NEW S \in SUBSET session, S \subseteq consumers, CallbackFree,
         TakeAway(S), mainPC' \in {mainPC, "leaving"}
  PROVE  IInv'
<1> USE DEF IInv, SafetyInv, TakeAway, CallbackFree, pollVars, brokerVars
<1>1. TypeOK'
  BY DEF TypeOK
<1>2. PollerInv'
  BY DEF PollerInv, NoOffsets
<1>3. GoroutineInv'
  BY DEF GoroutineInv
<1>4. CoverInv'
  BY DEF CoverInv
<1>5. OrderInv'
  BY DEF OrderInv
<1> QED BY <1>1, <1>2, <1>3, <1>4, <1>5

\* assigned starts fresh goroutines at the committed offsets, over goroutines
\* that have all ended.
LEMMA AssignedIInv ==
  ASSUME IInv, NEW S \in SUBSET Partitions, assigned(S)
  PROVE  IInv'
<1> USE DEF IInv, SafetyInv, assigned, AssignReady, CallbackFree, pollVars
<1>1. fetches = NoOffsets /\ \A p \in S : p \notin session /\ batch[p] = {}
  BY DEF PollerInv, GoroutineInv, TypeOK
<1>2. TypeOK'
  BY DEF TypeOK
<1>3. PollerInv'
  BY <1>1 DEF PollerInv, NoOffsets
<1>4. GoroutineInv'
  BY DEF GoroutineInv, TypeOK
<1>5. CoverInv'
  <2> SUFFICES ASSUME NEW p \in Partitions, NEW o \in Offsets PROVE
          /\ o < committed[p] => o \in attempted[p]
          /\ \A b \in batch'[p] : o < b => o \in attempted[p] \cup batch'[p]
          /\ \A f \in fetches[p] : o < f => o \in attempted[p] \cup batch'[p] \cup fetches[p]
          /\ (pollPC = "polling" \/ ~ctxDone) /\ p \in session' /\ o < position'[p]
               => o \in attempted[p] \cup batch'[p] \cup fetches[p]
    BY DEF CoverInv
  <2>1. fetches[p] = {} /\ batch'[p] = batch[p]
    BY <1>1 DEF NoOffsets
  <2>2. CASE p \in S
    BY <2>1, <2>2, <1>1 DEF CoverInv
  <2>3. CASE p \notin S
    BY <2>1, <2>3 DEF CoverInv
  <2> QED BY <2>2, <2>3
<1>6. OrderInv'
  BY <1>1 DEF OrderInv, TypeOK, NoOffsets
<1> QED BY <1>2, <1>3, <1>4, <1>5, <1>6

\* A poll returns the next records of some partitions of the session.
LEMMA PollRecordsIInv ==
  ASSUME IInv, PollRecords
  PROVE  IInv'
<1> USE DEF IInv, SafetyInv, PollRecords, goroutineVars, mainVars, brokerVars
<1>1. PICK f \in Polls :
        /\ fetches' = f
        /\ position' = [p \in Partitions |->
                          IF f[p] = {} THEN position[p] ELSE Max(f[p]) + 1]
  OBVIOUS
<1>2. /\ f \in [Partitions -> SUBSET Offsets]
      /\ \A p \in Partitions :
           /\ p \notin session => f[p] = {}
           /\ \E end \in position[p] .. LogSize : f[p] = position[p] .. end - 1
  BY DEF Polls
<1>3. \A p \in Partitions : fetches[p] = {}
  BY DEF PollerInv, NoOffsets
\* What is polled is exactly what lies between the two positions.
<1>4. ASSUME NEW p \in Partitions
      PROVE  /\ position[p] \in 0 .. LogSize /\ position'[p] \in 0 .. LogSize
             /\ f[p] = position[p] .. position'[p] - 1
             /\ position[p] <= position'[p]
  <2>1. PICK end \in position[p] .. LogSize : f[p] = position[p] .. end - 1
    BY <1>2
  <2>2. position[p] \in 0 .. LogSize
    BY DEF TypeOK
  <2>3. CASE f[p] = {}
    BY <1>1, <2>2, <2>3
  <2>4. CASE f[p] # {}
    <3>1. f[p] \in SUBSET (0 .. LogSize)
      BY <1>2 DEF Offsets
    <3>2. Max(f[p]) \in f[p] /\ \A x \in f[p] : x <= Max(f[p])
      BY <2>4, <3>1, MaxOfOffsets
    <3>3. end - 1 \in f[p]
      BY <2>1, <2>2, <2>4
    <3>4. Max(f[p]) = end - 1
      BY <2>1, <2>2, <3>2, <3>3
    <3> QED BY <1>1, <2>1, <2>2, <2>4, <3>3, <3>4
  <2> QED BY <2>3, <2>4
<1>5. TypeOK'
  <2>1. position' \in [Partitions -> 0 .. LogSize]
    BY <1>1, <1>4
  <2> QED BY <1>1, <1>2, <2>1 DEF TypeOK
<1>6. PollerInv'
  BY <1>1, <1>2 DEF PollerInv
<1>7. GoroutineInv'
  BY DEF GoroutineInv
<1>8. CoverInv'
  <2> SUFFICES ASSUME NEW p \in Partitions, NEW o \in Offsets PROVE
          /\ o < committed[p] => o \in attempted[p]
          /\ \A b \in batch[p] : o < b => o \in attempted[p] \cup batch[p]
          /\ \A x \in f[p] : o < x => o \in attempted[p] \cup batch[p] \cup f[p]
          /\ p \in session /\ o < position'[p] => o \in attempted[p] \cup batch[p] \cup f[p]
    BY <1>1 DEF CoverInv
  <2>1. p \in session /\ o < position[p] => o \in attempted[p] \cup batch[p]
    BY <1>3 DEF CoverInv
  <2>2. p \in session /\ o < position'[p] => o \in attempted[p] \cup batch[p] \cup f[p]
    BY <1>4, <2>1 DEF Offsets
  <2>3. \A x \in f[p] : o < x => p \in session /\ o < position'[p]
    BY <1>2, <1>4 DEF Offsets
  <2> QED BY <2>2, <2>3 DEF CoverInv
<1>9. OrderInv'
  <2> SUFFICES ASSUME NEW p \in Partitions PROVE
          /\ \A b \in batch[p], x \in f[p] : b < x
          /\ p \in session => \A o \in batch[p] \cup f[p] : o < position'[p]
          /\ p \in owned => \A o \in batch[p] \cup f[p] : committed[p] <= o
          /\ p \in owned \cap session => committed[p] <= position'[p]
    BY <1>1 DEF OrderInv
  <2>1. batch[p] \in SUBSET Nat /\ committed[p] \in Nat
    BY DEF TypeOK, Offsets
  <2>2. CASE p \notin session
    BY <1>2, <2>2 DEF OrderInv
  <2>3. CASE p \in session
    BY <1>4, <2>1, <2>3 DEF OrderInv
  <2> QED BY <2>2, <2>3
<1> QED BY <1>5, <1>6, <1>7, <1>8, <1>9

\* pollRecords goes on to the dispatch, or drops the records of a cancelled
\* context: no poll will follow.
LEMMA CheckContextIInv ==
  ASSUME IInv, CheckContext
  PROVE  IInv'
<1> USE DEF IInv, SafetyInv, CheckContext, clientVars, goroutineVars, mainVars, brokerVars
<1>1. TypeOK'
  BY FreshTypes DEF TypeOK
<1>2. PollerInv'
  BY DEF PollerInv, NoOffsets
<1>3. GoroutineInv'
  BY DEF GoroutineInv
<1>4. CoverInv'
  BY DEF CoverInv, NoOffsets
<1>5. OrderInv'
  BY DEF OrderInv, NoOffsets
<1> QED BY <1>1, <1>2, <1>3, <1>4, <1>5

\* The dispatcher turns to a partition, whose consumer is always there.
LEMMA DispatchNextIInv ==
  ASSUME IInv, NEW p \in Partitions, DispatchNext(p)
  PROVE  IInv'
<1> USE DEF IInv, SafetyInv, DispatchNext, clientVars, goroutineVars, mainVars, brokerVars
<1>1. sending' = p /\ UNCHANGED fetches
  BY DEF PollerInv
<1>2. TypeOK'
  BY <1>1 DEF TypeOK
<1>3. PollerInv'
  BY <1>1 DEF PollerInv
<1>4. GoroutineInv'
  BY DEF GoroutineInv
<1>5. CoverInv'
  BY <1>1 DEF CoverInv
<1>6. OrderInv'
  BY <1>1 DEF OrderInv
<1> QED BY <1>2, <1>3, <1>4, <1>5, <1>6

\* A goroutine receives the records polled for its partition.
LEMMA DispatchSendIInv ==
  ASSUME IInv, NEW p \in Partitions, DispatchSend(p)
  PROVE  IInv'
<1> USE DEF IInv, SafetyInv, DispatchSend, clientVars, mainVars, brokerVars
<1>1. p # None /\ fetches[p] # {} /\ p \in session /\ batch[p] = {}
  BY DEF PollerInv, GoroutineInv
<1>2. /\ batch'[p] = fetches[p] /\ fetches'[p] = {} /\ gor'[p] = "process"
      /\ \A q \in Partitions \ {p} :
           batch'[q] = batch[q] /\ fetches'[q] = fetches[q] /\ gor'[q] = gor[q]
  BY DEF TypeOK
<1>3. TypeOK'
  BY DEF TypeOK
<1>4. PollerInv'
  BY <1>2 DEF PollerInv
<1>5. GoroutineInv'
  BY <1>1, <1>2 DEF GoroutineInv
<1>6. CoverInv'
  BY <1>1, <1>2 DEF CoverInv
<1>7. OrderInv'
  BY <1>1, <1>2 DEF OrderInv
<1> QED BY <1>3, <1>4, <1>5, <1>6, <1>7

\* The dispatcher drops a partition's records after a cancelled context: the
\* poll loop will not poll again.
LEMMA DispatchCancelledIInv ==
  ASSUME IInv, NEW p \in Partitions, DispatchCancelled(p)
  PROVE  IInv'
<1> USE DEF IInv, SafetyInv, DispatchCancelled, clientVars, goroutineVars, mainVars, brokerVars
<1>1. /\ fetches'[p] = {}
      /\ \A q \in Partitions \ {p} : fetches'[q] = fetches[q]
  BY DEF TypeOK
<1>2. TypeOK'
  BY DEF TypeOK
<1>3. PollerInv'
  BY <1>1 DEF PollerInv
<1>4. GoroutineInv'
  BY DEF GoroutineInv
<1>5. CoverInv'
  BY <1>1 DEF CoverInv
<1>6. OrderInv'
  BY <1>1 DEF OrderInv
<1> QED BY <1>2, <1>3, <1>4, <1>5, <1>6

\* The dispatch is over and rebalances are let in again.
LEMMA AllowRebalanceIInv ==
  ASSUME IInv, AllowRebalance
  PROVE  IInv'
<1> USE DEF IInv, SafetyInv, AllowRebalance, goroutineVars, mainVars, brokerVars
<1>1. TypeOK'
  BY DEF TypeOK
<1>2. PollerInv'
  BY NoneAssumption DEF PollerInv, TypeOK, NoOffsets
<1>3. GoroutineInv'
  BY DEF GoroutineInv
<1>4. CoverInv'
  BY DEF CoverInv
<1>5. OrderInv'
  BY DEF OrderInv
<1> QED BY <1>1, <1>2, <1>3, <1>4, <1>5

\* A goroutine with nothing in its hands ends.
LEMMA ConsumeQuitIInv ==
  ASSUME IInv, NEW p \in Partitions, ConsumeQuit(p)
  PROVE  IInv'
<1> USE DEF IInv, SafetyInv, ConsumeQuit, pollVars, clientVars, mainVars, brokerVars
<1>1. TypeOK'
  BY DEF TypeOK
<1>2. PollerInv'
  BY DEF PollerInv
<1>3. GoroutineInv'
  BY DEF GoroutineInv, TypeOK
<1>4. CoverInv'
  BY DEF CoverInv
<1>5. OrderInv'
  BY DEF OrderInv
<1> QED BY <1>1, <1>2, <1>3, <1>4, <1>5

\* ProcessRecords returns: the whole batch has been attempted.
LEMMA ProcessRecordsIInv ==
  ASSUME IInv, NEW p \in Partitions, ProcessRecords(p)
  PROVE  IInv'
<1> USE DEF IInv, SafetyInv, ProcessRecords, pollVars, clientVars, mainVars, brokerVars
<1>1. PICK h \in SUBSET batch[p] : handled' = [handled EXCEPT ![p] = h]
  OBVIOUS
<1>2. /\ attempted'[p] = attempted[p] \cup batch[p]
      /\ \A q \in Partitions : attempted[q] \subseteq attempted'[q]
  BY DEF TypeOK
<1>3. TypeOK'
  BY <1>1 DEF TypeOK
<1>4. PollerInv'
  BY DEF PollerInv
<1>5. GoroutineInv'
  BY <1>1, <1>2 DEF GoroutineInv, TypeOK
<1>6. CoverInv'
  BY <1>2 DEF CoverInv
<1>7. OrderInv'
  BY DEF OrderInv
<1> QED BY <1>3, <1>4, <1>5, <1>6, <1>7

\* What a goroutine commits lies in its batch, behind nothing unprocessed.
LEMMA CommitInBatch ==
  ASSUME IInv, NEW p \in Partitions, gor[p] = "commit",
         CommitTarget(handled[p], batch[p]) # NoRecord
  PROVE  /\ CommitTarget(handled[p], batch[p]) \in batch[p]
         /\ batch[p] \in SUBSET Offsets
         /\ \A o \in batch[p] : o <= CommitTarget(handled[p], batch[p]) => o \in handled[p]
<1>1. /\ batch[p] \in SUBSET Offsets
      /\ batch[p] \in SUBSET (0 .. LogSize) /\ batch[p] # {}
      /\ handled[p] \in SUBSET batch[p]
  BY DEF IInv, SafetyInv, TypeOK, GoroutineInv, Offsets
<1> QED BY <1>1, CommitTargetIsSafe

\* A commit, accepted or refused, ends a batch that has been attempted.
LEMMA CommitRecordsIInv ==
  ASSUME IInv, NEW p \in Partitions, CommitRecords(p)
  PROVE  IInv'
<1> DEFINE target == CommitTarget(handled[p], batch[p])
<1>1. CASE target = NoRecord
  BY <1>1, DieIInv DEF CommitRecords, Faults
<1>2. CASE target # NoRecord
  <2> USE DEF IInv, SafetyInv, pollVars, clientVars, mainVars
  <2>1. target \in batch[p] /\ batch[p] \in SUBSET Offsets
    BY <1>2, CommitInBatch DEF CommitRecords
  <2>2. /\ \/ p \in owned /\ committed' = [committed EXCEPT ![p] = target + 1]
           \/ UNCHANGED committed
        /\ gor' = [gor EXCEPT ![p] = "select"]
        /\ batch' = [batch EXCEPT ![p] = {}]
        /\ handled' = [handled EXCEPT ![p] = {}]
        /\ UNCHANGED <<proc, ctxDone, pollVars, clientVars, consumers,
                       quit, mainVars, owned, attempted>>
    BY <1>2 DEF CommitRecords
  <2>3. gor[p] = "commit"
    BY DEF CommitRecords
  <2>4. /\ batch'[p] = {} /\ \A q \in Partitions \ {p} : batch'[q] = batch[q]
        /\ committed'[p] \in {committed[p], target + 1}
        /\ committed'[p] # committed[p] => p \in owned
        /\ \A q \in Partitions \ {p} : committed'[q] = committed[q]
    BY <2>2 DEF TypeOK
  <2>5. TypeOK'
    <3>1. target + 1 \in 0 .. LogSize
      BY <2>1 DEF Offsets
    <3>2. committed' \in [Partitions -> 0 .. LogSize]
      BY <2>2, <3>1 DEF TypeOK
    <3> QED BY <2>2, <3>2 DEF TypeOK
  <2>6. PollerInv'
    BY <2>2 DEF PollerInv
  <2>7. GoroutineInv'
    BY <2>2, <2>3 DEF GoroutineInv, TypeOK
  <2>8. CoverInv'
    <3>1. batch[p] \subseteq attempted[p]
      BY <2>3 DEF GoroutineInv
    <3>2. \A o \in Offsets : o < committed'[p] => o \in attempted[p]
      BY <2>1, <2>4, <3>1 DEF CoverInv, Offsets
    <3> QED BY <2>2, <2>4, <3>1, <3>2 DEF CoverInv
  <2>9. OrderInv'
    <3>1. \A x \in fetches[p] : target + 1 <= x
      BY <2>1 DEF OrderInv, TypeOK, Offsets
    <3>2. p \in session => target + 1 <= position[p]
      BY <2>1 DEF OrderInv, TypeOK, Offsets
    <3> QED BY <2>2, <2>4, <3>1, <3>2 DEF OrderInv
  <2> QED BY <2>5, <2>6, <2>7, <2>8, <2>9
<1> QED BY <1>1, <1>2

-----------------------------------------------------------------------------
\* Every step of the member, of the client and of the environment preserves
\* the invariant.
LEMMA NextIInv == IInv /\ [Next]_vars => IInv'
<1> SUFFICES ASSUME IInv, [Next]_vars PROVE IInv'
  OBVIOUS
<1>1. CASE PollStep
  BY <1>1, ControlIInv, PollRecordsIInv, CheckContextIInv, AllowRebalanceIInv,
     DispatchNextIInv, DispatchSendIInv, DispatchCancelledIInv DEF PollStep
<1>2. CASE \E p \in Partitions : ConsumerStep(p)
  BY <1>2, ConsumeQuitIInv, ProcessRecordsIInv, CommitRecordsIInv DEF ConsumerStep
<1>3. CASE Rebalance
  <2>1. ASSUME NEW S \in SUBSET Partitions, lost(S) PROVE IInv'
    <3>1. S \in SUBSET session /\ CallbackFree
      BY <2>1 DEF lost, LostReady
    <3>2. CASE S \subseteq consumers
      BY <2>1, <3>1, <3>2, TakeAwayIInv DEF lost
    <3>3. CASE ~(S \subseteq consumers)
      BY <2>1, <3>3, DieIInv DEF lost, Faults
    <3> QED BY <3>2, <3>3
  <2> QED BY <1>3, <2>1, AssignedIInv, LostReturnIInv DEF Rebalance
<1>4. CASE ShutdownStep
  <2>1. CASE CloseLeave
    <3>1. CASE session \subseteq consumers
      BY <2>1, <3>1, TakeAwayIInv DEF CloseLeave
    <3>2. CASE ~(session \subseteq consumers)
      BY <2>1, <3>2, DieIInv DEF CloseLeave, Faults
    <3> QED BY <3>1, <3>2
  <2>2. CASE Exit
    BY <2>2, DieIInv DEF Exit
  <2> QED BY <1>4, <2>1, <2>2, ControlIInv, DisownIInv DEF ShutdownStep
<1>5. CASE Environment
  <2>1. CASE Kill \/ FetchError \/ MapFault
    BY <2>1, DieIInv DEF Kill, FetchError, MapFault, Faults
  <2> QED BY <1>5, <2>1, ControlIInv, DisownIInv, OtherMemberIInv DEF Environment
<1>6. CASE UNCHANGED vars
  BY <1>6 DEF vars, pollVars, clientVars, goroutineVars, mainVars, brokerVars, IInv,
     SafetyInv, TypeOK, PollerInv, GoroutineInv, CoverInv, OrderInv
<1> QED BY <1>1, <1>2, <1>3, <1>4, <1>5, <1>6 DEF Next

\* The inductive invariant holds in every reachable state of the consumer
\* group member.
THEOREM SafetyInvariance == Spec => [](TypeOK /\ SafetyInv)
<1>1. Init => IInv
  BY InitIInv
<1>2. IInv /\ [Next]_vars => IInv'
  BY NextIInv
<1> QED BY <1>1, <1>2, PTL DEF Spec, IInv

\* Every variable keeps its type: in particular no commit and no position
\* leaves the log.
THEOREM TypeCorrectness == Spec => []TypeOK
BY SafetyInvariance, PTL

\* No committed offset passes over a record that no ProcessRecords call has
\* returned from, however rebalances, expiries, crashes, signals and restarts
\* interleave with polling, processing and committing.
THEOREM NothingSkippedUntried == Spec => []NoUnattemptedCommit
<1>1. SafetyInv => NoUnattemptedCommit
  BY DEF SafetyInv, CoverInv, NoUnattemptedCommit
<1> QED BY <1>1, SafetyInvariance, PTL

\* When lost returns and the partition may go to another member, its
\* goroutine has ended.
THEOREM RevocationDrains == Spec => []RevokedIsQuiescent
<1>1. SafetyInv => RevokedIsQuiescent
  BY DEF SafetyInv, GoroutineInv, RevokedIsQuiescent
<1> QED BY <1>1, SafetyInvariance, PTL

-----------------------------------------------------------------------------
\* Only CommitRecords and the other members move a committed offset.
LEMMA WhoCommits ==
  ASSUME [Next]_vars
  PROVE  \/ UNCHANGED committed
         \/ \E p \in Partitions : CommitRecords(p) \/ OtherMember(p)
<1> USE DEF brokerVars, Die
<1>1. CASE PollStep
  BY <1>1 DEF PollStep, PollLoop, PollRecords, PollCanceled, CheckContext,
     AllowRebalance, DispatchNext, DispatchSend, DispatchCancelled
<1>2. CASE \E p \in Partitions : ConsumerStep(p)
  BY <1>2 DEF ConsumerStep, ConsumeQuit, ProcessRecords
<1>3. CASE Rebalance
  BY <1>3 DEF Rebalance, assigned, lost, TakeAway, lostReturn
<1>4. CASE ShutdownStep
  BY <1>4 DEF ShutdownStep, gracefulShutdown, RangeDone, ShutdownWaited,
     CloseLeave, TakeAway, CloseReturn, Exit, ShutDownConsumer
<1>5. CASE Environment
  BY <1>5 DEF Environment, Cancel, Kill, Restart, SessionExpire, FetchError, MapFault
<1>6. CASE UNCHANGED vars
  BY <1>6 DEF vars
<1> QED BY <1>1, <1>2, <1>3, <1>4, <1>5, <1>6 DEF Next

\* Committed offsets only grow: a goroutine that commits late, after its
\* partition was lost and another member went on, is fenced or still behind
\* nobody.
THEOREM CommitsOnlyAdvance == Spec => CommittedNeverMovesBack
<1>1. ASSUME IInv, [Next]_vars
      PROVE  \A p \in Partitions : committed'[p] >= committed[p]
  <2> SUFFICES ASSUME NEW p \in Partitions PROVE committed'[p] >= committed[p]
    OBVIOUS
  <2>1. committed \in [Partitions -> 0 .. LogSize]
    BY <1>1 DEF IInv, TypeOK
  <2>2. CASE UNCHANGED committed
    BY <2>1, <2>2
  <2>3. ASSUME NEW q \in Partitions, OtherMember(q)
        PROVE  committed'[p] >= committed[p]
    BY <2>1, <2>3 DEF OtherMember
  <2>4. ASSUME NEW q \in Partitions, CommitRecords(q)
        PROVE  committed'[p] >= committed[p]
    <3> DEFINE target == CommitTarget(handled[q], batch[q])
    <3>1. CASE UNCHANGED committed
      BY <2>1, <3>1
    <3>2. CASE /\ target # NoRecord /\ q \in owned
               /\ committed' = [committed EXCEPT ![q] = target + 1]
      <4>1. target \in batch[q] /\ batch[q] \in SUBSET Offsets
        BY <1>1, <2>4, <3>2, CommitInBatch DEF CommitRecords
      <4>2. committed[q] <= target /\ target \in Nat
        BY <1>1, <3>2, <4>1 DEF IInv, SafetyInv, OrderInv, Offsets
      <4> QED BY <2>1, <3>2, <4>2
    <3> QED BY <2>4, <3>1, <3>2 DEF CommitRecords, Die, brokerVars
  <2> QED BY <1>1, <2>2, <2>3, <2>4, WhoCommits
<1>2. Spec => []IInv
  BY SafetyInvariance DEF IInv
<1> QED BY <1>1, <1>2, PTL DEF Spec, CommittedNeverMovesBack

\* Within its batch, a commit covers processed records only.
THEOREM CommitsCoverHandled == Spec => CommitCoversHandled
<1> DEFINE Covers(p) ==
      gor[p] = "commit" /\ committed'[p] # committed[p] /\ gor'[p] # "commit"
        => \A o \in batch[p] : o < committed'[p] => o \in handled[p]
<1>1. ASSUME IInv, [Next]_vars PROVE \A p \in Partitions : Covers(p)
  <2> SUFFICES ASSUME NEW p \in Partitions, gor[p] = "commit",
                      committed'[p] # committed[p], gor'[p] # "commit"
               PROVE  \A o \in batch[p] : o < committed'[p] => o \in handled[p]
    OBVIOUS
  <2>1. CommitRecords(p)
    <3>1. ASSUME NEW q \in Partitions, OtherMember(q) PROVE FALSE
      BY <3>1 DEF OtherMember, goroutineVars
    <3>2. ASSUME NEW q \in Partitions, CommitRecords(q), q # p PROVE FALSE
      BY <3>2, <1>1 DEF CommitRecords, Die, brokerVars, IInv, TypeOK
    <3> QED BY <1>1, <3>1, <3>2, WhoCommits
  <2> DEFINE target == CommitTarget(handled[p], batch[p])
  <2>2. target # NoRecord /\ committed' = [committed EXCEPT ![p] = target + 1]
    BY <2>1 DEF CommitRecords, Die, brokerVars
  <2>3. /\ target \in batch[p] /\ batch[p] \in SUBSET Offsets
        /\ \A o \in batch[p] : o <= target => o \in handled[p]
    BY <1>1, <2>2, CommitInBatch
  <2>4. committed'[p] = target + 1
    BY <1>1, <2>2 DEF IInv, TypeOK
  <2> QED BY <2>3, <2>4 DEF Offsets
<1>2. Spec => []IInv
  BY SafetyInvariance DEF IInv
<1> QED BY <1>1, <1>2, PTL DEF Spec, CommitCoversHandled

\* The callbacks never write the consumers map while pollRecords reads it.
THEOREM MapIsStable == Spec => MapStableDuringDispatch
<1>1. ASSUME IInv, [Next]_vars, pollPC = "dispatch", proc' = "up"
      PROVE  consumers' = consumers
  <2>1. pollerHeld /\ ~CallbackFree
    BY <1>1 DEF IInv, SafetyInv, PollerInv, CallbackFree
  <2>2. ASSUME NEW reason \in {"exited"} \cup Faults, Die(reason) PROVE FALSE
    BY <1>1, <2>2 DEF Die, Faults
  <2>3. CASE PollStep
    BY <2>3 DEF PollStep, PollLoop, PollRecords, PollCanceled, CheckContext,
       AllowRebalance, DispatchNext, DispatchSend, DispatchCancelled, goroutineVars
  <2>4. CASE \E p \in Partitions : ConsumerStep(p)
    BY <2>2, <2>4 DEF ConsumerStep, ConsumeQuit, ProcessRecords, CommitRecords, Faults
  <2>5. CASE Rebalance
    BY <2>1, <2>5 DEF Rebalance, assigned, AssignReady, lost, LostReady, lostReturn,
       goroutineVars
  <2>6. CASE ShutdownStep
    BY <2>1, <2>2, <2>6 DEF ShutdownStep, gracefulShutdown, RangeDone, ShutdownWaited,
       CloseLeave, CloseReturn, Exit, ShutDownConsumer, goroutineVars
  <2>7. CASE Environment
    BY <2>2, <2>7 DEF Environment, Cancel, Kill, Restart, SessionExpire, FetchError,
       MapFault, OtherMember, goroutineVars, Faults
  <2>8. CASE UNCHANGED vars
    BY <2>8 DEF vars, goroutineVars
  <2> QED BY <1>1, <2>3, <2>4, <2>5, <2>6, <2>7, <2>8 DEF Next
<1>2. Spec => []IInv
  BY SafetyInvariance DEF IInv
<1> QED BY <1>1, <1>2, PTL DEF Spec, MapStableDuringDispatch

\* lost never meets a partition without a consumer, be it called for a
\* rebalance, for an expired session or by Close after gracefulShutdown.
THEOREM ConsumersAreFound == Spec => []LostFindsConsumer
<1>1. Init => LostFindsConsumer
  BY DEF Init, ProcessInit, LostFindsConsumer
<1>2. IInv /\ LostFindsConsumer /\ [Next]_vars => LostFindsConsumer'
  <2> SUFFICES ASSUME IInv, proc # "nilConsumer", [Next]_vars
               PROVE  proc' # "nilConsumer"
    BY DEF LostFindsConsumer
  <2>1. session \subseteq consumers
    BY DEF IInv, SafetyInv, PollerInv
  <2>2. CASE PollStep
    BY <2>2 DEF PollStep, PollLoop, PollRecords, PollCanceled, CheckContext,
       AllowRebalance, DispatchNext, DispatchSend, DispatchCancelled
  <2>3. CASE \E p \in Partitions : ConsumerStep(p)
    BY <2>3 DEF ConsumerStep, ConsumeQuit, ProcessRecords, CommitRecords, Die
  <2>4. CASE Rebalance
    BY <2>1, <2>4 DEF Rebalance, assigned, lost, LostReady, TakeAway, lostReturn
  <2>5. CASE ShutdownStep
    BY <2>1, <2>5 DEF ShutdownStep, gracefulShutdown, RangeDone, ShutdownWaited,
       CloseLeave, TakeAway, CloseReturn, Exit, Die, ShutDownConsumer
  <2>6. CASE Environment
    BY <2>6 DEF Environment, Cancel, Kill, Restart, SessionExpire, FetchError,
       MapFault, OtherMember, Die
  <2>7. CASE UNCHANGED vars
    BY <2>7 DEF vars
  <2> QED BY <2>2, <2>3, <2>4, <2>5, <2>6, <2>7 DEF Next
<1>3. Spec => []IInv
  BY SafetyInvariance DEF IInv
<1> QED BY <1>1, <1>2, <1>3, PTL DEF Spec
-----------------------------------------------------------------------------
(* The consumer group implements AtLeastOnce. *)

\* Close has emptied the session before it waits for the last callback, and
\* that one has returned before Start does: the drain of Close covers also the
\* consumers that gracefulShutdown's range did not come across.
ClosingInv ==
  /\ mainPC \in {"leaving", "stopped"} => session = {}
  /\ mainPC = "stopped" => lostWait = {}

\* Nothing starts a session or a callback again once Close has begun to leave.
LEMMA ClosingInvariance == Spec => []ClosingInv
<1>1. Init => ClosingInv
  BY DEF Init, ProcessInit, ClosingInv
<1>2. ClosingInv /\ [Next]_vars => ClosingInv'
  <2> SUFFICES ASSUME ClosingInv, [Next]_vars PROVE ClosingInv'
    OBVIOUS
  <2> USE DEF ClosingInv, Die
  <2>1. CASE PollStep
    BY <2>1 DEF PollStep, PollLoop, PollRecords, PollCanceled, CheckContext, AllowRebalance,
       DispatchNext, DispatchSend, DispatchCancelled, clientVars, mainVars
  <2>2. CASE \E p \in Partitions : ConsumerStep(p)
    BY <2>2 DEF ConsumerStep, ConsumeQuit, ProcessRecords, CommitRecords, clientVars, mainVars
  <2>3. CASE Rebalance
    BY <2>3 DEF Rebalance, assigned, AssignReady, lost, LostReady, TakeAway, lostReturn,
       GroupManaged
  <2>4. CASE ShutdownStep
    BY <2>4 DEF ShutdownStep, gracefulShutdown, RangeDone, ShutdownWaited, CloseLeave,
       TakeAway, CloseReturn, Exit, ShutDownConsumer, clientVars
  <2>5. CASE Environment
    BY <2>5 DEF Environment, Cancel, Kill, Restart, SessionExpire, FetchError, MapFault,
       OtherMember, clientVars, mainVars
  <2>6. CASE UNCHANGED vars
    BY <2>6 DEF vars, clientVars, mainVars
  <2> QED BY <2>1, <2>2, <2>3, <2>4, <2>5, <2>6 DEF Next
<1> QED BY <1>1, <1>2, PTL DEF Spec

-----------------------------------------------------------------------------
\* A step that moves no goroutine into or out of a batch, and changes neither
\* the process, the tried records nor the commits, is none to the promise.
LEMMA Unseen ==
  ASSUME UNCHANGED <<proc, attempted, committed>>, Busy' = Busy
  PROVE  UNCHANGED Promise!vars
BY DEF Promise!vars, Mode

\* A process that dies, whatever its goroutines hold, crashes.
LEMMA DieCrashes ==
  ASSUME proc = "up", NEW reason \in Faults, Die(reason)
  PROVE  Promise!Crash
<1>1. Busy' = {}
  BY DEF Die, Busy
<1>2. Mode = "running" /\ Mode' = "crashed"
  BY DEF Die, Mode, Faults
<1> QED BY <1>1, <1>2 DEF Promise!Crash, Die, brokerVars

\* main only returns when no goroutine holds a batch.
LEMMA ExitStops ==
  ASSUME IInv, ClosingInv, Exit
  PROVE  Promise!Stop
<1>1. Busy = {}
  <2>1. \A p \in Partitions : gor[p] = "done"
    BY DEF IInv, SafetyInv, GoroutineInv, ClosingInv, Exit
  <2> QED BY <2>1 DEF Busy
<1>2. Busy' = {}
  BY DEF Exit, Die, Busy
<1>3. Mode = "running" /\ Mode' = "stopped"
  BY DEF Exit, Die, Mode
<1> QED BY <1>1, <1>2, <1>3 DEF Promise!Stop, Exit, Die, brokerVars

\* A goroutine receives records: its partition takes a batch.
LEMMA DispatchTakes ==
  ASSUME IInv, NEW p \in Partitions, DispatchSend(p)
  PROVE  Promise!Take(p)
<1>1. Mode = "running" /\ Mode' = Mode
  BY DEF DispatchSend, Mode
<1>2. p \notin Busy /\ Busy' = Busy \cup {p}
  BY DEF DispatchSend, Busy, IInv, TypeOK
<1> QED BY <1>1, <1>2 DEF Promise!Take, DispatchSend, brokerVars

\* ProcessRecords tries the whole batch.
LEMMA ProcessTries ==
  ASSUME IInv, NEW p \in Partitions, ProcessRecords(p)
  PROVE  Promise!Try(p)
<1>1. Mode = "running" /\ Mode' = Mode
  BY DEF ProcessRecords, Mode
<1>2. p \in Busy /\ Busy' = Busy
  BY DEF ProcessRecords, Busy, IInv, TypeOK
<1>3. batch[p] \in SUBSET (0 .. LogSize - 1)
  BY DEF IInv, TypeOK, Offsets
<1>4. attempted' = [attempted EXCEPT ![p] = @ \cup batch[p]]
  BY DEF ProcessRecords
<1> QED BY <1>1, <1>2, <1>3, <1>4 DEF Promise!Try, ProcessRecords, brokerVars

\* A commit that does not kill the process finishes the batch, whether or not
\* the broker accepts it, at an offset before which everything was tried.
LEMMA CommitFinishes ==
  ASSUME IInv, NEW p \in Partitions, CommitRecords(p),
         CommitTarget(handled[p], batch[p]) # NoRecord
  PROVE  Promise!Finish(p)
<1> DEFINE target == CommitTarget(handled[p], batch[p])
<1>1. /\ gor[p] = "commit" /\ gor' = [gor EXCEPT ![p] = "select"]
      /\ \/ p \in owned /\ committed' = [committed EXCEPT ![p] = target + 1]
         \/ UNCHANGED committed
      /\ proc = "up" /\ UNCHANGED <<proc, attempted>>
  BY DEF CommitRecords
<1>2. Mode = "running" /\ Mode' = Mode
  BY <1>1 DEF Mode
<1>3. p \in Busy /\ Busy' = Busy \ {p}
  BY <1>1 DEF Busy, IInv, TypeOK
<1>4. CASE p \in owned /\ committed' = [committed EXCEPT ![p] = target + 1]
  <2>1. target \in batch[p] /\ batch[p] \in SUBSET Offsets
    BY <1>1, CommitInBatch
  <2>2. committed[p] \in 0 .. LogSize /\ committed[p] <= target
    BY <1>4, <2>1 DEF IInv, SafetyInv, OrderInv, TypeOK
  <2>3. target + 1 \in committed[p] .. LogSize
    BY <2>1, <2>2 DEF Offsets
  <2>4. \A o \in 0 .. (target + 1) - 1 : o \in attempted[p]
    <3>1. batch[p] \subseteq attempted[p]
      BY <1>1 DEF IInv, SafetyInv, GoroutineInv
    <3>2. \A o \in Offsets : o < target => o \in attempted[p] \cup batch[p]
      BY <2>1 DEF IInv, SafetyInv, CoverInv
    <3> QED BY <2>1, <3>1, <3>2 DEF Offsets
  <2> HIDE DEF target
  <2> QED BY <1>1, <1>2, <1>3, <1>4, <2>3, <2>4 DEF Promise!Finish
<1>5. CASE UNCHANGED committed
  BY <1>1, <1>2, <1>3, <1>5 DEF Promise!Finish
<1> QED BY <1>1, <1>4, <1>5

\* Another member of the group goes on where this one does not own.
LEMMA OtherMemberElsewhere ==
  ASSUME NEW p \in Partitions, OtherMember(p)
  PROVE  Promise!Elsewhere(p)
<1>1. Busy' = Busy /\ Mode' = Mode
  BY DEF OtherMember, goroutineVars, Busy, Mode
<1> QED BY <1>1 DEF Promise!Elsewhere, OtherMember

-----------------------------------------------------------------------------
\* Each step of the member is a step of the promise, or is not seen in it.
LEMMA StepKeepsPromise ==
  ASSUME IInv, ClosingInv, [Next]_vars
  PROVE  [Promise!Next]_(Promise!vars)
<1>1. CASE PollStep
  <2>1. ASSUME NEW p \in Partitions, DispatchSend(p) PROVE Promise!Next
    BY <2>1, DispatchTakes DEF Promise!Next
  <2>2. CASE \/ PollLoop \/ PollRecords \/ PollCanceled \/ CheckContext \/ AllowRebalance
             \/ \E p \in Partitions : DispatchNext(p) \/ DispatchCancelled(p)
    <3>1. UNCHANGED <<proc, gor, attempted, committed>>
      BY <2>2 DEF PollLoop, PollRecords, PollCanceled, CheckContext, AllowRebalance,
         DispatchNext, DispatchCancelled, goroutineVars, brokerVars
    <3> QED BY <3>1, Unseen DEF Busy
  <2> QED BY <1>1, <2>1, <2>2 DEF PollStep
<1>2. CASE \E p \in Partitions : ConsumerStep(p)
  <2>1. ASSUME NEW p \in Partitions, ConsumeQuit(p) PROVE UNCHANGED Promise!vars
    <3>1. Busy' = Busy
      BY <2>1 DEF ConsumeQuit, Busy, IInv, TypeOK
    <3> QED BY <2>1, <3>1, Unseen DEF ConsumeQuit, brokerVars
  <2>2. ASSUME NEW p \in Partitions, ProcessRecords(p) PROVE Promise!Next
    BY <2>2, ProcessTries DEF Promise!Next
  <2>3. ASSUME NEW p \in Partitions, CommitRecords(p) PROVE Promise!Next
    <3>1. CASE CommitTarget(handled[p], batch[p]) = NoRecord
      BY <2>3, <3>1, DieCrashes DEF CommitRecords, Faults, Promise!Next
    <3>2. CASE CommitTarget(handled[p], batch[p]) # NoRecord
      BY <2>3, <3>2, CommitFinishes DEF Promise!Next
    <3> QED BY <3>1, <3>2
  <2> QED BY <1>2, <2>1, <2>2, <2>3 DEF ConsumerStep
<1>3. CASE Rebalance
  <2>1. ASSUME NEW S \in SUBSET Partitions, assigned(S) PROVE UNCHANGED Promise!vars
    <3>1. \A p \in S : gor[p] = "done" /\ gor'[p] = "select"
      BY <2>1 DEF assigned, AssignReady, CallbackFree, IInv, SafetyInv, GoroutineInv
    <3>2. \A p \in Partitions \ S : gor'[p] = gor[p]
      BY <2>1 DEF assigned
    <3>3. Busy' = Busy
      BY <3>1, <3>2 DEF Busy
    <3> QED BY <2>1, <3>3, Unseen DEF assigned
  <2>2. ASSUME NEW S \in SUBSET Partitions, lost(S)
        PROVE  Promise!Next \/ UNCHANGED Promise!vars
    <3>1. CASE S \subseteq consumers
      BY <2>2, <3>1, Unseen DEF lost, TakeAway, brokerVars, Busy
    <3>2. CASE ~(S \subseteq consumers)
      BY <2>2, <3>2, DieCrashes DEF lost, Faults, Promise!Next
    <3> QED BY <3>1, <3>2
  <2>3. CASE lostReturn
    BY <2>3, Unseen DEF lostReturn, goroutineVars, Busy
  <2> QED BY <1>3, <2>1, <2>2, <2>3 DEF Rebalance
<1>4. CASE ShutdownStep
  <2>1. CASE CloseLeave
    <3>1. CASE session \subseteq consumers
      BY <2>1, <3>1, Unseen DEF CloseLeave, TakeAway, brokerVars, Busy
    <3>2. CASE ~(session \subseteq consumers)
      BY <2>1, <3>2, DieCrashes DEF CloseLeave, Faults, Promise!Next
    <3> QED BY <3>1, <3>2
  <2>2. CASE Exit
    BY <2>2, ExitStops DEF Promise!Next
  <2>3. CASE \/ gracefulShutdown \/ RangeDone \/ ShutdownWaited \/ CloseReturn
             \/ \E p \in Partitions : ShutDownConsumer(p)
    <3>1. UNCHANGED <<proc, gor, attempted, committed>>
      BY <2>3 DEF gracefulShutdown, RangeDone, ShutdownWaited, CloseReturn,
         ShutDownConsumer, goroutineVars, brokerVars
    <3> QED BY <3>1, Unseen DEF Busy
  <2> QED BY <1>4, <2>1, <2>2, <2>3 DEF ShutdownStep
<1>5. CASE Environment
  <2>1. CASE Kill \/ FetchError \/ MapFault
    BY <2>1, DieCrashes DEF Kill, FetchError, MapFault, Faults, Promise!Next
  <2>2. CASE Restart
    <3>1. Mode # "running" /\ Mode' = "running" /\ Busy' = Busy
      BY <2>2 DEF Restart, Mode, Busy, goroutineVars
    <3> QED BY <2>2, <3>1 DEF Restart, Promise!Start, Promise!Next
  <2>3. CASE Cancel \/ SessionExpire
    BY <2>3, Unseen DEF Cancel, SessionExpire, goroutineVars, brokerVars, Busy
  <2>4. ASSUME NEW p \in Partitions, OtherMember(p) PROVE Promise!Next
    BY <2>4, OtherMemberElsewhere DEF Promise!Next
  <2> QED BY <1>5, <2>1, <2>2, <2>3, <2>4 DEF Environment
<1>6. CASE UNCHANGED vars
  BY <1>6, Unseen DEF vars, goroutineVars, brokerVars, Busy
<1> QED BY <1>1, <1>2, <1>3, <1>4, <1>5, <1>6 DEF Next

\* The consumer group keeps the promise of AtLeastOnce: whatever rebalances,
\* expires, crashes or shuts down, commits only advance, over tried records,
\* and main returns only when no goroutine holds a batch.
THEOREM KeepsPromise == Spec => ImplementsAtLeastOnce
<1>1. Init => Promise!Init
  <2> SUFFICES ASSUME Init PROVE Promise!Init
    OBVIOUS
  <2>1. Busy = {} /\ Mode = "running"
    BY DEF Init, ProcessInit, Busy, Mode
  <2> QED BY <2>1 DEF Init, ProcessInit, Promise!Init, NoOffsets
<1>2. IInv /\ ClosingInv /\ [Next]_vars => [Promise!Next]_(Promise!vars)
  BY StepKeepsPromise
<1>3. Spec => []IInv
  BY SafetyInvariance DEF IInv
<1> QED BY <1>1, <1>2, <1>3, ClosingInvariance, PTL
        DEF Spec, ImplementsAtLeastOnce, Promise!Spec
=============================================================================
