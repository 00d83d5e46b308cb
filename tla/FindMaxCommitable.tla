------------------------- MODULE FindMaxCommitable -------------------------
(***************************************************************************)
(* findMaxCommitableRecord as the code computes it: loops over the batch   *)
(* and over the processed records, which come in the order in which the    *)
(* goroutines of ProcessEvents appended them under the mutex.              *)
(***************************************************************************)
EXTENDS ConsumerGroup, SequencesExt

CONSTANTS
  MaxOffset,  \* bound: offsets are 0 .. MaxOffset
  MaxInt64    \* the sentinel of an empty minimum

ASSUME SentinelAssumption == MaxOffset \in Nat /\ MaxInt64 \in Nat /\ MaxOffset < MaxInt64

\* The loop over the batch: the minimum offset of the records that are not in the
\* processed map, after each record.
MinUnprocessed(processed, records) ==
  LET min[i \in 0 .. Len(records)] ==
        IF i = 0 THEN [found |-> FALSE, offset |-> MaxInt64]
        ELSE IF /\ records[i] \notin ToSet(processed)
                /\ ~min[i - 1].found \/ records[i] < min[i - 1].offset
             THEN [found |-> TRUE, offset |-> records[i]] ELSE min[i - 1]
  IN  min

MinUnprocessedOffset(processed, records) ==
  MinUnprocessed(processed, records)[Len(records)].offset

\* Faulty variant: the first processed record found.
FirstRecord(processed, minUnprocessed) ==
  FoldLeft(LAMBDA best, r : IF r < minUnprocessed /\ best = NoRecord THEN r ELSE best,
           NoRecord, processed)

\* The last loop: maxRecord after each processed record, the one with the largest
\* offset below that minimum.
BestRecords(processed, minUnprocessed) ==
  LET best[i \in 0 .. Len(processed)] ==
        IF i = 0 THEN NoRecord
        ELSE IF /\ processed[i] < minUnprocessed
                /\ best[i - 1] = NoRecord \/ processed[i] > best[i - 1]
             THEN processed[i] ELSE best[i - 1]
  IN  best

MaxRecord(processed, minUnprocessed) ==
  BestRecords(processed, minUnprocessed)[Len(processed)]

FindMaxLoops(processed, records) ==
  MaxRecord(processed, MinUnprocessedOffset(processed, records))

\* processRecordsAndCommit compares lengths, not contents.
CommitLoops(processed, records) ==
  IF Len(processed) # Len(records) THEN FindMaxLoops(processed, records) ELSE Last(records)

\* A fetched batch is in offset order; compaction may leave gaps in it.
Batches ==
  {b \in UNION {[1 .. n -> 0 .. MaxOffset] : n \in 1 .. MaxOffset + 1} :
     \A i, j \in DOMAIN b : i < j => b[i] < b[j]}

\* What processedRecords may hold: some of the batch, in the order in which the
\* goroutines appended under the mutex.
Completions(records) ==
  {s \in UNION {[1 .. n -> ToSet(records)] : n \in 0 .. Len(records)} :
     \A i, j \in DOMAIN s : s[i] = s[j] => i = j}

\* The loops make the choice of CommitTarget, whatever part of a batch was
\* processed and in whatever order its goroutines finished.
FindTheTarget ==
  \A records \in Batches : \A processed \in Completions(records) :
    CommitLoops(processed, records) = CommitTarget(ToSet(processed), ToSet(records))

\* CommitTarget, by which the consumer group commits, is what the loops of
\* processRecordsAndCommit and findMaxCommitableRecord compute.  (It does not
\* depend on the state, so that TLC need not evaluate it but in the first.)
LoopsAgree == Init => FindTheTarget
=============================================================================
