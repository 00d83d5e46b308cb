--------------------------- MODULE CommitOffsets ---------------------------
(***************************************************************************)
(* Which offset a partition consumer commits after one batch               *)
(* (events-processor/config/kafka/consumer.go).                            *)
(*                                                                         *)
(* A batch is the set of the offsets of its records.  Within a partition   *)
(* an offset names one record, so the "<key>-<offset>" strings the code    *)
(* builds for its lookups compare exactly like the offsets themselves.     *)
(***************************************************************************)
EXTENDS Integers, FiniteSetsExt

\* The nil *kgo.Record.
NoRecord == -1

(***************************************************************************)
(* The processed record with the largest offset below every unprocessed    *)
(* record, nil when the first record itself is unprocessed.                *)
(***************************************************************************)
Committable(processed, records) ==
  {r \in processed : \A u \in records \ processed : r < u}

\* Faulty variant: forgets the unprocessed records before the last processed.
findMaxProcessedRecord(processed, records) ==
  IF processed = {} THEN NoRecord ELSE Max(processed)

findMaxCommitableRecord(processed, records) ==
  LET before == Committable(processed, records)
  IN  IF before = {} THEN NoRecord ELSE Max(before)

\* Faulty variant: hands CommitRecords the next offset instead of a record's.
CommitTargetNextOffset(processed, records) ==
  IF processed = records THEN Max(records) + 1
  ELSE findMaxCommitableRecord(processed, records)

(***************************************************************************)
(* processRecordsAndCommit: the whole batch when everything was processed, *)
(* the single record found above otherwise.  CommitRecords keeps, per      *)
(* partition, the highest offset it is given.                              *)
(***************************************************************************)
CommitTarget(processed, records) ==
  IF processed = records THEN Max(records)
  ELSE findMaxCommitableRecord(processed, records)
=============================================================================
