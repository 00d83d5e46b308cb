----------------------------- MODULE Redelivery -----------------------------
(***************************************************************************)
(* ConsumerGroup with the history of what ProcessRecords reported as       *)
(* processed, to state what its comments promise about the records it did  *)
(* not report.                                                             *)
(***************************************************************************)
EXTENDS ConsumerGroup

VARIABLE processed  \* offsets some member's ProcessRecords reported processed

allVars == <<vars, processed>>

\* This member's ProcessRecords returns, or another member commits a record.
NewlyProcessed(p) ==
  IF gor[p] = "process" /\ gor'[p] = "commit" THEN handled'[p]
  ELSE IF gor'[p] = gor[p] /\ committed'[p] # committed[p] THEN {committed[p]}
  ELSE {}

RedeliveryInit == Init /\ processed = NoOffsets

RedeliveryNext ==
  /\ Next
  /\ processed' = [p \in Partitions |-> processed[p] \cup NewlyProcessed(p)]

RedeliverySpec == RedeliveryInit /\ [][RedeliveryNext]_allVars

\* "For retryable errors, we should avoid commiting the record, It will be
\* consumed again and reprocessed" (processor.go): no committed offset passes
\* over a record that was never reported processed.
UnprocessedIsNotCommitted ==
  \A p \in Partitions : \A o \in Offsets : o < committed[p] => o \in processed[p]
=============================================================================
