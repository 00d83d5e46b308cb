----------------------- MODULE ConsumerGroupRefinement -----------------------
(***************************************************************************)
(* ConsumerGroup implements AtLeastOnce.                                   *)
(***************************************************************************)
EXTENDS ConsumerGroup

\* A partition has a batch in hand from the receive of its records until
\* CommitRecords has returned.
Busy == {p \in Partitions : gor[p] \in {"process", "commit"}}

Mode == IF proc = "up" THEN "running" ELSE IF proc = "exited" THEN "stopped" ELSE "crashed"

Promise == INSTANCE AtLeastOnce
             WITH mode <- Mode, busy <- Busy, tried <- attempted, committed <- committed

\* Whatever rebalances, expires, crashes or shuts down, each step is one the
\* abstract member may take: in particular Start only returns, and main only
\* exits, when no goroutine holds a batch, also when gracefulShutdown's range
\* missed its consumer.
ImplementsAtLeastOnce == Promise!Spec
=============================================================================
