-------------------------- MODULE MCConsumerGroup --------------------------
(* Model-checking instances of ConsumerGroup. *)
EXTENDS ConsumerGroupRefinement, FindMaxCommitable, TLC

Symmetry == Permutations(Partitions)

(***************************************************************************)
(* A process that joins a group which has tried and committed the first    *)
(* record of every partition but one: that one still has LogSize records,  *)
(* the others LogSize - 1.  It keeps two partitions and several batches    *)
(* within reach of the liveness run.                                       *)
(***************************************************************************)
Behind == CHOOSE p \in Partitions : TRUE

ResumedInit ==
  /\ ProcessInit
  /\ committed = [p \in Partitions |-> IF p = Behind THEN 0 ELSE 1]
  /\ attempted = [p \in Partitions |-> IF p = Behind THEN {} ELSE {0}]

ResumedFairSpec == ResumedInit /\ [][Next]_vars /\ Fairness
=============================================================================
