---------------------------- MODULE AtLeastOnce ----------------------------
(***************************************************************************)
(* What a member of the consumer group promises the rest of the system:    *)
(* an offset is committed only when every record before it has been tried, *)
(* commits only advance, and a process that stops by itself has no batch   *)
(* in hand.  It says nothing of polls, callbacks, channels or sessions.    *)
(***************************************************************************)
EXTENDS Integers

CONSTANTS Partitions, LogSize

VARIABLES
  mode,       \* of the process: "running", "stopped" by itself, or "crashed"
  busy,       \* partitions with a batch in hand
  tried,      \* offsets that were handed to the processing code
  committed   \* committed offset of the group
vars == <<mode, busy, tried, committed>>

Init ==
  /\ mode = "running" /\ busy = {}
  /\ tried = [p \in Partitions |-> {}]
  /\ committed = [p \in Partitions |-> 0]

Take(p) ==
  /\ mode = "running" /\ p \notin busy
  /\ busy' = busy \cup {p}
  /\ UNCHANGED <<mode, tried, committed>>

Try(p) ==
  /\ mode = "running" /\ p \in busy
  /\ \E S \in SUBSET (0 .. LogSize - 1) : tried' = [tried EXCEPT ![p] = @ \cup S]
  /\ UNCHANGED <<mode, busy, committed>>

\* The batch is over; the commit may also fail.
Finish(p) ==
  /\ mode = "running" /\ p \in busy
  /\ busy' = busy \ {p}
  /\ \/ UNCHANGED committed
     \/ \E offset \in committed[p] .. LogSize :
          /\ \A o \in 0 .. offset - 1 : o \in tried[p]
          /\ committed' = [committed EXCEPT ![p] = offset]
  /\ UNCHANGED <<mode, tried>>

\* Another member tries and commits the next record.
Elsewhere(p) ==
  /\ committed[p] < LogSize
  /\ tried' = [tried EXCEPT ![p] = @ \cup {committed[p]}]
  /\ committed' = [committed EXCEPT ![p] = @ + 1]
  /\ UNCHANGED <<mode, busy>>

Stop ==
  /\ mode = "running" /\ busy = {}
  /\ mode' = "stopped"
  /\ UNCHANGED <<busy, tried, committed>>

Crash ==
  /\ mode = "running"
  /\ mode' = "crashed" /\ busy' = {}
  /\ UNCHANGED <<tried, committed>>

Start ==
  /\ mode # "running"
  /\ mode' = "running"
  /\ UNCHANGED <<busy, tried, committed>>

Next ==
  \/ \E p \in Partitions : Take(p) \/ Try(p) \/ Finish(p) \/ Elsewhere(p)
  \/ Stop \/ Crash \/ Start

Spec == Init /\ [][Next]_vars
=============================================================================
