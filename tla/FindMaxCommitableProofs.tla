----------------------- MODULE FindMaxCommitableProofs -----------------------
(***************************************************************************)
(* The loops of findMaxCommitableRecord compute CommitTarget, for batches  *)
(* of any length, with any gaps, and for any order of completion.          *)
(*                                                                         *)
(* The loops are recursive functions, of which nothing is known but their  *)
(* definition: that a loop has the values its body gives is proved from    *)
(* the least place where it would not, and so is the invariant of each.    *)
(***************************************************************************)
EXTENDS FindMaxCommitable, FiniteSetTheorems, WellFoundedInduction, TLAPS

\* A non-empty set of naturals has a least element.
LEMMA LeastOfNaturals ==
  ASSUME NEW T \in SUBSET Nat, T # {}
  PROVE  \E n \in T : \A m \in T : n <= m
<1>1. T \subseteq Nat /\ T # {}
  OBVIOUS
<1>2. PICK n \in T : \A m \in T : ~(<<m, n>> \in OpToRel(<, Nat))
  BY <1>1, NatLessThanWellFounded, WFMin, Zenon
<1>3. \A m \in T : ~(m < n)
  BY <1>2 DEF OpToRel
<1> QED BY <1>3

\* A set of places of a loop that holds place 0, and each place after one it holds,
\* holds them all.
LEMMA EveryPlace ==
  ASSUME NEW n \in Nat, NEW Good \in SUBSET (0 .. n), 0 \in Good,
         \A i \in 1 .. n : i - 1 \in Good => i \in Good
  PROVE  Good = 0 .. n
<1> DEFINE Bad == (0 .. n) \ Good
<1> SUFFICES ASSUME Bad # {} PROVE FALSE
  OBVIOUS
<1>1. Bad \in SUBSET Nat
  OBVIOUS
<1>2. PICK i \in Bad : \A j \in Bad : i <= j
  BY <1>1, LeastOfNaturals
<1>3. i \in 1 .. n /\ i - 1 \in 0 .. n /\ ~(i <= i - 1)
  BY <1>2
<1>4. i - 1 \notin Bad
  BY <1>2, <1>3
<1> QED BY <1>2, <1>3, <1>4

\* A loop over n places from init, whose body is step, has a value at every place.
LEMMA LoopExists ==
  ASSUME NEW V, NEW init \in V, NEW n \in Nat, NEW step \in [1 .. n -> [V -> V]]
  PROVE  \E f \in [0 .. n -> V] :
           f[0] = init /\ \A i \in 1 .. n : f[i] = step[i][f[i - 1]]
<1> DEFINE Loop(m) == \E f \in [0 .. m -> V] :
                        f[0] = init /\ \A i \in 1 .. m : f[i] = step[i][f[i - 1]]
           Good == {m \in 0 .. n : Loop(m)}
<1>1. 0 \in Good
  <2> DEFINE f == [i \in 0 .. 0 |-> init]
  <2>1. f \in [0 .. 0 -> V] /\ f[0] = init /\ \A i \in 1 .. 0 : f[i] = step[i][f[i - 1]]
    OBVIOUS
  <2> HIDE DEF f
  <2>2. Loop(0)
    BY <2>1
  <2>3. 0 \in 0 .. n
    OBVIOUS
  <2> HIDE DEF Loop
  <2> QED BY <2>2, <2>3
<1>2. ASSUME NEW m \in 1 .. n, m - 1 \in Good
      PROVE  m \in Good
  <2>1. PICK f \in [0 .. m - 1 -> V] :
          f[0] = init /\ \A i \in 1 .. m - 1 : f[i] = step[i][f[i - 1]]
    BY <1>2
  <2> DEFINE g == [i \in 0 .. m |-> IF i = m THEN step[m][f[m - 1]] ELSE f[i]]
  <2>2. m - 1 \in 0 .. m - 1 /\ f[m - 1] \in V /\ step[m] \in [V -> V]
    BY <2>1
  <2>3. step[m][f[m - 1]] \in V
    BY <2>2
  <2>4. \A i \in 0 .. m : i = m \/ i \in 0 .. m - 1
    OBVIOUS
  <2>5. \A i \in 0 .. m - 1 : i \in 0 .. m /\ i # m
    OBVIOUS
  <2>6. g \in [0 .. m -> V]
    BY <2>1, <2>3, <2>4
  <2>7. \A i \in 0 .. m - 1 : g[i] = f[i]
    BY <2>5
  <2>8. g[m] = step[m][g[m - 1]]
    BY <2>2, <2>7
  <2> HIDE DEF g
  <2>9. ASSUME NEW i \in 1 .. m PROVE g[i] = step[i][g[i - 1]]
    <3>1. CASE i = m
      BY <2>8, <3>1
    <3>2. CASE i # m
      <4>1. i \in 1 .. m - 1 /\ i \in 0 .. m - 1 /\ i - 1 \in 0 .. m - 1
        BY <3>2
      <4> QED BY <2>1, <2>7, <4>1
    <3> QED BY <3>1, <3>2
  <2>10. g[0] = init
    BY <2>1, <2>7
  <2>11. Loop(m)
    BY <2>6, <2>9, <2>10
  <2>12. m \in 0 .. n
    OBVIOUS
  <2> HIDE DEF Loop
  <2> QED BY <2>11, <2>12
<1> HIDE DEF Loop
<1>3. Good = 0 .. n
  <2>1. Good \in SUBSET (0 .. n)
    OBVIOUS
  <2> HIDE DEF Good
  <2> QED BY <1>1, <1>2, <2>1, EveryPlace
<1>4. n \in Good
  BY <1>3
<1> QED BY <1>4 DEF Loop

USE SentinelAssumption
-----------------------------------------------------------------------------
(* The two loops. *)

\* The loop over the batch, place by place.
LEMMA MinUnprocessedLoop ==
  ASSUME NEW processed, NEW records, NEW n \in Nat, Len(records) = n,
         \A i \in 1 .. n : records[i] \in Int
  PROVE  LET min == MinUnprocessed(processed, records)
         IN  /\ min[0] = [found |-> FALSE, offset |-> MaxInt64]
             /\ \A i \in 1 .. n :
                  min[i] = IF /\ records[i] \notin ToSet(processed)
                              /\ ~min[i - 1].found \/ records[i] < min[i - 1].offset
                           THEN [found |-> TRUE, offset |-> records[i]] ELSE min[i - 1]
<1> DEFINE V == [found : BOOLEAN, offset : Int]
           start == [found |-> FALSE, offset |-> MaxInt64]
           body(i, v) == IF /\ records[i] \notin ToSet(processed)
                            /\ ~v.found \/ records[i] < v.offset
                         THEN [found |-> TRUE, offset |-> records[i]] ELSE v
           step == [i \in 1 .. n |-> [v \in V |-> body(i, v)]]
           IsLoop(f) == f = [i \in 0 .. n |-> IF i = 0 THEN start ELSE body(i, f[i - 1])]
<1>1. start \in V
  OBVIOUS
<1>2. \A i \in 1 .. n : \A v \in V : body(i, v) \in V
  OBVIOUS
<1> HIDE DEF start, body, V
<1>3. step \in [1 .. n -> [V -> V]]
  BY <1>2
<1>4. PICK f \in [0 .. n -> V] : f[0] = start /\ \A i \in 1 .. n : f[i] = step[i][f[i - 1]]
  <2> HIDE DEF step
  <2> QED BY <1>1, <1>3, LoopExists
<1>5. \A i \in 1 .. n : i - 1 \in 0 .. n /\ i \in 0 .. n
  OBVIOUS
<1>6. \A i \in 1 .. n : f[i] = body(i, f[i - 1])
  BY <1>4, <1>5
<1>7. \A i \in 0 .. n : i = 0 \/ i \in 1 .. n
  OBVIOUS
<1>8. IsLoop(f)
  <2>1. f = [i \in 0 .. n |-> f[i]]
    BY <1>4
  <2>2. \A i \in 0 .. n : f[i] = IF i = 0 THEN start ELSE body(i, f[i - 1])
    BY <1>4, <1>6, <1>7
  <2> QED BY <2>1, <2>2
<1>9. MinUnprocessed(processed, records) = CHOOSE g : IsLoop(g)
  BY DEF MinUnprocessed, body, start
<1> DEFINE min == MinUnprocessed(processed, records)
<1>10. IsLoop(min)
  <2> HIDE DEF IsLoop
  <2> QED BY <1>8, <1>9
<1> HIDE DEF min
<1>11. min[0] = start /\ \A i \in 1 .. n : min[i] = body(i, min[i - 1])
  <2>1. 0 \in 0 .. n /\ \A i \in 1 .. n : i # 0
    OBVIOUS
  <2> QED BY <1>5, <1>10, <2>1
<1> QED BY <1>11 DEF min, body, start

\* The loop over the processed records, place by place.
LEMMA BestRecordsLoop ==
  ASSUME NEW processed, NEW bound \in Int, NEW n \in Nat, Len(processed) = n,
         \A i \in 1 .. n : processed[i] \in Int
  PROVE  LET best == BestRecords(processed, bound)
         IN  /\ best[0] = NoRecord
             /\ \A i \in 1 .. n :
                  best[i] = IF /\ processed[i] < bound
                               /\ best[i - 1] = NoRecord \/ processed[i] > best[i - 1]
                            THEN processed[i] ELSE best[i - 1]
<1> DEFINE V == Int
           body(i, v) == IF /\ processed[i] < bound
                            /\ v = NoRecord \/ processed[i] > v
                         THEN processed[i] ELSE v
           step == [i \in 1 .. n |-> [v \in V |-> body(i, v)]]
           IsLoop(f) == f = [i \in 0 .. n |-> IF i = 0 THEN NoRecord ELSE body(i, f[i - 1])]
<1>1. NoRecord \in V
  BY DEF NoRecord
<1>2. \A i \in 1 .. n : \A v \in V : body(i, v) \in V
  OBVIOUS
<1> HIDE DEF body, V
<1>3. step \in [1 .. n -> [V -> V]]
  BY <1>2
<1>4. PICK f \in [0 .. n -> V] :
        f[0] = NoRecord /\ \A i \in 1 .. n : f[i] = step[i][f[i - 1]]
  <2> HIDE DEF step
  <2> QED BY <1>1, <1>3, LoopExists
<1>5. \A i \in 1 .. n : i - 1 \in 0 .. n /\ i \in 0 .. n
  OBVIOUS
<1>6. \A i \in 1 .. n : f[i] = body(i, f[i - 1])
  BY <1>4, <1>5
<1>7. \A i \in 0 .. n : i = 0 \/ i \in 1 .. n
  OBVIOUS
<1>8. IsLoop(f)
  <2>1. f = [i \in 0 .. n |-> f[i]]
    BY <1>4
  <2>2. \A i \in 0 .. n : f[i] = IF i = 0 THEN NoRecord ELSE body(i, f[i - 1])
    BY <1>4, <1>6, <1>7
  <2> QED BY <2>1, <2>2
<1>9. BestRecords(processed, bound) = CHOOSE g : IsLoop(g)
  BY DEF BestRecords, body
<1> DEFINE best == BestRecords(processed, bound)
<1>10. IsLoop(best)
  <2> HIDE DEF IsLoop
  <2> QED BY <1>8, <1>9
<1> HIDE DEF best
<1>11. best[0] = NoRecord /\ \A i \in 1 .. n : best[i] = body(i, best[i - 1])
  <2>1. 0 \in 0 .. n /\ \A i \in 1 .. n : i # 0
    OBVIOUS
  <2> QED BY <1>5, <1>10, <2>1
<1> QED BY <1>11 DEF best, body

\* minUnprocessedOffset and foundUnprocessed after place i: the least offset up to
\* there that was not processed, if there is one.
IsMinUpTo(processed, records, i, m) ==
  /\ m.found \in BOOLEAN /\ m.offset \in Int
  /\ ~m.found => /\ m.offset = MaxInt64
                 /\ \A j \in 1 .. i : records[j] \in ToSet(processed)
  /\ m.found => /\ \E j \in 1 .. i : records[j] \notin ToSet(processed) /\ m.offset = records[j]
                /\ \A j \in 1 .. i : records[j] \notin ToSet(processed) => m.offset <= records[j]

\* The invariant of the loop over the batch.
LEMMA MinUnprocessedInv ==
  ASSUME NEW processed, NEW records, NEW n \in Nat, Len(records) = n,
         \A i \in 1 .. n : records[i] \in Int
  PROVE  IsMinUpTo(processed, records, n, MinUnprocessed(processed, records)[n])
<1> DEFINE min  == MinUnprocessed(processed, records)
           Good == {i \in 0 .. n : IsMinUpTo(processed, records, i, min[i])}
<1>1. /\ min[0] = [found |-> FALSE, offset |-> MaxInt64]
      /\ \A i \in 1 .. n :
           min[i] = IF /\ records[i] \notin ToSet(processed)
                       /\ ~min[i - 1].found \/ records[i] < min[i - 1].offset
                    THEN [found |-> TRUE, offset |-> records[i]] ELSE min[i - 1]
  BY MinUnprocessedLoop
<1> HIDE DEF min
<1>2. 0 \in Good
  <2>1. 0 \in 0 .. n /\ \A j \in 1 .. 0 : FALSE
    OBVIOUS
  <2>2. min[0].found = FALSE /\ min[0].offset = MaxInt64
    BY <1>1
  <2>3. min[0].found \in BOOLEAN /\ ~min[0].found
    BY <2>2
  <2>4. min[0].offset \in Int
    BY <2>2
  <2>5. IsMinUpTo(processed, records, 0, min[0])
    <3>1. \A j \in 1 .. 0 : records[j] \in ToSet(processed)
      BY <2>1
    <3> QED BY <2>2, <2>3, <2>4, <3>1, Zenon DEF IsMinUpTo
  <2> QED BY <2>1, <2>5
<1>3. ASSUME NEW i \in 1 .. n, i - 1 \in Good
      PROVE  i \in Good
  <2> DEFINE old == min[i - 1]
             new == min[i]
  <2>1. IsMinUpTo(processed, records, i - 1, old)
    BY <1>3
  <2>2. \A j \in 1 .. i : j \in 1 .. i - 1 \/ j = i
    OBVIOUS
  <2>3. i \in 1 .. i /\ i \in 0 .. n /\ \A j \in 1 .. i - 1 : j \in 1 .. i
    OBVIOUS
  <2>4. \A j \in 1 .. i : records[j] \in Int
    OBVIOUS
  <2>5. CASE records[i] \notin ToSet(processed) /\ (~old.found \/ records[i] < old.offset)
    <3>1. new = [found |-> TRUE, offset |-> records[i]]
      BY <1>1, <2>5
    <3>2. new.found = TRUE /\ new.offset = records[i]
      BY <3>1
    <3> HIDE DEF old, new
    <3>3. ASSUME NEW j \in 1 .. i, records[j] \notin ToSet(processed)
          PROVE  records[i] <= records[j]
      <4>1. CASE j = i
        BY <2>4, <4>1
      <4>2. CASE j \in 1 .. i - 1
        <5>1. old.found /\ old.offset <= records[j] /\ old.offset \in Int
          BY <2>1, <3>3, <4>2 DEF IsMinUpTo
        <5> QED BY <2>3, <2>4, <2>5, <5>1
      <4> QED BY <2>2, <4>1, <4>2
    <3>4. IsMinUpTo(processed, records, i, new)
      BY <2>3, <2>4, <2>5, <3>2, <3>3 DEF IsMinUpTo
    <3> QED BY <2>3, <3>4 DEF new
  <2>6. CASE ~(records[i] \notin ToSet(processed) /\ (~old.found \/ records[i] < old.offset))
    <3>1. new = old
      BY <1>1, <2>6
    <3> HIDE DEF old, new
    <3>2. CASE ~old.found
      <4>1. \A j \in 1 .. i : records[j] \in ToSet(processed)
        BY <2>1, <2>2, <2>6, <3>2 DEF IsMinUpTo
      <4>2. IsMinUpTo(processed, records, i, old)
        BY <2>1, <3>2, <4>1 DEF IsMinUpTo
      <4> QED BY <2>3, <3>1, <4>2 DEF new
    <3>3. CASE old.found
      <4>1. PICK k \in 1 .. i - 1 : records[k] \notin ToSet(processed) /\ old.offset = records[k]
        BY <2>1, <3>3 DEF IsMinUpTo
      <4>2. old.offset \in Int
        BY <2>1 DEF IsMinUpTo
      <4>3. records[i] \in ToSet(processed) \/ old.offset <= records[i]
        BY <2>3, <2>4, <2>6, <3>3, <4>2
      <4>4. \A j \in 1 .. i : records[j] \notin ToSet(processed) => old.offset <= records[j]
        BY <2>1, <2>2, <3>3, <4>3 DEF IsMinUpTo
      <4>5. IsMinUpTo(processed, records, i, old)
        BY <2>1, <2>3, <3>3, <4>1, <4>4 DEF IsMinUpTo
      <4> QED BY <2>3, <3>1, <4>5 DEF new
    <3> QED BY <3>2, <3>3
  <2> QED BY <2>5, <2>6
<1>4. Good = 0 .. n
  <2>1. Good \in SUBSET (0 .. n)
    OBVIOUS
  <2> HIDE DEF Good
  <2> QED BY <1>2, <1>3, <2>1, EveryPlace
<1>5. n \in Good
  BY <1>4
<1> QED BY <1>5 DEF min

\* maxRecord after place i: the largest processed offset below the bound up to there,
\* nil when there is none.
IsBestUpTo(processed, bound, i, b) ==
  /\ b \in Int
  /\ b = NoRecord => \A j \in 1 .. i : ~(processed[j] < bound)
  /\ b # NoRecord => /\ b < bound /\ \E j \in 1 .. i : b = processed[j]
                     /\ \A j \in 1 .. i : processed[j] < bound => processed[j] <= b

\* The invariant of the loop over the processed records.
LEMMA BestRecordsInv ==
  ASSUME NEW processed, NEW bound \in Int, NEW n \in Nat, Len(processed) = n,
         \A i \in 1 .. n : processed[i] \in Nat
  PROVE  IsBestUpTo(processed, bound, n, BestRecords(processed, bound)[n])
<1> DEFINE best == BestRecords(processed, bound)
           Good == {i \in 0 .. n : IsBestUpTo(processed, bound, i, best[i])}
<1>1. /\ best[0] = NoRecord
      /\ \A i \in 1 .. n :
           best[i] = IF /\ processed[i] < bound
                        /\ best[i - 1] = NoRecord \/ processed[i] > best[i - 1]
                     THEN processed[i] ELSE best[i - 1]
  BY BestRecordsLoop
<1> HIDE DEF best
<1>2. 0 \in Good
  <2>1. 0 \in 0 .. n /\ \A j \in 1 .. 0 : FALSE
    OBVIOUS
  <2>2. IsBestUpTo(processed, bound, 0, best[0])
    BY <1>1, <2>1 DEF IsBestUpTo, NoRecord
  <2> QED BY <2>1, <2>2
<1>3. ASSUME NEW i \in 1 .. n, i - 1 \in Good
      PROVE  i \in Good
  <2> DEFINE old == best[i - 1]
             new == best[i]
  <2>1. IsBestUpTo(processed, bound, i - 1, old)
    BY <1>3
  <2>2. \A j \in 1 .. i : j \in 1 .. i - 1 \/ j = i
    OBVIOUS
  <2>3. i \in 1 .. i /\ i \in 0 .. n /\ \A j \in 1 .. i - 1 : j \in 1 .. i
    OBVIOUS
  <2>4. \A j \in 1 .. i : processed[j] \in Nat
    OBVIOUS
  <2>5. old \in Int
    BY <2>1 DEF IsBestUpTo
  <2>6. CASE processed[i] < bound /\ (old = NoRecord \/ processed[i] > old)
    <3>1. new = processed[i]
      BY <1>1, <2>6
    <3> HIDE DEF old, new
    <3>2. ASSUME NEW j \in 1 .. i, processed[j] < bound
          PROVE  processed[j] <= processed[i]
      <4>1. CASE j = i
        BY <2>4, <4>1
      <4>2. CASE j \in 1 .. i - 1
        <5>1. old # NoRecord /\ processed[j] <= old
          BY <2>1, <3>2, <4>2 DEF IsBestUpTo
        <5> QED BY <2>3, <2>4, <2>5, <2>6, <5>1
      <4> QED BY <2>2, <4>1, <4>2
    <3>3. processed[i] # NoRecord /\ processed[i] \in Int
      BY <2>3, <2>4 DEF NoRecord
    <3>4. IsBestUpTo(processed, bound, i, new)
      BY <2>3, <2>6, <3>1, <3>2, <3>3 DEF IsBestUpTo
    <3> QED BY <2>3, <3>4 DEF new
  <2>7. CASE ~(processed[i] < bound /\ (old = NoRecord \/ processed[i] > old))
    <3>1. new = old
      BY <1>1, <2>7
    <3> HIDE DEF old, new
    <3>2. CASE old = NoRecord
      <4>1. \A j \in 1 .. i : ~(processed[j] < bound)
        BY <2>1, <2>2, <2>7, <3>2 DEF IsBestUpTo
      <4>2. IsBestUpTo(processed, bound, i, old)
        BY <2>5, <3>2, <4>1 DEF IsBestUpTo
      <4> QED BY <2>3, <3>1, <4>2 DEF new
    <3>3. CASE old # NoRecord
      <4>1. processed[i] < bound => processed[i] <= old
        BY <2>3, <2>4, <2>5, <2>7
      <4>2. \A j \in 1 .. i : processed[j] < bound => processed[j] <= old
        BY <2>1, <2>2, <3>3, <4>1 DEF IsBestUpTo
      <4>3. old < bound /\ \E j \in 1 .. i : old = processed[j]
        BY <2>1, <2>3, <3>3 DEF IsBestUpTo
      <4>4. IsBestUpTo(processed, bound, i, old)
        BY <2>5, <3>3, <4>2, <4>3 DEF IsBestUpTo
      <4> QED BY <2>3, <3>1, <4>4 DEF new
    <3> QED BY <3>2, <3>3
  <2> QED BY <2>6, <2>7
<1>4. Good = 0 .. n
  <2>1. Good \in SUBSET (0 .. n)
    OBVIOUS
  <2> HIDE DEF Good
  <2> QED BY <1>2, <1>3, <2>1, EveryPlace
<1>5. n \in Good
  BY <1>4
<1> QED BY <1>5 DEF best
-----------------------------------------------------------------------------
(* Batches and what is processed of them. *)

\* A batch is a non-empty increasing sequence of offsets.
LEMMA BatchFacts ==
  ASSUME NEW records \in Batches
  PROVE  /\ Len(records) \in Nat /\ Len(records) # 0
         /\ records \in [1 .. Len(records) -> 0 .. MaxOffset]
         /\ \A i, j \in 1 .. Len(records) : i < j => records[i] < records[j]
         /\ ToSet(records) \subseteq 0 .. MaxOffset
<1>1. PICK n \in 1 .. MaxOffset + 1 : records \in [1 .. n -> 0 .. MaxOffset]
  BY DEF Batches
<1>2. n \in Nat /\ n # 0
  OBVIOUS
<1>3. records \in Seq(0 .. MaxOffset) /\ Len(records) = n
  BY <1>1, <1>2
<1>4. \A i, j \in DOMAIN records : i < j => records[i] < records[j]
  BY DEF Batches
<1> QED BY <1>1, <1>2, <1>3, <1>4 DEF ToSet

\* The processed records are records of the batch, none of them twice.
LEMMA CompletionFacts ==
  ASSUME NEW records \in Batches, NEW processed \in Completions(records)
  PROVE  /\ Len(processed) \in Nat
         /\ processed \in [1 .. Len(processed) -> ToSet(records)]
         /\ \A i, j \in 1 .. Len(processed) : processed[i] = processed[j] => i = j
         /\ ToSet(processed) \subseteq ToSet(records)
         /\ \A i \in 1 .. Len(processed) : processed[i] \in Nat
<1>1. PICK n \in 0 .. Len(records) : processed \in [1 .. n -> ToSet(records)]
  BY DEF Completions
<1>2. n \in Nat
  BY BatchFacts
<1>3. processed \in Seq(ToSet(records)) /\ Len(processed) = n
  BY <1>1, <1>2
<1>4. \A i, j \in DOMAIN processed : processed[i] = processed[j] => i = j
  BY DEF Completions
<1>5. ToSet(records) \subseteq Nat
  <2>1. 0 .. MaxOffset \subseteq Nat
    OBVIOUS
  <2> QED BY <2>1, BatchFacts
<1>6. ToSet(processed) \subseteq ToSet(records)
  BY <1>1 DEF ToSet
<1> QED BY <1>1, <1>2, <1>3, <1>4, <1>5, <1>6

\* A sequence without repetitions has as many elements as places.
LEMMA PlacesCount ==
  ASSUME NEW n \in Nat, NEW S, NEW s \in [1 .. n -> S],
         \A i, j \in 1 .. n : s[i] = s[j] => i = j
  PROVE  IsFiniteSet(ToSet(s)) /\ Cardinality(ToSet(s)) = n
<1>1. s \in [1 .. n -> ToSet(s)] /\ DOMAIN s = 1 .. n
  BY DEF ToSet
<1>2. \A e \in ToSet(s) : \E i \in 1 .. n : s[i] = e
  BY DEF ToSet
<1>3. s \in Bijection(1 .. n, ToSet(s))
  BY <1>1, <1>2 DEF Bijection, Injection, Surjection, IsInjective
<1>4. ExistsBijection(1 .. n, ToSet(s))
  BY <1>3 DEF ExistsBijection
<1>5. IsFiniteSet(1 .. n) /\ Cardinality(1 .. n) = n
  BY FS_Interval
<1> QED BY <1>4, <1>5, FS_Bijection

\* Equal lengths mean that everything was processed, and only then: the test of
\* processRecordsAndCommit need not look at the records.
LEMMA LengthsTellAll ==
  ASSUME NEW records \in Batches, NEW processed \in Completions(records)
  PROVE  Len(processed) = Len(records) <=> ToSet(processed) = ToSet(records)
<1> DEFINE n == Len(records)
           k == Len(processed)
<1>1. /\ n \in Nat /\ records \in [1 .. n -> 0 .. MaxOffset]
      /\ \A i, j \in 1 .. n : i < j => records[i] < records[j]
  BY BatchFacts
<1>2. /\ k \in Nat /\ processed \in [1 .. k -> ToSet(records)]
      /\ \A i, j \in 1 .. k : processed[i] = processed[j] => i = j
      /\ ToSet(processed) \subseteq ToSet(records)
  BY CompletionFacts
<1> HIDE DEF n, k
<1>3. \A i, j \in 1 .. n : records[i] = records[j] => i = j
  <2> SUFFICES ASSUME NEW i \in 1 .. n, NEW j \in 1 .. n, records[i] = records[j], i # j
               PROVE  FALSE
    OBVIOUS
  <2>1. i < j \/ j < i
    BY <1>1
  <2>2. records[i] < records[j] \/ records[j] < records[i]
    BY <1>1, <2>1
  <2>3. records[i] \in Int /\ records[j] \in Int
    BY <1>1
  <2> QED BY <2>2, <2>3
<1>4. IsFiniteSet(ToSet(records)) /\ Cardinality(ToSet(records)) = n
  BY <1>1, <1>3, PlacesCount
<1>5. Cardinality(ToSet(processed)) = k
  BY <1>2, PlacesCount
<1>6. k = n <=> ToSet(processed) = ToSet(records)
  BY <1>2, <1>4, <1>5, FS_Subset
<1> QED BY <1>6 DEF n, k

\* Max is the element no other exceeds.
LEMMA MaxIs ==
  ASSUME NEW S \in SUBSET Int, NEW x \in S, \A y \in S : y <= x
  PROVE  Max(S) = x
<1>1. x \in Int /\ \A y \in S : x >= y
  OBVIOUS
<1>2. Max(S) \in S /\ \A y \in S : Max(S) >= y
  BY <1>1 DEF Max
<1>3. Max(S) \in Int /\ Max(S) >= x /\ x >= Max(S)
  BY <1>1, <1>2
<1> QED BY <1>1, <1>3

\* findMaxCommitableRecord on sequences and on sets.
LEMMA FindMaxAgrees ==
  ASSUME NEW records \in Batches, NEW processed \in Completions(records)
  PROVE  FindMaxLoops(processed, records)
           = findMaxCommitableRecord(ToSet(processed), ToSet(records))
<1> DEFINE n      == Len(records)
           k      == Len(processed)
           min    == MinUnprocessed(processed, records)[n]
           bound  == MinUnprocessedOffset(processed, records)
           best   == MaxRecord(processed, bound)
           before == Committable(ToSet(processed), ToSet(records))
<1>1. /\ n \in Nat /\ records \in [1 .. n -> 0 .. MaxOffset]
      /\ \A i \in 1 .. n : records[i] \in Int
  BY BatchFacts
<1>2. /\ k \in Nat /\ processed \in [1 .. k -> ToSet(records)]
      /\ \A i \in 1 .. k : processed[i] \in Nat
      /\ ToSet(processed) \subseteq ToSet(records) /\ ToSet(records) \subseteq 0 .. MaxOffset
  BY CompletionFacts, BatchFacts
<1>3. IsMinUpTo(processed, records, n, min) /\ bound = min.offset
  BY <1>1, MinUnprocessedInv DEF MinUnprocessedOffset
<1>4. bound \in Int
  BY <1>3 DEF IsMinUpTo
<1>5. IsBestUpTo(processed, bound, k, best)
  <2> HIDE DEF bound
  <2> QED BY <1>2, <1>4, BestRecordsInv DEF MaxRecord
<1>6. FindMaxLoops(processed, records) = best
  BY DEF FindMaxLoops
<1>7. /\ \A r \in ToSet(records) : \E i \in 1 .. n : r = records[i]
      /\ \A i \in 1 .. n : records[i] \in ToSet(records)
  BY <1>1 DEF ToSet
<1>8. /\ \A r \in ToSet(processed) : \E i \in 1 .. k : r = processed[i]
      /\ \A i \in 1 .. k : processed[i] \in ToSet(processed)
  BY <1>2 DEF ToSet
<1>9. \A r \in ToSet(records) : r \in Nat /\ r < MaxInt64
  BY <1>2
<1> HIDE DEF n, k, min, bound, best, before
<1>10. ASSUME NEW r \in ToSet(processed)
       PROVE  r < bound <=> \A u \in ToSet(records) \ ToSet(processed) : r < u
  <2>1. r \in Nat /\ r < MaxInt64
    BY <1>2, <1>9
  <2>2. CASE min.found
    <3>1. PICK i \in 1 .. n : records[i] \notin ToSet(processed) /\ bound = records[i]
      BY <1>3, <2>2 DEF IsMinUpTo
    <3>2. \A u \in ToSet(records) \ ToSet(processed) : bound <= u /\ u \in Nat
      BY <1>3, <1>7, <1>9, <2>2 DEF IsMinUpTo
    <3>3. bound \in ToSet(records) \ ToSet(processed)
      BY <1>7, <3>1
    <3>4. ASSUME r < bound, NEW u \in ToSet(records) \ ToSet(processed)
          PROVE  r < u
      BY <1>4, <2>1, <3>2, <3>4
    <3> QED BY <3>3, <3>4
  <2>3. CASE ~min.found
    <3>1. bound = MaxInt64 /\ \A i \in 1 .. n : records[i] \in ToSet(processed)
      BY <1>3, <2>3 DEF IsMinUpTo
    <3>2. ToSet(records) \ ToSet(processed) = {}
      BY <1>7, <3>1
    <3> QED BY <2>1, <3>1, <3>2
  <2> QED BY <2>2, <2>3
<1>11. before = {r \in ToSet(processed) : r < bound}
  BY <1>10 DEF before, Committable
<1>12. CASE best = NoRecord
  <2>1. before = {}
    BY <1>5, <1>8, <1>11, <1>12 DEF IsBestUpTo
  <2> QED BY <1>6, <1>12, <2>1 DEF findMaxCommitableRecord, before
<1>13. CASE best # NoRecord
  <2>1. best \in before /\ \A r \in before : r <= best
    BY <1>5, <1>8, <1>11, <1>13 DEF IsBestUpTo
  <2>2. before \in SUBSET Int
    BY <1>2, <1>9, <1>11
  <2>3. Max(before) = best
    BY <2>1, <2>2, MaxIs
  <2> QED BY <1>6, <2>1, <2>3 DEF findMaxCommitableRecord, before
<1> QED BY <1>12, <1>13

\* The length test of processRecordsAndCommit and the loops of findMaxCommitableRecord,
\* on the slices of the code, choose the offset CommitTarget chooses on sets, for
\* every batch and every order of completion.
LEMMA LoopsFindTheTarget == FindTheTarget
<1> SUFFICES ASSUME NEW records \in Batches, NEW processed \in Completions(records)
             PROVE  CommitLoops(processed, records)
                      = CommitTarget(ToSet(processed), ToSet(records))
  BY DEF FindTheTarget
<1>1. CASE Len(processed) = Len(records)
  <2> DEFINE n == Len(records)
  <2>1. /\ n \in Nat /\ n # 0 /\ records \in [1 .. n -> 0 .. MaxOffset]
        /\ \A i, j \in 1 .. n : i < j => records[i] < records[j]
        /\ ToSet(records) \subseteq 0 .. MaxOffset
    BY BatchFacts
  <2>2. Last(records) = records[n]
    BY DEF Last
  <2> HIDE DEF n
  <2>3. n \in 1 .. n /\ \A i \in 1 .. n : i = n \/ i < n
    BY <2>1
  <2>4. \A i \in 1 .. n : records[i] \in Int
    BY <2>1
  <2>5. \A i \in 1 .. n : records[i] <= records[n]
    BY <2>1, <2>3, <2>4
  <2>6. records[n] \in ToSet(records) /\ \A r \in ToSet(records) : r <= records[n]
    BY <2>1, <2>3, <2>5 DEF ToSet
  <2>7. ToSet(records) \in SUBSET Int
    BY <2>1
  <2>8. Max(ToSet(records)) = records[n]
    BY <2>6, <2>7, MaxIs
  <2>9. ToSet(processed) = ToSet(records)
    BY <1>1, LengthsTellAll
  <2> QED BY <1>1, <2>2, <2>8, <2>9 DEF CommitLoops, CommitTarget
<1>2. CASE Len(processed) # Len(records)
  <2>1. CommitLoops(processed, records)
          = findMaxCommitableRecord(ToSet(processed), ToSet(records))
    BY <1>2, FindMaxAgrees DEF CommitLoops
  <2>2. ToSet(processed) # ToSet(records)
    BY <1>2, LengthsTellAll
  <2> QED BY <2>1, <2>2 DEF CommitTarget
<1> QED BY <1>1, <1>2

\* The consumer group, which commits by CommitTarget, commits what the loops of the code
\* would: whatever MaxOffset is, and not only in the state in which TLC looks.
THEOREM LoopsComputeCommitTarget == FindTheTarget /\ LoopsAgree
BY LoopsFindTheTarget DEF LoopsAgree
=============================================================================
