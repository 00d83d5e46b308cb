-------------------------- MODULE FlatFiltersProofs --------------------------
(***************************************************************************)
(* The bucket of an event, for any rows in any order, any properties and   *)
(* any way of printing them.                                               *)
(*                                                                         *)
(* The loop of MatchingFilter is a recursive function.  Nothing is known   *)
(* of it but its definition, so that it has the values its equation gives  *)
(* is proved first, from the least place where it would not.               *)
(***************************************************************************)
EXTENDS FlatFilters, FiniteSetTheorems, WellFoundedInduction, TLAPS

\* A non-empty set of naturals has a least element.
LEMMA LeastNatural ==
  ASSUME NEW T \in SUBSET Nat, T # {}
  PROVE  \E n \in T : \A m \in T : n <= m
<1>1. T \subseteq Nat /\ T # {}
  OBVIOUS
<1>2. PICK n \in T : \A m \in T : ~(<<m, n>> \in OpToRel(<, Nat))
  BY <1>1, NatLessThanWellFounded, WFMin, Zenon
<1>3. \A m \in T : ~(m < n)
  BY <1>2 DEF OpToRel
<1> QED BY <1>3

USE KeysAssumption, NilAssumption, SprintAssumption, RowsAssumption, MaxRowsAssumption
-----------------------------------------------------------------------------
(* Filters and their keys. *)

\* A filter map is a function on some of the keys, and the empty one is the
\* only one without keys.
LEMMA FilterKeys ==
  ASSUME NEW f \in FilterMaps
  PROVE  /\ DOMAIN f \in SUBSET Keys
         /\ f = NoFilters <=> DOMAIN f = {}
<1>1. PICK K \in SUBSET Keys : f \in [K -> (SUBSET Values) \ {{}}]
  BY DEF FilterMaps
<1>2. DOMAIN f = K
  BY <1>1
<1>3. ASSUME K = {} PROVE f = NoFilters
  BY <1>1, <1>3 DEF NoFilters
<1>4. DOMAIN NoFilters = {}
  BY DEF NoFilters
<1> QED BY <1>2, <1>3, <1>4

\* The columns of a row.
LEMMA RowColumns ==
  ASSUME NEW row \in Rows
  PROVE  /\ row.charge \in Charges /\ row.filters \in FilterMaps
         /\ row.groupKeys \in SUBSET Keys
BY DEF Rows

\* The specificity of a row counts its keys.
LEMMA SpecificityCounts ==
  ASSUME NEW row \in Rows
  PROVE  /\ Specificity(row) \in Nat
         /\ Specificity(row) = 0 <=> ~HasFilters(row)
<1>1. ASSUME NEW r \in Rows
      PROVE  /\ DOMAIN r.filters \in SUBSET Keys /\ IsFiniteSet(DOMAIN r.filters)
             /\ Specificity(r) = Cardinality(DOMAIN r.filters)
             /\ Specificity(r) \in Nat
  <2>1. DOMAIN r.filters \in SUBSET Keys
    BY RowColumns, FilterKeys
  <2>2. IsFiniteSet(DOMAIN r.filters)
    BY <2>1, FS_Subset
  <2>3. Cardinality(DOMAIN r.filters) \in Nat
    BY <2>2, FS_CardinalityType
  <2> QED BY <2>1, <2>2, <2>3 DEF Specificity
<1>2. Specificity(row) = 0 <=> ~HasFilters(row)
  <2>1. HasFilters(row) <=> DOMAIN row.filters # {}
    BY RowColumns, FilterKeys DEF HasFilters
  <2>2. Cardinality(DOMAIN row.filters) = 0 <=> DOMAIN row.filters = {}
    BY <1>1, FS_EmptySet
  <2> QED BY <1>1, <2>1, <2>2
<1> QED BY <1>1, <1>2
-----------------------------------------------------------------------------
(* The loop. *)

\* The loop is well defined: bestFilter before the first row is nil, and after
\* each row what the two tests make of it.
LEMMA BestFilterDef ==
  ASSUME NEW fetched, NEW matching, NEW n \in Nat, Len(fetched) = n
  PROVE  LET best == BestFilter(fetched, matching)
         IN  best = [i \in 0 .. n |->
               IF i = 0 THEN 0
               ELSE IF i \in matching /\ IsBetter(fetched, best[i - 1], i) THEN i
                    ELSE best[i - 1]]
<1> DEFINE Loop(f, m) ==
             f = [i \in 0 .. m |->
                    IF i = 0 THEN 0
                    ELSE IF i \in matching /\ IsBetter(fetched, f[i - 1], i) THEN i
                         ELSE f[i - 1]]
           Stuck == {m \in Nat : ~\E f : Loop(f, m)}
<1>1. Stuck = {}
  <2> SUFFICES ASSUME Stuck # {} PROVE FALSE
    OBVIOUS
  <2>1. PICK m \in Stuck : \A k \in Stuck : m <= k
    BY LeastNatural
  <2>2. m # 0
    <3>1. Loop([i \in 0 .. 0 |-> 0], 0)
      OBVIOUS
    <3> QED BY <2>1, <3>1
  <2>3. m - 1 \in Nat /\ m - 1 \notin Stuck
    <3> HIDE DEF Stuck
    <3>1. m \in Nat
      BY DEF Stuck
    <3> QED BY <2>1, <2>2, <3>1
  <2>4. PICK f : Loop(f, m - 1)
    BY <2>3
  <2> DEFINE next == IF m \in matching /\ IsBetter(fetched, f[m - 1], m) THEN m ELSE f[m - 1]
             g == [i \in 0 .. m |-> IF i = m THEN next ELSE f[i]]
  <2>5. Loop(g, m)
    <3>1. m \in Nat /\ m # 0 /\ g[m - 1] = f[m - 1]
      BY <2>1, <2>2
    <3>2. g[m] = next
      BY <3>1
    <3>3. ASSUME NEW i \in 0 .. m - 1
          PROVE  /\ g[i] = f[i]
                 /\ f[i] = IF i = 0 THEN 0
                           ELSE IF i \in matching /\ IsBetter(fetched, f[i - 1], i) THEN i
                                ELSE f[i - 1]
                 /\ i # 0 => g[i - 1] = f[i - 1]
      BY <2>4, <3>1, <3>3
    <3> HIDE DEF g, next
    <3>4. g = [i \in 0 .. m |-> g[i]]
      BY DEF g
    <3>5. ASSUME NEW i \in 0 .. m
          PROVE  g[i] = IF i = 0 THEN 0
                        ELSE IF i \in matching /\ IsBetter(fetched, g[i - 1], i) THEN i
                             ELSE g[i - 1]
      <4>1. CASE i = m
        BY <3>1, <3>2, <4>1 DEF next
      <4>2. CASE i # m
        <5>1. i \in 0 .. m - 1
          BY <3>1, <4>2
        <5> QED BY <3>3, <5>1
      <4> QED BY <4>1, <4>2
    <3> QED BY <3>4, <3>5
  <2> QED BY <2>1, <2>5
<1>2. PICK f : Loop(f, n)
  BY <1>1
<1>3. BestFilter(fetched, matching) = CHOOSE g : Loop(g, n)
  BY DEF BestFilter
<1> HIDE DEF Loop
<1>4. Loop(BestFilter(fetched, matching), n)
  BY <1>2, <1>3
<1> QED BY <1>4 DEF Loop

\* What bestFilter is after place i: the first of the most specific matching rows
\* up to there, nil when there is none.
IsBest(fetched, matching, i, b) ==
  /\ b = 0 => \A j \in matching : ~(j <= i)
  /\ b # 0 => /\ b \in matching /\ b <= i
              /\ \A j \in matching : j <= i =>
                   /\ Specificity(fetched[j]) <= Specificity(fetched[b])
                   /\ j < b => Specificity(fetched[j]) < Specificity(fetched[b])

\* The invariant of the loop.
LEMMA BestFilterInv ==
  ASSUME NEW fetched \in Seq(Rows), NEW matching \in SUBSET (1 .. Len(fetched))
  PROVE  \A i \in 0 .. Len(fetched) :
           IsBest(fetched, matching, i, BestFilter(fetched, matching)[i])
<1> DEFINE n == Len(fetched)
           best == BestFilter(fetched, matching)
           Wrong == {i \in 0 .. n : ~IsBest(fetched, matching, i, best[i])}
<1>1. n \in Nat
  OBVIOUS
<1>2. /\ best[0] = 0
      /\ \A i \in 1 .. n : best[i] = IF i \in matching /\ IsBetter(fetched, best[i - 1], i)
                                     THEN i ELSE best[i - 1]
  <2>1. best = [i \in 0 .. n |->
                  IF i = 0 THEN 0
                  ELSE IF i \in matching /\ IsBetter(fetched, best[i - 1], i) THEN i
                       ELSE best[i - 1]]
    BY <1>1, BestFilterDef
  <2> HIDE DEF best, n
  <2> QED BY <1>1, <2>1
<1>3. \A j \in matching : j \in 1 .. n /\ Specificity(fetched[j]) \in Nat
  BY SpecificityCounts
<1> HIDE DEF n, best
<1>4. Wrong = {}
  <2> SUFFICES ASSUME Wrong # {} PROVE FALSE
    OBVIOUS
  <2>1. PICK i \in Wrong : \A k \in Wrong : i <= k
    <3>1. Wrong \in SUBSET Nat
      BY <1>1
    <3> HIDE DEF Wrong
    <3> QED BY <3>1, LeastNatural
  <2>2. i \in 0 .. n /\ ~IsBest(fetched, matching, i, best[i])
    OBVIOUS
  <2>3. i # 0
    BY <1>2, <1>3, <2>2 DEF IsBest
  <2>4. i \in 1 .. n /\ i - 1 \in 0 .. n /\ IsBest(fetched, matching, i - 1, best[i - 1])
    <3>1. i \in 1 .. n /\ i - 1 \in 0 .. n /\ ~(i <= i - 1)
      BY <1>1, <2>2, <2>3
    <3> QED BY <2>1, <3>1
  <2> HIDE DEF Wrong
  <2>5. CASE i \in matching /\ IsBetter(fetched, best[i - 1], i)
    <3>1. best[i] = i
      BY <1>2, <2>4, <2>5
    <3>2. ASSUME NEW j \in matching, j <= i, j # i
          PROVE  Specificity(fetched[j]) < Specificity(fetched[i])
      <4>1. j \in Nat /\ j <= i - 1
        BY <1>3, <2>4, <3>2
      <4>2. best[i - 1] # 0 /\ best[i - 1] \in matching
            /\ Specificity(fetched[j]) <= Specificity(fetched[best[i - 1]])
        BY <2>4, <4>1 DEF IsBest
      <4>3. Specificity(fetched[i]) > Specificity(fetched[best[i - 1]])
        BY <2>5, <4>2 DEF IsBetter
      <4>4. /\ Specificity(fetched[i]) \in Nat /\ Specificity(fetched[j]) \in Nat
            /\ Specificity(fetched[best[i - 1]]) \in Nat
        BY <1>3, <2>5, <4>2
      <4> QED BY <4>2, <4>3, <4>4
    <3> QED BY <1>3, <2>2, <2>4, <2>5, <3>1, <3>2 DEF IsBest
  <2>6. CASE ~(i \in matching /\ IsBetter(fetched, best[i - 1], i))
    <3>1. best[i] = best[i - 1]
      BY <1>2, <2>4, <2>6
    <3>2. ASSUME NEW j \in matching, j <= i PROVE j <= i - 1 \/ j = i
      BY <1>3, <2>4, <3>2
    <3>3. ASSUME i \in matching
          PROVE  /\ best[i - 1] # 0 /\ best[i - 1] \in matching /\ best[i - 1] <= i - 1
                 /\ Specificity(fetched[i]) <= Specificity(fetched[best[i - 1]])
      <4>1. best[i - 1] # 0 /\ ~(Specificity(fetched[i]) > Specificity(fetched[best[i - 1]]))
        BY <2>6, <3>3 DEF IsBetter
      <4>2. best[i - 1] \in matching /\ best[i - 1] <= i - 1
        BY <2>4, <4>1 DEF IsBest
      <4>3. Specificity(fetched[i]) \in Nat /\ Specificity(fetched[best[i - 1]]) \in Nat
        BY <1>3, <3>3, <4>2
      <4> QED BY <4>1, <4>2, <4>3
    <3>4. best[i - 1] # 0 => best[i - 1] \in matching /\ best[i - 1] <= i - 1 /\ best[i - 1] < i
      <4> SUFFICES ASSUME best[i - 1] # 0
                   PROVE  best[i - 1] \in matching /\ best[i - 1] <= i - 1 /\ best[i - 1] < i
        OBVIOUS
      <4>1. best[i - 1] \in matching /\ best[i - 1] <= i - 1
        BY <2>4 DEF IsBest
      <4>2. best[i - 1] \in 1 .. n
        BY <1>3, <4>1
      <4>3. best[i - 1] \in Int /\ i \in Int
        BY <1>1, <2>4, <4>2
      <4> QED BY <4>1, <4>3
    <3>5. IsBest(fetched, matching, i, best[i - 1])
      <4>1. ASSUME best[i - 1] = 0, NEW j \in matching PROVE ~(j <= i)
        BY <2>4, <3>2, <3>3, <4>1 DEF IsBest
      <4>2. ASSUME best[i - 1] # 0
            PROVE  /\ best[i - 1] \in matching /\ best[i - 1] <= i
                   /\ \A j \in matching : j <= i =>
                        /\ Specificity(fetched[j]) <= Specificity(fetched[best[i - 1]])
                        /\ j < best[i - 1] =>
                             Specificity(fetched[j]) < Specificity(fetched[best[i - 1]])
        <5>1. best[i - 1] \in matching /\ best[i - 1] \in 1 .. n /\ best[i - 1] < i
          BY <1>3, <3>4, <4>2
        <5>2. ASSUME NEW j \in matching, j <= i
              PROVE  /\ Specificity(fetched[j]) <= Specificity(fetched[best[i - 1]])
                     /\ j < best[i - 1] =>
                          Specificity(fetched[j]) < Specificity(fetched[best[i - 1]])
          <6>1. CASE j <= i - 1
            BY <2>4, <4>2, <5>2, <6>1 DEF IsBest
          <6>2. CASE j = i
            BY <1>3, <2>4, <3>3, <5>1, <5>2, <6>2
          <6> QED BY <3>2, <5>2, <6>1, <6>2
        <5> QED BY <2>4, <5>1, <5>2
      <4> QED BY <4>1, <4>2 DEF IsBest
    <3> QED BY <2>2, <3>1, <3>5
  <2> QED BY <2>5, <2>6
<1> QED BY <1>4 DEF n, best

\* The filter the loop returns, when any matches: there is no other with its
\* place and its specificity.
LEMMA BestIsFirstMostSpecific ==
  ASSUME NEW fetched \in Seq(Rows), NEW matching \in SUBSET (1 .. Len(fetched)),
         matching # {}
  PROVE  LET b == BestFilter(fetched, matching)[Len(fetched)]
         IN  /\ b \in matching
             /\ \A j \in matching :
                  /\ Specificity(fetched[j]) <= Specificity(fetched[b])
                  /\ j < b => Specificity(fetched[j]) < Specificity(fetched[b])
<1> DEFINE n == Len(fetched)
           b == BestFilter(fetched, matching)[n]
<1>1. n \in Nat /\ n \in 0 .. n
  OBVIOUS
<1>2. IsBest(fetched, matching, n, b)
  BY <1>1, BestFilterInv
<1>3. \A j \in matching : j <= n
  OBVIOUS
<1> HIDE DEF n, b
<1>4. b # 0
  BY <1>2, <1>3 DEF IsBest
<1>5. /\ b \in matching
      /\ \A j \in matching :
           /\ Specificity(fetched[j]) <= Specificity(fetched[b])
           /\ j < b => Specificity(fetched[j]) < Specificity(fetched[b])
  BY <1>2, <1>3, <1>4 DEF IsBest
<1> QED BY <1>5 DEF n, b
-----------------------------------------------------------------------------
(* Buckets. *)

\* The rows of a charge and those of them that match, by their places.
LEMMA GroupFacts ==
  ASSUME NEW fetched \in Seq(Rows), NEW c \in ChargesOf(fetched), NEW ev
  PROVE  /\ RowsOf(fetched, c) \in SUBSET (1 .. Len(fetched))
         /\ \A i \in RowsOf(fetched, c) : fetched[i] \in Rows /\ fetched[i].charge = c
         /\ Min(RowsOf(fetched, c)) \in RowsOf(fetched, c)
         /\ \A i \in RowsOf(fetched, c) : Min(RowsOf(fetched, c)) <= i
         /\ MatchingRows(fetched, RowsOf(fetched, c), ev) \in SUBSET (1 .. Len(fetched))
         /\ MatchingRows(fetched, RowsOf(fetched, c), ev) \subseteq RowsOf(fetched, c)
<1> DEFINE group == RowsOf(fetched, c)
<1>1. /\ group \in SUBSET (1 .. Len(fetched))
      /\ \A i \in group : fetched[i] \in Rows /\ fetched[i].charge = c
  BY DEF RowsOf
<1>2. group # {}
  BY DEF ChargesOf, ToSet, RowsOf
<1>3. PICK i \in group : \A j \in group : i <= j
  <2>1. group \in SUBSET Nat
    BY <1>1
  <2> HIDE DEF group
  <2> QED BY <1>2, <2>1, LeastNatural
<1> HIDE DEF group
<1>4. Min(group) \in group /\ \A j \in group : Min(group) <= j
  BY <1>3 DEF Min
<1>5. MatchingRows(fetched, group, ev) \subseteq group
  BY DEF MatchingRows
<1> QED BY <1>1, <1>4, <1>5 DEF group

\* The bucket of a charge: its default one when no row matches, otherwise the first
\* of the most specific ones.
LEMMA BucketOf ==
  ASSUME NEW fetched \in Seq(Rows), NEW c \in ChargesOf(fetched), NEW ev
  PROVE  LET bucket   == enrichWithChargeInfo(fetched, ev)[c]
             group    == RowsOf(fetched, c)
             matching == MatchingRows(fetched, group, ev)
         IN  /\ matching = {} => bucket = ToDefaultFilter(fetched[Min(group)])
             /\ matching # {} =>
                  \E b \in matching :
                    /\ bucket = fetched[b]
                    /\ \A j \in matching :
                         /\ Specificity(fetched[j]) <= Specificity(fetched[b])
                         /\ j < b => Specificity(fetched[j]) < Specificity(fetched[b])
<1> DEFINE group    == RowsOf(fetched, c)
           matching == MatchingRows(fetched, group, ev)
           bucket   == enrichWithChargeInfo(fetched, ev)[c]
           b        == BestFilter(fetched, matching)[Len(fetched)]
<1>1. bucket = IF matching = {} THEN ToDefaultFilter(fetched[Min(group)]) ELSE fetched[b]
  BY DEF enrichWithChargeInfo, MatchingFilter
<1>2. matching \in SUBSET (1 .. Len(fetched))
  BY GroupFacts
<1> HIDE DEF matching
<1>3. ASSUME matching # {}
      PROVE  /\ b \in matching
             /\ \A j \in matching :
                  /\ Specificity(fetched[j]) <= Specificity(fetched[b])
                  /\ j < b => Specificity(fetched[j]) < Specificity(fetched[b])
  BY <1>2, <1>3, BestIsFirstMostSpecific
<1> HIDE DEF b, bucket, group
<1>4. matching # {} => bucket = fetched[b] /\ b \in matching
  BY <1>1, <1>3
<1>5. matching = {} => bucket = ToDefaultFilter(fetched[Min(group)])
  BY <1>1
<1> QED BY <1>3, <1>4, <1>5 DEF bucket, matching, group

\* The default bucket of a charge.
LEMMA DefaultFilter ==
  ASSUME NEW row \in Rows
  PROVE  LET default == ToDefaultFilter(row)
         IN  /\ default.charge = row.charge /\ default.filters = NoFilters
             /\ default.groupKeys = {}
             /\ Specificity(default) = 0
<1>1. row \in [charge : Charges, filters : FilterMaps, groupKeys : GroupKeys]
  BY DEF Rows
<1>2. /\ ToDefaultFilter(row).charge = row.charge
      /\ ToDefaultFilter(row).filters = NoFilters
      /\ ToDefaultFilter(row).groupKeys = {}
  BY <1>1 DEF ToDefaultFilter
<1>3. Cardinality(DOMAIN NoFilters) = 0
  BY FS_EmptySet DEF NoFilters
<1> QED BY <1>2, <1>3 DEF Specificity

\* The rows fetched so far.
FetchInv ==
  /\ event \in [Keys -> Properties \cup {Nil}]
  /\ rows \in Seq(Rows)

\* The rows the code finds matching are those the reference definition means.
LEMMA MatchesByPlace ==
  ASSUME FetchInv, NEW c
  PROVE  /\ \A i \in MatchingRows(rows, RowsOf(rows, c), event) : rows[i] \in Matches(c)
         /\ \A m \in Matches(c) :
              \E i \in MatchingRows(rows, RowsOf(rows, c), event) : rows[i] = m
<1>1. ASSUME NEW i \in DOMAIN rows
      PROVE  /\ rows[i] \in Rows
             /\ HasFilters(rows[i]) <=> DOMAIN rows[i].filters # {}
             /\ \A k \in DOMAIN rows[i].filters :
                  event[k] # Nil <=> event[k] \in Properties
  <2>1. rows[i] \in Rows
    BY DEF FetchInv
  <2>2. DOMAIN rows[i].filters \in SUBSET Keys
    BY <2>1, RowColumns, FilterKeys
  <2>3. HasFilters(rows[i]) <=> DOMAIN rows[i].filters # {}
    BY <2>1, RowColumns, FilterKeys DEF HasFilters
  <2> QED BY <2>1, <2>2, <2>3 DEF FetchInv
<1>2. ASSUME NEW i \in DOMAIN rows
      PROVE  i \in MatchingRows(rows, RowsOf(rows, c), event) <=> rows[i] \in Matches(c)
  <2>1. rows[i] \in ToSet(rows)
    BY DEF ToSet
  <2>2. IsMatchingEvent(rows[i], event) <=>
          \A k \in DOMAIN rows[i].filters :
            event[k] \in Properties /\ \E v \in rows[i].filters[k] : v = Sprint[event[k]]
    BY <1>1 DEF IsMatchingEvent
  <2> QED BY <1>1, <2>1, <2>2 DEF MatchingRows, RowsOf, Matches
<1>3. \A i \in MatchingRows(rows, RowsOf(rows, c), event) : i \in DOMAIN rows
  BY DEF MatchingRows, RowsOf
<1>4. \A m \in Matches(c) : \E i \in DOMAIN rows : rows[i] = m
  BY DEF Matches, ToSet
<1> QED BY <1>2, <1>3, <1>4
-----------------------------------------------------------------------------
(* The theorems. *)

\* Rows are only added, and the event stays what it is.
LEMMA FetchInvariance == Spec => []FetchInv
<1>1. Init => FetchInv
  BY DEF Init, FetchInv
<1>2. FetchInv /\ [Next]_vars => FetchInv'
  BY DEF FetchInv, Next, FetchRow, vars
<1> QED BY <1>1, <1>2, PTL DEF Spec

\* A bucket that is not the default one is a best match.
LEMMA BucketMatches ==
  ASSUME FetchInv, NEW c \in ChargesOf(rows)
  PROVE  LET bucket == enrichWithChargeInfo(rows, event)[c]
         IN  IF Matches(c) = {} THEN bucket.charge = c /\ bucket.filters = NoFilters
             ELSE /\ bucket \in Matches(c)
                  /\ \A m \in Matches(c) : Specificity(m) <= Specificity(bucket)
<1> DEFINE group    == RowsOf(rows, c)
           matching == MatchingRows(rows, group, event)
           bucket   == enrichWithChargeInfo(rows, event)[c]
<1>0. rows \in Seq(Rows)
  BY DEF FetchInv
<1>1. PICK fetched, ev : fetched = rows /\ ev = event
  OBVIOUS
<1>2. /\ matching = {} => bucket = ToDefaultFilter(rows[Min(group)])
      /\ matching # {} =>
           \E b \in matching :
             /\ bucket = rows[b]
             /\ \A j \in matching : Specificity(rows[j]) <= Specificity(rows[b])
  BY <1>0, <1>1, BucketOf
<1>3. rows[Min(group)] \in Rows /\ rows[Min(group)].charge = c
  BY <1>0, <1>1, GroupFacts
<1>4. /\ \A i \in matching : rows[i] \in Matches(c)
      /\ \A m \in Matches(c) : \E i \in matching : rows[i] = m
  BY MatchesByPlace
<1> HIDE DEF group, matching, bucket
<1>5. CASE Matches(c) = {}
  <2>1. bucket = ToDefaultFilter(rows[Min(group)])
    BY <1>2, <1>4, <1>5
  <2>2. bucket.charge = c /\ bucket.filters = NoFilters
    BY <1>3, <2>1, DefaultFilter
  <2> QED BY <1>5, <2>2 DEF bucket
<1>6. CASE Matches(c) # {}
  <2>1. bucket \in Matches(c) /\ \A m \in Matches(c) : Specificity(m) <= Specificity(bucket)
    BY <1>2, <1>4, <1>6
  <2> QED BY <1>6, <2>1 DEF bucket
<1> QED BY <1>5, <1>6

\* In whatever order the rows come, each charge puts the event in its default bucket
\* when no filter matches and otherwise in a matching filter with the most keys.
THEOREM MostSpecificBucket == Spec => []BucketIsMostSpecific
<1>1. FetchInv => BucketIsMostSpecific
  BY BucketMatches DEF BucketIsMostSpecific
<1> QED BY <1>1, FetchInvariance, PTL

\* Where a filter and the grouping look at the same property, the group is one of
\* the values the filter lists, for any way of printing.
THEOREM GroupedByFilterValues == Spec => []GroupsAreFilterValues
<1>1. ASSUME FetchInv, NEW c \in ChargesOf(rows)
      PROVE  LET bucket == enrichWithChargeInfo(rows, event)[c]
                 groups == enrichWithPricingGroupKeys(bucket, event)
             IN  \A k \in DOMAIN groups \cap DOMAIN bucket.filters : groups[k] \in bucket.filters[k]
  <2> DEFINE bucket == enrichWithChargeInfo(rows, event)[c]
             groups == enrichWithPricingGroupKeys(bucket, event)
  <2>1. bucket.filters = NoFilters \/ bucket \in Matches(c)
    BY <1>1, BucketMatches
  <2> SUFFICES ASSUME NEW k \in DOMAIN groups, k \in DOMAIN bucket.filters
               PROVE  groups[k] \in bucket.filters[k]
    OBVIOUS
  <2> HIDE DEF bucket
  <2>2. bucket \in Matches(c)
    BY <2>1 DEF NoFilters
  <2>3. event[k] \in Properties /\ Sprint[event[k]] \in bucket.filters[k]
    BY <2>2 DEF Matches
  <2>4. groups[k] = Sprint[event[k]]
    BY <2>3 DEF enrichWithPricingGroupKeys, Printed
  <2> QED BY <2>3, <2>4
<1>2. FetchInv => GroupsAreFilterValues
  BY <1>1 DEF GroupsAreFilterValues
<1> QED BY <1>2, FetchInvariance, PTL

\* One more row, for the charges there are: it matches or not, and joins the rows of
\* its own charge only, behind them.
LEMMA OneMoreRow ==
  ASSUME NEW fetched \in Seq(Rows), NEW row \in Rows, NEW c \in ChargesOf(fetched), NEW ev
  PROVE  LET more == Append(fetched, row)
             new  == Len(fetched) + 1
         IN  /\ more \in Seq(Rows) /\ more[new] = row /\ Last(more) = row
             /\ c \in ChargesOf(more)
             /\ \A i \in 1 .. Len(fetched) : more[i] = fetched[i]
             /\ Min(RowsOf(more, c)) = Min(RowsOf(fetched, c))
             /\ \/ MatchingRows(more, RowsOf(more, c), ev)
                     = MatchingRows(fetched, RowsOf(fetched, c), ev)
                \/ /\ row.charge = c /\ HasFilters(row)
                   /\ MatchingRows(more, RowsOf(more, c), ev)
                        = MatchingRows(fetched, RowsOf(fetched, c), ev) \cup {new}
<1> DEFINE n == Len(fetched)
           more == Append(fetched, row)
           old == RowsOf(fetched, c)
           group == RowsOf(more, c)
<1>1. /\ n \in Nat /\ more \in Seq(Rows) /\ Len(more) = n + 1 /\ more[n + 1] = row
      /\ \A i \in 1 .. n : more[i] = fetched[i]
  OBVIOUS
<1>2. Last(more) = row
  BY <1>1 DEF Last
<1>3. DOMAIN fetched = 1 .. n /\ DOMAIN more = 1 .. n + 1
  BY <1>1
<1> HIDE DEF n, more
<1>4. group = old \cup (IF row.charge = c THEN {n + 1} ELSE {})
  <2>1. \A i \in 1 .. n : i \in group <=> i \in old
    BY <1>1, <1>3 DEF RowsOf
  <2>2. n + 1 \in group <=> row.charge = c
    BY <1>1, <1>3 DEF RowsOf
  <2>3. old \subseteq 1 .. n /\ group \subseteq 1 .. n + 1
    BY <1>3 DEF RowsOf
  <2> HIDE DEF old, group
  <2>4. \A i \in 1 .. n + 1 : i \in 1 .. n \/ i = n + 1
    BY <1>1
  <2>5. n + 1 \notin 1 .. n
    BY <1>1
  <2> QED BY <2>1, <2>2, <2>3, <2>4, <2>5
<1>5. /\ old \in SUBSET (1 .. n) /\ Min(old) \in old
      /\ \A i \in old : Min(old) <= i
  BY GroupFacts DEF n
<1>6. c \in ChargesOf(more)
  <2>1. PICK i \in old : TRUE
    BY <1>5
  <2>2. i \in DOMAIN more /\ more[i].charge = c
    BY <1>4, <2>1 DEF RowsOf
  <2> QED BY <2>2 DEF ChargesOf, ToSet
<1>7. Min(group) = Min(old)
  <2>1. Min(group) \in group /\ \A i \in group : Min(group) <= i
    BY <1>1, <1>6, GroupFacts
  <2> HIDE DEF old, group
  <2>2. \A i \in 1 .. n : i \in Int /\ i <= n
    BY <1>1
  <2>3. Min(old) \in Int /\ Min(old) <= n
    BY <1>5, <2>2
  <2>4. Min(old) <= n + 1 /\ n + 1 \in Int
    BY <1>1, <2>3
  <2>5. \A i \in group : i \in old \/ i = n + 1
    BY <1>4
  <2>6. Min(old) \in group /\ \A i \in group : Min(old) <= i
    BY <1>4, <1>5, <2>4, <2>5
  <2>7. Min(old) \in Int /\ Min(group) \in Int
    BY <1>5, <2>1, <2>2, <2>3, <2>4, <2>5
  <2>8. Min(old) <= Min(group) /\ Min(group) <= Min(old)
    BY <2>1, <2>6
  <2> QED BY <2>7, <2>8
<1>8. \A i \in old : i \in MatchingRows(more, group, ev) <=> i \in MatchingRows(fetched, old, ev)
  <2>1. \A i \in old : i \in group /\ more[i] = fetched[i]
    BY <1>1, <1>4, <1>5
  <2> HIDE DEF old, group
  <2> QED BY <2>1 DEF MatchingRows
<1>9. /\ MatchingRows(more, group, ev) \subseteq group
      /\ MatchingRows(fetched, old, ev) \subseteq old
      /\ n + 1 \in MatchingRows(more, group, ev) => row.charge = c /\ HasFilters(row)
  <2>1. n + 1 \in group => row.charge = c
    BY <1>1 DEF RowsOf
  <2> HIDE DEF old, group
  <2> QED BY <1>1, <2>1 DEF MatchingRows
<1> HIDE DEF old, group
<1>10. CASE n + 1 \in MatchingRows(more, group, ev)
  <2>1. MatchingRows(more, group, ev) = MatchingRows(fetched, old, ev) \cup {n + 1}
    BY <1>4, <1>8, <1>9, <1>10
  <2> QED BY <1>1, <1>2, <1>6, <1>7, <1>9, <1>10, <2>1 DEF n, more, old, group
<1>11. CASE n + 1 \notin MatchingRows(more, group, ev)
  <2>1. MatchingRows(more, group, ev) = MatchingRows(fetched, old, ev)
    BY <1>4, <1>8, <1>9, <1>11
  <2> QED BY <1>1, <1>2, <1>6, <1>7, <2>1 DEF n, more, old, group
<1> QED BY <1>10, <1>11

\* The bucket with one more row, when the row is not the first of its charge.
LEMMA OneMoreBucket ==
  ASSUME NEW fetched \in Seq(Rows), NEW row \in Rows, NEW c \in ChargesOf(fetched), NEW ev
  PROVE  LET old == enrichWithChargeInfo(fetched, ev)[c]
             new == enrichWithChargeInfo(Append(fetched, row), ev)[c]
         IN  new # old => row.charge = c /\ Specificity(new) > Specificity(old)
<1> DEFINE n     == Len(fetched)
           more  == Append(fetched, row)
           first == Min(RowsOf(fetched, c))
           had   == MatchingRows(fetched, RowsOf(fetched, c), ev)
           have  == MatchingRows(more, RowsOf(more, c), ev)
           old   == enrichWithChargeInfo(fetched, ev)[c]
           new   == enrichWithChargeInfo(more, ev)[c]
<1>1. /\ more \in Seq(Rows) /\ more[n + 1] = row /\ c \in ChargesOf(more)
      /\ \A i \in 1 .. n : more[i] = fetched[i]
      /\ Min(RowsOf(more, c)) = first
      /\ have = had \/ (row.charge = c /\ HasFilters(row) /\ have = had \cup {n + 1})
  BY OneMoreRow
<1>2. /\ had \subseteq 1 .. n /\ first \in 1 .. n
      /\ \A i \in 1 .. n : fetched[i] \in Rows
  BY GroupFacts
<1>3. /\ had = {} => old = ToDefaultFilter(fetched[first])
      /\ had # {} =>
           \E b \in had :
             /\ old = fetched[b]
             /\ \A j \in had :
                  /\ Specificity(fetched[j]) <= Specificity(fetched[b])
                  /\ j < b => Specificity(fetched[j]) < Specificity(fetched[b])
  BY BucketOf
<1>4. /\ have = {} => new = ToDefaultFilter(more[first])
      /\ have # {} =>
           \E b \in have :
             /\ new = more[b]
             /\ \A j \in have :
                  /\ Specificity(more[j]) <= Specificity(more[b])
                  /\ j < b => Specificity(more[j]) < Specificity(more[b])
  <2>1. /\ have = {} => new = ToDefaultFilter(more[Min(RowsOf(more, c))])
        /\ have # {} =>
             \E b \in have :
               /\ new = more[b]
               /\ \A j \in have :
                    /\ Specificity(more[j]) <= Specificity(more[b])
                    /\ j < b => Specificity(more[j]) < Specificity(more[b])
    BY <1>1, BucketOf
  <2> QED BY <1>1, <2>1
<1>5. n \in Nat /\ n + 1 \notin 1 .. n /\ \A i \in 1 .. n : i \in Int /\ i < n + 1
  OBVIOUS
<1>6. /\ \A i \in 1 .. n : Specificity(fetched[i]) \in Nat
      /\ Specificity(row) \in Nat
      /\ HasFilters(row) => Specificity(row) # 0
  BY <1>2, SpecificityCounts
<1> HIDE DEF n, more, first, had, have, old, new
<1>7. ASSUME have = had
      PROVE  new = old
  <2>1. CASE had = {}
    BY <1>1, <1>2, <1>3, <1>4, <1>7, <2>1
  <2>2. CASE had # {}
    <3>1. PICK a \in had : /\ old = fetched[a]
                           /\ \A j \in had :
                                /\ Specificity(fetched[j]) <= Specificity(fetched[a])
                                /\ j < a => Specificity(fetched[j]) < Specificity(fetched[a])
      BY <1>3, <2>2
    <3>2. PICK b \in had : /\ new = more[b]
                           /\ \A j \in had :
                                /\ Specificity(more[j]) <= Specificity(more[b])
                                /\ j < b => Specificity(more[j]) < Specificity(more[b])
      BY <1>4, <1>7, <2>2
    <3>3. more[a] = fetched[a] /\ more[b] = fetched[b] /\ a \in Int /\ b \in Int
      BY <1>1, <1>2, <1>5
    <3>4. Specificity(fetched[a]) \in Nat /\ Specificity(fetched[b]) \in Nat
      BY <1>2, <1>6
    <3>5. /\ Specificity(fetched[a]) <= Specificity(fetched[b])
          /\ a < b => Specificity(fetched[a]) < Specificity(fetched[b])
      BY <3>2, <3>3
    <3>6. /\ Specificity(fetched[b]) <= Specificity(fetched[a])
          /\ b < a => Specificity(fetched[b]) < Specificity(fetched[a])
      BY <3>1
    <3>7. ~(a < b) /\ ~(b < a)
      BY <3>4, <3>5, <3>6
    <3>8. a = b
      BY <3>3, <3>7
    <3> QED BY <3>1, <3>2, <3>3, <3>8
  <2> QED BY <2>1, <2>2
<1>8. ASSUME have = had \cup {n + 1}, HasFilters(row)
      PROVE  new = old \/ Specificity(new) > Specificity(old)
  <2>1. PICK b \in have : /\ new = more[b]
                          /\ \A j \in have :
                               /\ Specificity(more[j]) <= Specificity(more[b])
                               /\ j < b => Specificity(more[j]) < Specificity(more[b])
    BY <1>4, <1>8
  <2>2. CASE had = {}
    <3>1. b = n + 1 /\ new = row
      BY <1>1, <1>8, <2>1, <2>2
    <3>2. Specificity(old) = 0
      BY <1>2, <1>3, <2>2, DefaultFilter
    <3> QED BY <1>6, <1>8, <3>1, <3>2
  <2>3. CASE had # {}
    <3>1. PICK a \in had : /\ old = fetched[a]
                           /\ \A j \in had :
                                /\ Specificity(fetched[j]) <= Specificity(fetched[a])
                                /\ j < a => Specificity(fetched[j]) < Specificity(fetched[a])
      BY <1>3, <2>3
    <3>2. /\ a \in have /\ more[a] = fetched[a] /\ a \in Int /\ a < n + 1
          /\ Specificity(fetched[a]) \in Nat
      BY <1>1, <1>2, <1>5, <1>6, <1>8
    <3>3. CASE b = n + 1
      <4>1. Specificity(more[a]) < Specificity(more[b])
        BY <2>1, <3>2, <3>3
      <4>2. Specificity(old) < Specificity(new) /\ new = row
        BY <1>1, <2>1, <3>1, <3>2, <3>3, <4>1
      <4> QED BY <1>6, <3>1, <3>2, <4>2
    <3>4. CASE b \in had
      <4>1. more[b] = fetched[b] /\ b \in Int /\ Specificity(fetched[b]) \in Nat
        BY <1>1, <1>2, <1>5, <1>6, <3>4
      <4>2. /\ Specificity(fetched[a]) <= Specificity(fetched[b])
            /\ a < b => Specificity(fetched[a]) < Specificity(fetched[b])
        BY <2>1, <3>2, <4>1
      <4>3. /\ Specificity(fetched[b]) <= Specificity(fetched[a])
            /\ b < a => Specificity(fetched[b]) < Specificity(fetched[a])
        BY <3>1, <3>4
      <4>4. ~(a < b) /\ ~(b < a)
        BY <3>2, <4>1, <4>2, <4>3
      <4>5. a = b
        BY <3>2, <4>1, <4>4
      <4> QED BY <2>1, <3>1, <4>1, <4>5
    <3> QED BY <1>8, <3>3, <3>4
  <2> QED BY <2>2, <2>3
<1> QED BY <1>1, <1>7, <1>8 DEF old, new, more

\* A row fetched later moves the event only within its own charge, and only to a filter
\* that matches strictly more of its properties.
THEOREM LaterRowsOnlyRefine == Spec => RowsOnlyRefine
<1> DEFINE Refined ==
             \A c \in ChargesOf(rows) :
               LET old == enrichWithChargeInfo(rows, event)[c]
                   new == enrichWithChargeInfo(rows', event)[c]
               IN  new # old => /\ Last(rows').charge = c
                                /\ Specificity(new) > Specificity(old)
<1>1. FetchInv /\ Next => Refined
  <2> SUFFICES ASSUME FetchInv, NEW row \in Rows, FetchRow(row), NEW c \in ChargesOf(rows)
               PROVE  LET old == enrichWithChargeInfo(rows, event)[c]
                          new == enrichWithChargeInfo(rows', event)[c]
                      IN  new # old => /\ Last(rows').charge = c
                                       /\ Specificity(new) > Specificity(old)
    BY DEF Next
  <2>1. PICK fetched, sent : fetched = rows /\ sent = event
    OBVIOUS
  <2>2. fetched \in Seq(Rows) /\ c \in ChargesOf(fetched) /\ rows' = Append(fetched, row)
    BY <2>1 DEF FetchInv, FetchRow
  <2>3. LET old == enrichWithChargeInfo(fetched, sent)[c]
            new == enrichWithChargeInfo(Append(fetched, row), sent)[c]
        IN  new # old => row.charge = c /\ Specificity(new) > Specificity(old)
    BY <2>2, OneMoreBucket
  <2>4. Last(rows') = row
    BY <2>2, OneMoreRow
  <2> QED BY <2>1, <2>2, <2>3, <2>4
<1>2. FetchInv /\ [Next]_vars => [Refined]_vars
  BY <1>1
<1> QED BY <1>2, FetchInvariance, PTL DEF Spec, RowsOnlyRefine
=============================================================================
