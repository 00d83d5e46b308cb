------------------------ MODULE SubscriptionsProofs ------------------------
(***************************************************************************)
(* What FetchSubscription and the conversions of time guarantee for any    *)
(* number of subscriptions, at any instants, and for any precision of the  *)
(* floats that PrecisionAssumption describes.                              *)
(***************************************************************************)
EXTENDS Subscriptions, WellFoundedInduction, TLAPS

-----------------------------------------------------------------------------
(* Truncating and rounding. *)

\* A truncated value is a multiple of the unit, not later and less than a unit
\* earlier.
LEMMA TruncateBounds ==
  ASSUME NEW x \in Int, NEW unit \in Nat \ {0}
  PROVE  /\ Truncate(x, unit) \in Int
         /\ Truncate(x, unit) <= x /\ x < Truncate(x, unit) + unit
BY DEF Truncate

\* No multiple of the unit lies between the truncated value and the value.
LEMMA TruncateLargest ==
  ASSUME NEW k \in Int, NEW unit \in Nat \ {0}, NEW x \in Int,
         k * unit <= x, x < k * unit + unit
  PROVE  Truncate(x, unit) = k * unit
<1>1. x \div unit = k
  OBVIOUS
<1> QED BY <1>1 DEF Truncate

\* Truncating again changes nothing.
LEMMA TruncateTwice ==
  ASSUME NEW x \in Int, NEW unit \in Nat \ {0}
  PROVE  Truncate(Truncate(x, unit), unit) = Truncate(x, unit)
<1> DEFINE k == x \div unit
<1>1. k \in Int /\ Truncate(x, unit) = k * unit
  BY DEF Truncate
<1> HIDE DEF k
<1>2. k * unit \in Int /\ k * unit <= k * unit /\ k * unit < k * unit + unit
  BY <1>1
<1> QED BY <1>1, <1>2, TruncateLargest

\* Truncating keeps the order of two instants.
LEMMA TruncateMonotone ==
  ASSUME NEW x \in Int, NEW y \in Int, NEW unit \in Nat \ {0}, x <= y
  PROVE  Truncate(x, unit) <= Truncate(y, unit)
<1> DEFINE k == x \div unit
           l == y \div unit
<1>1. k \in Int /\ l \in Int /\ k * unit <= x /\ y < l * unit + unit
  OBVIOUS
<1> HIDE DEF k, l
<1>2. k < l + 1
  <2>1. k * unit < (l + 1) * unit
    BY <1>1
  <2> QED BY <1>1, <2>1
<1>3. k * unit <= l * unit
  BY <1>1, <1>2
<1> QED BY <1>3 DEF Truncate, k, l

\* An instant stays one.
LEMMA TruncateNatural ==
  ASSUME NEW x \in Nat, NEW unit \in Nat \ {0}
  PROVE  Truncate(x, unit) \in Nat
<1> DEFINE k == x \div unit
<1>1. k \in Nat
  OBVIOUS
<1> HIDE DEF k
<1>2. k * unit \in Nat
  BY <1>1
<1> QED BY <1>2 DEF Truncate, k

\* A rounded value is at most half a spacing away.
LEMMA NearestBounds ==
  ASSUME NEW x \in Int, NEW spacing \in Nat \ {0}
  PROVE  /\ Nearest(x, spacing) \in Int
         /\ Nearest(x, spacing) <= x + spacing \div 2
         /\ x < Nearest(x, spacing) + spacing - spacing \div 2
<1>1. Nearest(x, spacing) = Truncate(x + spacing \div 2, spacing)
  BY DEF Nearest, Truncate
<1> DEFINE y == x + spacing \div 2
<1>2. spacing \div 2 \in Int /\ y \in Int
  OBVIOUS
<1>3. /\ Truncate(y, spacing) \in Int
      /\ Truncate(y, spacing) <= y /\ y < Truncate(y, spacing) + spacing
  BY <1>2, TruncateBounds
<1> QED BY <1>1, <1>2, <1>3

\* A value less than half a spacing away from a multiple is rounded to it.
LEMMA NearestMultiple ==
  ASSUME NEW k \in Int, NEW spacing \in Nat \ {0}, NEW x \in Int,
         k * spacing <= x + spacing \div 2, x + spacing \div 2 < k * spacing + spacing
  PROVE  Nearest(x, spacing) = k * spacing
<1>1. Nearest(x, spacing) = Truncate(x + spacing \div 2, spacing)
  BY DEF Nearest, Truncate
<1>2. x + spacing \div 2 \in Int
  OBVIOUS
<1> QED BY <1>1, <1>2, TruncateLargest

\* The precisions: half a spacing of the floats is less than a millisecond, and
\* the two spacings together do not reach the next multiple.
LEMMA Precision ==
  /\ Millisecond \in Nat \ {0} /\ Second \in Nat \ {0}
  /\ Ulp \in Nat \ {0} /\ ProductUlp \in Nat \ {0}
  /\ Ulp \div 2 \in Nat /\ ProductUlp \div 2 \in Nat
  /\ Ulp - Ulp \div 2 = Ulp \div 2 + 1
  /\ Ulp \div 2 < Millisecond
  /\ Ulp \div 2 <= ProductUlp \div 2
  /\ Ulp \div 2 + ProductUlp \div 2 < ProductUlp
<1>1. /\ Millisecond \in Nat \ {0} /\ Second \in Nat \ {0}
      /\ Ulp \in Nat \ {0} /\ ProductUlp \in Nat \ {0}
      /\ Ulp <= ProductUlp /\ Ulp % 2 = 1 /\ Millisecond % ProductUlp = 0
  BY PrecisionAssumption
<1>2. ProductUlp <= Millisecond
  <2>1. Millisecond = (Millisecond \div ProductUlp) * ProductUlp
    BY <1>1
  <2>2. Millisecond \div ProductUlp \in Int /\ Millisecond \div ProductUlp > 0
    BY <1>1, <2>1
  <2> QED BY <1>1, <2>1, <2>2
<1> QED BY <1>1, <1>2

\* The float64 of a timestamp.
LEMMA FloatBounds ==
  ASSUME NEW x \in Nat
  PROVE  /\ ParseFloat(x) \in Nat
         /\ ParseFloat(x) <= x + Ulp \div 2 /\ x <= ParseFloat(x) + Ulp \div 2
<1>1. /\ ParseFloat(x) \in Int
      /\ ParseFloat(x) <= x + Ulp \div 2
      /\ x < ParseFloat(x) + Ulp - Ulp \div 2
  <2>1. x \in Int /\ Ulp \in Nat \ {0}
    BY Precision
  <2> QED BY <2>1, NearestBounds DEF ParseFloat
<1>2. ParseFloat(x) >= 0
  <2> DEFINE k == (x + Ulp \div 2) \div Ulp
  <2>1. k \in Nat
    BY Precision
  <2> HIDE DEF k
  <2>2. k * Ulp >= 0
    BY <2>1, Precision
  <2> QED BY <2>2 DEF ParseFloat, Nearest, k
<1> QED BY <1>1, <1>2, Precision

\* ToTime truncates the float to the millisecond.
LEMMA ToTimeBounds ==
  ASSUME NEW kind \in Kinds, kind # "unsupported", NEW x \in Nat
  PROVE  /\ ToTime(kind, x) = Truncate(ParseFloat(x), Millisecond)
         /\ ToTime(kind, x) \in Nat
         /\ ToTime(kind, x) <= x + Ulp \div 2 /\ x < ToTime(kind, x) + 2 * Millisecond
<1>1. /\ ParseFloat(x) \in Nat
      /\ ParseFloat(x) <= x + Ulp \div 2 /\ x <= ParseFloat(x) + Ulp \div 2
  BY FloatBounds
<1>2. Truncate(ParseFloat(x), Second) \in Int
  BY <1>1, Precision, TruncateBounds
<1>3. ToTime(kind, x) = Truncate(ParseFloat(x), Millisecond)
  <2>1. Truncate(ParseFloat(x), Second) + (ParseFloat(x) - Truncate(ParseFloat(x), Second))
          = ParseFloat(x)
    BY <1>1, <1>2
  <2> QED BY <2>1 DEF ToTime
<1>4. /\ Truncate(ParseFloat(x), Millisecond) \in Int
      /\ Truncate(ParseFloat(x), Millisecond) <= ParseFloat(x)
      /\ ParseFloat(x) < Truncate(ParseFloat(x), Millisecond) + Millisecond
  <2>1. ParseFloat(x) \in Int /\ Millisecond \in Nat \ {0}
    BY <1>1, Precision
  <2> QED BY <2>1, TruncateBounds
<1>5. Truncate(ParseFloat(x), Millisecond) >= 0
  BY <1>1, <1>4, Precision, TruncateNatural
<1> QED BY <1>1, <1>3, <1>4, <1>5, Precision

\* A timestamp string on a millisecond keeps it: the product is rounded to the
\* millisecond the float was off.
LEMMA MillisecondsAreKept ==
  ASSUME NEW x \in Nat, x = Truncate(x, Millisecond)
  PROVE  Truncate(Nearest(ParseFloat(x), ProductUlp), Millisecond) = x
<1> DEFINE k == x \div ProductUlp
<1>1. k \in Int /\ k * ProductUlp = x
  <2> DEFINE m == x \div Millisecond
             n == Millisecond \div ProductUlp
  <2>1. m \in Int /\ n \in Int /\ x = m * Millisecond /\ Millisecond = n * ProductUlp
    BY Precision, PrecisionAssumption DEF Truncate
  <2> HIDE DEF m, n
  <2>2. x = (m * n) * ProductUlp /\ m * n \in Int
    BY <2>1, Precision
  <2>3. x \div ProductUlp = m * n
    BY <2>2, Precision
  <2> QED BY <2>2, <2>3
<1> HIDE DEF k
<1>2. /\ ParseFloat(x) \in Nat
      /\ ParseFloat(x) <= x + Ulp \div 2 /\ x <= ParseFloat(x) + Ulp \div 2
  BY FloatBounds
<1>3. Nearest(ParseFloat(x), ProductUlp) = x
  <2>1. /\ k * ProductUlp <= ParseFloat(x) + ProductUlp \div 2
        /\ ParseFloat(x) + ProductUlp \div 2 < k * ProductUlp + ProductUlp
    BY <1>1, <1>2, Precision
  <2> QED BY <1>1, <1>2, <2>1, Precision, NearestMultiple
<1> QED BY <1>3
-----------------------------------------------------------------------------
(* The rows of one external id. *)

Row == [started : Nat, terminated : Nat \cup {NoTime}]

\* The rows follow each other: each ends before the next one starts, so only the
\* last one may be active.
Ordered(rows) ==
  /\ rows \in Seq(Row)
  /\ \A i \in 1 .. Len(rows) : rows[i].terminated # NoTime => rows[i].started <= rows[i].terminated
  /\ \A i, j \in 1 .. Len(rows) : i < j =>
       rows[i].terminated # NoTime /\ rows[i].terminated <= rows[j].started

\* Nothing was started or terminated after the last action of the API.
Until(rows, instant) ==
  \A i \in 1 .. Len(rows) : rows[i].started <= instant /\ rows[i].terminated <= instant

EventInv == event \in [kind : Kinds, at : EventInstants]

RowsInv ==
  /\ now \in Nat
  /\ Ordered(subs) /\ Until(subs, now)

SubscriptionsInv == EventInv /\ RowsInv

\* The columns of a row are instants, or NULL for a row that is still active.
LEMMA RowFacts ==
  ASSUME NEW rows, Ordered(rows), NEW i \in 1 .. Len(rows)
  PROVE  /\ rows[i] \in Row
         /\ rows[i].started \in Nat /\ rows[i].terminated \in Int
         /\ rows[i].terminated # NoTime => rows[i].terminated \in Nat
<1>1. rows[i] \in Row
  BY DEF Ordered
<1> QED BY <1>1 DEF Row, NoTime

\* A new row goes behind the others.
LEMMA AppendOrdered ==
  ASSUME NEW rows, Ordered(rows), NEW at \in Nat, Until(rows, at),
         \A i \in 1 .. Len(rows) : rows[i].terminated # NoTime
  PROVE  /\ Ordered(Append(rows, Started(at)))
         /\ Until(Append(rows, Started(at)), at)
<1> DEFINE more == Append(rows, Started(at))
<1>1. rows \in Seq(Row) /\ Len(rows) \in Nat
  BY DEF Ordered
<1>2. Started(at) \in Row /\ Started(at).started = at /\ Started(at).terminated = NoTime
  BY DEF Started, Row
<1>3. /\ more \in Seq(Row) /\ Len(more) = Len(rows) + 1 /\ more[Len(rows) + 1] = Started(at)
      /\ \A i \in 1 .. Len(rows) : more[i] = rows[i]
  BY <1>1, <1>2
<1> HIDE DEF more
<1>4. \A i \in 1 .. Len(more) : i \in 1 .. Len(rows) \/ i = Len(rows) + 1
  BY <1>1, <1>3
<1>5. Until(more, at)
  BY <1>2, <1>3, <1>4 DEF Until, NoTime
<1>6. \A i \in 1 .. Len(more) : more[i].terminated # NoTime => more[i].started <= more[i].terminated
  BY <1>2, <1>3, <1>4 DEF Ordered
<1>7. ASSUME NEW i \in 1 .. Len(more), NEW j \in 1 .. Len(more), i < j
      PROVE  more[i].terminated # NoTime /\ more[i].terminated <= more[j].started
  <2>1. i \in 1 .. Len(rows)
    BY <1>1, <1>3, <1>7
  <2>2. CASE j \in 1 .. Len(rows)
    BY <1>3, <1>7, <2>1, <2>2 DEF Ordered
  <2>3. CASE j = Len(rows) + 1
    BY <1>2, <1>3, <2>1, <2>3 DEF Until
  <2> QED BY <1>4, <2>2, <2>3
<1> QED BY <1>3, <1>5, <1>6, <1>7 DEF Ordered, more

\* Ending the last row keeps the order.
LEMMA TerminateOrdered ==
  ASSUME RowsInv, Active, NEW at \in Nat, at >= now
  PROVE  /\ Len(subs) \in 1 .. Len(subs) /\ subs[Len(subs)].terminated = NoTime
         /\ Len(Terminated(at)) = Len(subs)
         /\ Terminated(at)[Len(subs)].started = subs[Len(subs)].started
         /\ Terminated(at)[Len(subs)].terminated = at
         /\ \A i \in 1 .. Len(subs) - 1 : Terminated(at)[i] = subs[i]
         /\ Ordered(Terminated(at)) /\ Until(Terminated(at), at)
         /\ \A i \in 1 .. Len(subs) : Terminated(at)[i].terminated # NoTime
<1> DEFINE n == Len(subs)
           ended == Terminated(at)
<1>1. subs \in Seq(Row) /\ subs # << >> /\ subs[n].terminated = NoTime
  BY DEF RowsInv, Ordered, Active, Last
<1>2. n \in Nat /\ n \in 1 .. n
  BY <1>1
<1>3. subs[n] \in Row
  BY <1>1, <1>2
<1>4. [subs[n] EXCEPT !.terminated = at] \in Row
  BY <1>3 DEF Row
<1>5. /\ ended \in Seq(Row) /\ Len(ended) = n
      /\ ended[n] = [subs[n] EXCEPT !.terminated = at]
      /\ \A i \in 1 .. n - 1 : ended[i] = subs[i]
  BY <1>1, <1>2, <1>4 DEF Terminated
<1>6. ended[n].started = subs[n].started /\ ended[n].terminated = at
  BY <1>3, <1>5 DEF Row
<1> HIDE DEF ended
<1>7. \A i \in 1 .. n : i \in 1 .. n - 1 \/ i = n
  BY <1>2
<1>8. now \in Nat /\ at # NoTime
  BY DEF RowsInv, NoTime
<1>9. \A i \in 1 .. n : subs[i].started \in Nat /\ subs[i].terminated \in Int
  BY RowFacts DEF RowsInv
<1>10. Until(ended, at)
  <2>1. \A i \in 1 .. n : subs[i].started <= now /\ subs[i].terminated <= now
    BY DEF RowsInv, Until
  <2>2. \A i \in 1 .. n : subs[i].started <= at /\ subs[i].terminated <= at
    BY <1>8, <1>9, <2>1
  <2>3. \A i \in 1 .. n - 1 : ended[i].started <= at /\ ended[i].terminated <= at
    BY <1>2, <1>5, <2>2
  <2>4. ended[n].started <= at /\ ended[n].terminated <= at
    BY <1>2, <1>6, <2>2
  <2> QED BY <1>5, <1>7, <2>3, <2>4 DEF Until
<1>11. \A i \in 1 .. n : ended[i].terminated # NoTime
  <2>1. \A i \in 1 .. n - 1 : subs[i].terminated # NoTime
    BY <1>2 DEF RowsInv, Ordered
  <2> QED BY <1>5, <1>6, <1>7, <1>8, <2>1
<1>12. Ordered(ended)
  <2>1. \A i \in 1 .. n : ended[i].started <= ended[i].terminated
    <3>1. \A i \in 1 .. n - 1 : subs[i].started <= subs[i].terminated
      BY <1>2 DEF RowsInv, Ordered
    <3>2. subs[n].started <= at
      BY <1>2, <1>5, <1>6, <1>10 DEF Until
    <3> QED BY <1>5, <1>6, <1>7, <3>1, <3>2
  <2>2. \A i, j \in 1 .. n : i < j => ended[i].terminated <= ended[j].started
    <3>1. \A i, j \in 1 .. n : i < j => i \in 1 .. n - 1 /\ subs[i].terminated <= subs[j].started
      BY <1>2 DEF RowsInv, Ordered
    <3>2. \A j \in 1 .. n : ended[j].started = subs[j].started
      BY <1>5, <1>6, <1>7
    <3> QED BY <1>5, <3>1, <3>2
  <2> QED BY <1>5, <1>11, <2>1, <2>2 DEF Ordered
<1> QED BY <1>1, <1>2, <1>5, <1>6, <1>10, <1>11, <1>12 DEF ended

\* Start, Terminate and Upgrade keep the rows in order.
LEMMA RowsInvariance == Spec => []RowsInv
<1>1. Init => RowsInv
  <2> SUFFICES ASSUME Init PROVE RowsInv
    OBVIOUS
  <2>1. now \in Nat /\ subs = << >>
    BY InstantsAssumption DEF Init
  <2> QED BY <2>1 DEF RowsInv, Ordered, Until
<1>2. RowsInv /\ [Next]_vars => RowsInv'
  <2> SUFFICES ASSUME RowsInv, [Next]_vars PROVE RowsInv'
    OBVIOUS
  <2>1. ASSUME NEW at \in Boundaries, Start(at) PROVE RowsInv'
    <3>1. at \in Nat /\ at >= now /\ subs' = Append(subs, Started(at)) /\ now' = at
      BY <2>1, InstantsAssumption DEF Start
    <3>2. Until(subs, at)
      BY <3>1, RowFacts DEF RowsInv, Until
    <3>3. \A i \in 1 .. Len(subs) : subs[i].terminated # NoTime
      BY <2>1 DEF Start, Active, Last, RowsInv, Ordered
    <3> QED BY <3>1, <3>2, <3>3, AppendOrdered DEF RowsInv
  <2>2. ASSUME NEW at \in Boundaries, Terminate(at) PROVE RowsInv'
    <3>1. at \in Nat /\ at >= now /\ Active /\ subs' = Terminated(at) /\ now' = at
      BY <2>2, InstantsAssumption DEF Terminate
    <3> QED BY <3>1, TerminateOrdered DEF RowsInv
  <2>3. ASSUME NEW at \in Boundaries, Upgrade(at) PROVE RowsInv'
    <3>1. at \in Nat /\ at >= now /\ Active /\ now' = at
          /\ subs' = Append(Terminated(at), Started(at))
      BY <2>3, InstantsAssumption DEF Upgrade
    <3>2. /\ Ordered(Terminated(at)) /\ Until(Terminated(at), at)
          /\ \A i \in 1 .. Len(Terminated(at)) : Terminated(at)[i].terminated # NoTime
      BY <3>1, TerminateOrdered
    <3> QED BY <3>1, <3>2, AppendOrdered DEF RowsInv
  <2>4. CASE UNCHANGED vars
    BY <2>4 DEF vars, RowsInv
  <2> QED BY <2>1, <2>2, <2>3, <2>4 DEF Next
<1> QED BY <1>1, <1>2, PTL DEF Spec

\* The event that is looked up is the same throughout.
LEMMA EventInvariance == Spec => []EventInv
<1>1. Init => EventInv
  BY DEF Init, EventInv
<1>2. EventInv /\ [Next]_vars => EventInv'
  BY DEF EventInv, Next, Start, Terminate, Upgrade, vars
<1> QED BY <1>1, <1>2, PTL DEF Spec

\* The rows of an external id never overlap, and the event keeps its type.
THEOREM SubscriptionsInvariance == Spec => []SubscriptionsInv
BY RowsInvariance, EventInvariance, PTL DEF SubscriptionsInv
-----------------------------------------------------------------------------
(* The two times of an enriched event, and ingested_at. *)

\* ToTime and ToFloat64Timestamp stay close to the raw timestamp.
THEOREM ConversionsAreClose == Spec => []TimesAreClose
<1>1. EventInv => TimesAreClose
  <2> SUFFICES ASSUME EventInv, Enriched.ok PROVE
               /\ Enriched.time <= event.at + Ulp \div 2
               /\ event.at < Enriched.time + 2 * Millisecond
               /\ event.kind = "string" /\ OnMillisecond => Enriched.timestamp = ParseFloat(event.at)
    BY DEF TimesAreClose
  <2>1. event.kind \in Kinds /\ event.kind # "unsupported" /\ event.at \in Nat
    BY InstantsAssumption DEF EventInv, Enriched, ToEnrichedEvent
  <2>2. /\ Enriched.time = ToTime(event.kind, event.at)
        /\ Enriched.timestamp = ToFloat64Timestamp(event.kind, event.at)
    BY DEF Enriched, ToEnrichedEvent
  <2>3. Enriched.time <= event.at + Ulp \div 2 /\ event.at < Enriched.time + 2 * Millisecond
    BY <2>1, <2>2, ToTimeBounds
  <2>4. ASSUME event.kind = "string", OnMillisecond
        PROVE  Enriched.timestamp = ParseFloat(event.at)
    <3>1. Truncate(Nearest(ParseFloat(event.at), ProductUlp), Millisecond) = event.at
      BY <2>1, <2>4, MillisecondsAreKept DEF OnMillisecond
    <3> QED BY <2>2, <2>4, <3>1 DEF ToFloat64Timestamp
  <2> QED BY <2>3, <2>4
<1> QED BY <1>1, EventInvariance, PTL

\* What one trip of a time through JSON costs, and that the next costs nothing.
LEMMA StampKept ==
  ASSUME NEW stamp \in Nat
  PROVE  LET wire  == MarshalJSON(stamp)
             again == UnmarshalJSON(wire)
         IN  again <= stamp /\ stamp < again + Second /\ MarshalJSON(again) = wire
<1> DEFINE cut == Truncate(stamp, Second)
<1>1. cut \in Nat /\ cut <= stamp /\ stamp < cut + Second
  BY Precision, TruncateBounds, TruncateNatural
<1>2. Truncate(cut, Second) = cut
  BY Precision, TruncateTwice
<1>3. MarshalJSON(stamp) = [form |-> "layout", at |-> cut]
  BY DEF MarshalJSON, ZeroTime
<1> HIDE DEF cut
<1>4. UnmarshalJSON([form |-> "layout", at |-> cut]) = cut
  BY DEF UnmarshalJSON
<1>5. MarshalJSON(cut) = [form |-> "layout", at |-> cut]
  BY <1>1, <1>2 DEF MarshalJSON, ZeroTime
<1> QED BY <1>1, <1>3, <1>4, <1>5

\* However often a dead letter is replayed, the 12 hours of its retries do not
\* start again.
THEOREM ReplaysDoNotRejuvenate == Spec => []ReplaysKeepIngestedAt
<1>1. EventInv => ReplaysKeepIngestedAt
  <2> SUFFICES ASSUME EventInv, NEW form \in StampForms
               PROVE  LET stamp == UnmarshalJSON([form |-> form, at |-> event.at])
                          wire  == MarshalJSON(stamp)
                          again == UnmarshalJSON(wire)
                      IN  /\ again <= stamp /\ stamp < again + Second
                          /\ MarshalJSON(again) = wire
    BY DEF ReplaysKeepIngestedAt
  <2> DEFINE stamp == UnmarshalJSON([form |-> form, at |-> event.at])
  <2>1. event.at \in Nat
    BY InstantsAssumption DEF EventInv
  <2>2. CASE form = "empty"
    <3>1. stamp = ZeroTime
      BY <2>2 DEF UnmarshalJSON
    <3>2. MarshalJSON(ZeroTime) = [form |-> "empty", at |-> 0]
      BY DEF MarshalJSON
    <3>3. UnmarshalJSON([form |-> "empty", at |-> 0]) = ZeroTime
      BY DEF UnmarshalJSON
    <3>4. ZeroTime <= ZeroTime /\ ZeroTime < ZeroTime + Second
      BY Precision DEF ZeroTime
    <3> QED BY <3>1, <3>2, <3>3, <3>4
  <2>3. CASE form = "layout"
    <3>1. stamp = event.at
      BY <2>3 DEF UnmarshalJSON
    <3> QED BY <2>1, <3>1, StampKept
  <2>4. CASE form = "unix"
    <3>1. stamp = ToTime("string", event.at)
      BY <2>4 DEF UnmarshalJSON
    <3>2. stamp \in Nat
      BY <2>1, <3>1, ToTimeBounds DEF Kinds
    <3> QED BY <3>2, StampKept
  <2> QED BY <2>2, <2>3, <2>4 DEF StampForms
<1> QED BY <1>1, EventInvariance, PTL
-----------------------------------------------------------------------------
(* The row that is found. *)

\* Both ends of a row at the precision of the query.
LEMMA EndsTruncated ==
  ASSUME NEW x \in Nat
  PROVE  /\ Truncate(x, Millisecond) \in Nat
         /\ Truncate(x, Millisecond) <= x /\ x < Truncate(x, Millisecond) + Millisecond
BY Precision, TruncateBounds, TruncateNatural

\* An earlier row never precedes a later one in the order of the query.
LEMMA EarlierComesLater ==
  ASSUME NEW rows, Ordered(rows), NEW i \in 1 .. Len(rows), NEW j \in 1 .. Len(rows), i <= j
  PROVE  ~Precedes(rows[i], rows[j])
<1>1. /\ rows[i].started \in Nat /\ rows[i].terminated \in Int
      /\ rows[j].started \in Nat /\ rows[j].terminated \in Int
  BY RowFacts
<1>2. CASE i = j
  BY <1>1, <1>2 DEF Precedes
<1>3. CASE i # j
  <2>1. /\ rows[i].terminated # NoTime /\ rows[i].terminated <= rows[j].started
        /\ rows[i].started <= rows[i].terminated
        /\ rows[j].terminated # NoTime => rows[j].started <= rows[j].terminated
    BY <1>3 DEF Ordered
  <2> QED BY <1>1, <2>1 DEF Precedes
<1> QED BY <1>2, <1>3

\* A row that covers the time alone is the one returned.
LEMMA OnlyCover ==
  ASSUME NEW rows, Ordered(rows), NEW t, NEW i \in 1 .. Len(rows), Covers(rows[i], t),
         \A j \in 1 .. Len(rows) : Covers(rows[j], t) => j = i
  PROVE  FetchSubscription(rows, t) = {i}
<1>1. ~Precedes(rows[i], rows[i])
  BY EarlierComesLater
<1>2. DOMAIN rows = 1 .. Len(rows)
  BY DEF Ordered
<1> QED BY <1>1, <1>2 DEF FetchSubscription

\* Two milliseconds inside a subscription, FetchSubscription returns that one.
THEOREM RightSubscription == Spec => []ChargedToItsSubscription
<1>1. SubscriptionsInv => ChargedToItsSubscription
  <2> SUFFICES ASSUME SubscriptionsInv, NEW i \in DOMAIN subs,
                      Enriched.ok, event.at >= subs[i].started + 2 * Millisecond,
                      subs[i].terminated = NoTime \/ event.at + 2 * Millisecond <= subs[i].terminated
               PROVE  FetchSubscription(subs, Enriched.time) = {i}
    BY DEF ChargedToItsSubscription
  <2>1. event.kind \in Kinds /\ event.kind # "unsupported" /\ event.at \in Nat
    BY InstantsAssumption DEF SubscriptionsInv, EventInv, Enriched, ToEnrichedEvent
  <2> DEFINE t == Enriched.time
             x == event.at
  <2>2. t \in Nat /\ t <= x + Millisecond /\ x < t + 2 * Millisecond
    <3>1. t = ToTime(event.kind, x)
      BY DEF Enriched, ToEnrichedEvent
    <3>2. t \in Nat /\ t <= x + Ulp \div 2 /\ x < t + 2 * Millisecond
      BY <2>1, <3>1, ToTimeBounds
    <3> QED BY <2>1, <3>2, Precision
  <2>3. Ordered(subs) /\ i \in 1 .. Len(subs)
    BY DEF SubscriptionsInv, RowsInv, Ordered
  <2>4. x \in Nat /\ x >= subs[i].started + 2 * Millisecond
        /\ (subs[i].terminated = NoTime \/ x + 2 * Millisecond <= subs[i].terminated)
    BY <2>1
  <2> HIDE DEF t, x
  <2>5. /\ subs[i].started \in Nat
        /\ subs[i].terminated # NoTime => subs[i].terminated \in Nat
    BY <2>3, RowFacts
  <2>6. Covers(subs[i], t)
    <3>1. Truncate(subs[i].started, Millisecond) <= t
      <4>1. /\ Truncate(subs[i].started, Millisecond) \in Nat
            /\ Truncate(subs[i].started, Millisecond) <= subs[i].started
        BY <2>5, EndsTruncated
      <4> QED BY <2>2, <2>4, <2>5, <4>1, Precision
    <3>2. ASSUME subs[i].terminated # NoTime
          PROVE  Truncate(subs[i].terminated, Millisecond) >= t
      <4>1. /\ Truncate(subs[i].terminated, Millisecond) \in Nat
            /\ subs[i].terminated < Truncate(subs[i].terminated, Millisecond) + Millisecond
        BY <2>5, <3>2, EndsTruncated
      <4> QED BY <2>2, <2>4, <2>5, <3>2, <4>1, Precision
    <3> QED BY <3>1, <3>2 DEF Covers
  <2>7. ASSUME NEW j \in 1 .. Len(subs), j # i PROVE ~Covers(subs[j], t)
    <3>1. /\ subs[j].started \in Nat
          /\ subs[j].terminated # NoTime => subs[j].terminated \in Nat
      BY <2>3, RowFacts
    <3>2. CASE j < i
      <4>1. subs[j].terminated # NoTime /\ subs[j].terminated <= subs[i].started
        BY <2>3, <3>2 DEF Ordered
      <4>2. /\ Truncate(subs[j].terminated, Millisecond) \in Nat
            /\ Truncate(subs[j].terminated, Millisecond) <= subs[j].terminated
        BY <3>1, <4>1, EndsTruncated
      <4>3. ~(Truncate(subs[j].terminated, Millisecond) >= t)
        BY <2>2, <2>4, <2>5, <3>1, <4>1, <4>2, Precision
      <4> QED BY <4>1, <4>3 DEF Covers
    <3>3. CASE i < j
      <4>1. subs[i].terminated # NoTime /\ subs[i].terminated <= subs[j].started
        BY <2>3, <3>3 DEF Ordered
      <4>2. /\ Truncate(subs[j].started, Millisecond) \in Nat
            /\ subs[j].started < Truncate(subs[j].started, Millisecond) + Millisecond
        BY <3>1, EndsTruncated
      <4>3. ~(Truncate(subs[j].started, Millisecond) <= t)
        BY <2>2, <2>4, <2>5, <3>1, <4>1, <4>2, Precision
      <4> QED BY <4>3 DEF Covers
    <3> QED BY <2>3, <2>7, <3>2, <3>3
  <2> QED BY <2>3, <2>6, <2>7, OnlyCover DEF t
<1> QED BY <1>1, SubscriptionsInvariance, PTL

\* A set of indices of the rows that is not empty has a last one.
LEMMA LastIndex ==
  ASSUME NEW n \in Nat, NEW S, S \subseteq 1 .. n, S # {}
  PROVE  \E k \in S : \A j \in S : j <= k
<1> DEFINE T == {n - k : k \in S}
<1>1. T \subseteq Nat /\ T # {}
  <2>1. T \subseteq Nat
    OBVIOUS
  <2>2. PICK k \in S : TRUE
    OBVIOUS
  <2>3. n - k \in T
    BY <2>2
  <2> QED BY <2>1, <2>3
<1>2. PICK x \in T : \A y \in T : <<y, x>> \notin OpToRel(<, Nat)
  <2> HIDE DEF T
  <2> QED BY <1>1, NatLessThanWellFounded, WFMin
<1>3. \A y \in T : ~(y < x)
  BY <1>1, <1>2 DEF OpToRel
<1>4. PICK k \in S : x = n - k
  OBVIOUS
<1>5. \A j \in S : n - j \in T /\ j \in 1 .. n /\ k \in 1 .. n
  OBVIOUS
<1>6. \A j \in S : j <= k
  BY <1>3, <1>4, <1>5
<1> QED BY <1>6

\* FetchSubscription finds a row whenever one covers the time ...
LEMMA FoundWhenCovered ==
  ASSUME NEW rows, Ordered(rows), NEW t, NEW i \in 1 .. Len(rows), Covers(rows[i], t)
  PROVE  FetchSubscription(rows, t) # {}
<1> DEFINE found == {j \in 1 .. Len(rows) : Covers(rows[j], t)}
<1>1. DOMAIN rows = 1 .. Len(rows) /\ Len(rows) \in Nat
  BY DEF Ordered
<1>2. PICK k \in found : \A j \in found : j <= k
  BY <1>1, LastIndex
<1>3. \A j \in found : ~Precedes(rows[j], rows[k])
  BY <1>2, EarlierComesLater
<1> QED BY <1>1, <1>2, <1>3 DEF FetchSubscription

\* ... and of the rows that do, one that started last.
LEMMA LastStarted ==
  ASSUME NEW rows, Ordered(rows), NEW t, NEW k \in FetchSubscription(rows, t),
         NEW j \in 1 .. Len(rows), Covers(rows[j], t)
  PROVE  rows[j].started <= rows[k].started
<1>1. k \in 1 .. Len(rows) /\ ~Precedes(rows[j], rows[k])
  BY DEF FetchSubscription, Ordered
<1>2. /\ rows[j].started \in Nat /\ rows[j].terminated \in Int
      /\ rows[k].started \in Nat /\ rows[k].terminated \in Int
  BY <1>1, RowFacts
<1>3. CASE j = k
  BY <1>2, <1>3
<1>4. CASE j < k
  <2>1. /\ rows[j].terminated # NoTime /\ rows[j].terminated <= rows[k].started
        /\ rows[j].started <= rows[j].terminated
    BY <1>1, <1>4 DEF Ordered
  <2> QED BY <1>2, <2>1
<1>5. CASE k < j
  <2>1. /\ rows[k].terminated # NoTime /\ rows[k].terminated <= rows[j].started
        /\ rows[j].terminated # NoTime => rows[j].started <= rows[j].terminated
    BY <1>1, <1>5 DEF Ordered
  <2>2. rows[j].terminated # NoTime
    BY <1>1, <2>1 DEF Precedes
  <2>3. rows[j].terminated = rows[k].terminated
    BY <1>1, <1>2, <2>1, <2>2 DEF Precedes
  <2> QED BY <1>1, <1>2, <2>3 DEF Precedes
<1> QED BY <1>1, <1>3, <1>4, <1>5

\* From the start of a subscription to the end of the one it is upgraded to, every
\* millisecond has a subscription, the newer one where both qualify.
THEOREM NoGapAtUpgrade == Spec => []UpgradeIsSeamless
<1>1. RowsInv => UpgradeIsSeamless
  <2> SUFFICES ASSUME RowsInv, NEW i \in 1 .. Len(subs) - 1,
                      subs[i].terminated = subs[i + 1].started,
                      NEW t \in Milliseconds,
                      Truncate(subs[i].started, Millisecond) <= t,
                      \/ subs[i + 1].terminated = NoTime
                      \/ t <= Truncate(subs[i + 1].terminated, Millisecond)
               PROVE  /\ FetchSubscription(subs, t) # {}
                      /\ \A k \in FetchSubscription(subs, t) : \A j \in DOMAIN subs :
                           Covers(subs[j], t) => subs[j].started <= subs[k].started
    BY DEF UpgradeIsSeamless
  <2>1. /\ Ordered(subs) /\ DOMAIN subs = 1 .. Len(subs)
        /\ i \in 1 .. Len(subs) /\ i + 1 \in 1 .. Len(subs)
    BY DEF RowsInv, Ordered
  <2>2. t \in Nat
    BY InstantsAssumption, EndsTruncated DEF Milliseconds
  <2>3. subs[i + 1].started \in Nat /\ (subs[i + 1].terminated # NoTime => subs[i + 1].terminated \in Nat)
    BY <2>1, RowFacts
  <2>4. Truncate(subs[i].terminated, Millisecond) \in Nat
    BY <2>3, EndsTruncated
  <2>5. CASE t <= Truncate(subs[i].terminated, Millisecond)
    <3>1. Covers(subs[i], t)
      BY <2>2, <2>4, <2>5 DEF Covers
    <3> QED BY <2>1, <3>1, FoundWhenCovered, LastStarted
  <2>6. CASE ~(t <= Truncate(subs[i].terminated, Millisecond))
    <3>1. Truncate(subs[i + 1].started, Millisecond) <= t
      BY <2>2, <2>4, <2>6
    <3>2. subs[i + 1].terminated # NoTime => Truncate(subs[i + 1].terminated, Millisecond) \in Nat
      BY <2>3, EndsTruncated
    <3>3. Covers(subs[i + 1], t)
      BY <2>2, <3>1, <3>2 DEF Covers
    <3> QED BY <2>1, <3>3, FoundWhenCovered, LastStarted
  <2> QED BY <2>5, <2>6
<1> QED BY <1>1, RowsInvariance, PTL

\* A row that starts later than the time changes nothing.
LEMMA StartKeepsPast ==
  ASSUME NEW rows, Ordered(rows), NEW at \in Nat, NEW t \in Nat, t < Truncate(at, Millisecond)
  PROVE  FetchSubscription(Append(rows, Started(at)), t) = FetchSubscription(rows, t)
<1> DEFINE more == Append(rows, Started(at))
           n == Len(rows)
<1>1. rows \in Seq(Row) /\ n \in Nat /\ DOMAIN rows = 1 .. n
  BY DEF Ordered
<1>2. Started(at) \in Row /\ Started(at).started = at
  BY DEF Started, Row
<1>3. /\ DOMAIN more = 1 .. n + 1 /\ more[n + 1] = Started(at)
      /\ \A i \in 1 .. n : more[i] = rows[i]
  BY <1>1, <1>2
<1>4. ~Covers(Started(at), t)
  <2>1. Truncate(at, Millisecond) \in Nat
    BY EndsTruncated
  <2> QED BY <1>2, <2>1 DEF Covers
<1> HIDE DEF more, n
<1>5. {i \in DOMAIN more : Covers(more[i], t)} = {i \in DOMAIN rows : Covers(rows[i], t)}
  <2>1. \A i \in 1 .. n + 1 : i \in 1 .. n \/ i = n + 1
    BY <1>1
  <2>2. \A i \in 1 .. n : i \in 1 .. n + 1
    BY <1>1
  <2> QED BY <1>1, <1>3, <1>4, <2>1, <2>2
<1>6. FetchSubscription(more, t) = FetchSubscription(rows, t)
  BY <1>1, <1>3, <1>5 DEF FetchSubscription
<1> QED BY <1>6 DEF more

\* Neither does the end of a row: it still covers the time if it did, and what it
\* preceded while it was active it still precedes.
LEMMA TerminateKeepsPast ==
  ASSUME RowsInv, Active, NEW at \in Nat, at >= now, NEW t \in Nat, t < Truncate(at, Millisecond)
  PROVE  FetchSubscription(Terminated(at), t) = FetchSubscription(subs, t)
<1> DEFINE n == Len(subs)
           ended == Terminated(at)
<1>1. /\ n \in 1 .. n /\ subs[n].terminated = NoTime
      /\ Len(ended) = n /\ ended[n].started = subs[n].started /\ ended[n].terminated = at
      /\ \A i \in 1 .. n - 1 : ended[i] = subs[i]
      /\ Ordered(ended)
  BY TerminateOrdered
<1> HIDE DEF ended
<1>2. Ordered(subs) /\ DOMAIN subs = 1 .. n /\ DOMAIN ended = 1 .. n /\ n \in Nat
  BY <1>1 DEF RowsInv, Ordered
<1> HIDE DEF n
<1>3. \A i \in 1 .. n : (i \in 1 .. n - 1 /\ i < n) \/ i = n
  BY <1>2
<1>4. Truncate(at, Millisecond) \in Nat /\ at # NoTime
  BY EndsTruncated DEF NoTime
<1> DEFINE found == {i \in 1 .. n : Covers(subs[i], t)}
<1>5. {i \in 1 .. n : Covers(ended[i], t)} = found
  <2>1. Covers(ended[n], t) <=> Covers(subs[n], t)
    BY <1>1, <1>4 DEF Covers
  <2> QED BY <1>1, <1>3, <2>1
<1>6. /\ FetchSubscription(ended, t) = {i \in found : \A j \in found : ~Precedes(ended[j], ended[i])}
      /\ FetchSubscription(subs, t) = {i \in found : \A j \in found : ~Precedes(subs[j], subs[i])}
  BY <1>2, <1>5 DEF FetchSubscription
<1>7. CASE n \notin found
  <2>1. \A i \in found : ended[i] = subs[i]
    BY <1>1, <1>3, <1>7
  <2> QED BY <1>6, <2>1 DEF ended
<1>8. CASE n \in found
  <2>1. subs[n].started \in Nat
    BY <1>1, <1>2, RowFacts
  <2>2. subs[n].started < at
    <3>1. Truncate(subs[n].started, Millisecond) \in Nat
      BY <2>1, EndsTruncated
    <3>2. Truncate(subs[n].started, Millisecond) < Truncate(at, Millisecond)
      BY <1>4, <1>8, <3>1 DEF Covers
    <3>3. at <= subs[n].started => Truncate(at, Millisecond) <= Truncate(subs[n].started, Millisecond)
      <4>1. at \in Int /\ subs[n].started \in Int /\ Millisecond \in Nat \ {0}
        BY <2>1, Precision
      <4> QED BY <4>1, TruncateMonotone
    <3> QED BY <1>4, <2>1, <3>1, <3>2, <3>3
  <2>3. \A i \in found : ~Precedes(subs[i], subs[n]) /\ ~Precedes(ended[i], ended[n])
    <3>1. \A i \in found : i \in 1 .. n /\ i <= n
      BY <1>2
    <3> QED BY <1>1, <1>2, <3>1, EarlierComesLater DEF n
  <2>4. ASSUME NEW i \in found, i # n
        PROVE  Precedes(subs[n], subs[i]) /\ Precedes(ended[n], ended[i])
    <3>1. i \in 1 .. n - 1 /\ i < n
      BY <1>3, <2>4
    <3>2. subs[i].terminated # NoTime /\ subs[i].terminated <= subs[n].started
      BY <1>1, <1>2, <3>1 DEF Ordered
    <3>3. subs[i].terminated \in Nat
      BY <1>2, <3>1, <3>2, RowFacts
    <3>4. at > subs[i].terminated
      BY <2>1, <2>2, <3>2, <3>3
    <3> QED BY <1>1, <1>4, <3>1, <3>2, <3>4 DEF Precedes
  <2> QED BY <1>6, <1>8, <2>3, <2>4 DEF ended
<1> QED BY <1>7, <1>8

\* A late or replayed event is charged as it was before the API's last action.
THEOREM PastIsSettled == Spec => PastIsStable
<1> DEFINE Stable == \A t \in Milliseconds : t < Truncate(now', Millisecond) =>
                       FetchSubscription(subs', t) = FetchSubscription(subs, t)
<1>1. RowsInv /\ [Next]_vars => [Stable]_vars
  <2> SUFFICES ASSUME RowsInv, Next, NEW t \in Milliseconds, t < Truncate(now', Millisecond)
               PROVE  FetchSubscription(subs', t) = FetchSubscription(subs, t)
    OBVIOUS
  <2>1. t \in Nat
    BY InstantsAssumption, EndsTruncated DEF Milliseconds
  <2>2. PICK at \in Boundaries : Start(at) \/ Terminate(at) \/ Upgrade(at)
    BY DEF Next
  <2>3. at \in Nat /\ now' = at /\ at >= now
    BY <2>2, InstantsAssumption DEF Start, Terminate, Upgrade
  <2>4. CASE Start(at)
    BY <2>1, <2>3, <2>4, StartKeepsPast DEF Start, RowsInv
  <2>5. CASE Terminate(at)
    BY <2>1, <2>3, <2>5, TerminateKeepsPast DEF Terminate
  <2>6. CASE Upgrade(at)
    <3>1. Active /\ subs' = Append(Terminated(at), Started(at))
      BY <2>6 DEF Upgrade
    <3>2. Ordered(Terminated(at))
      BY <2>3, <3>1, TerminateOrdered
    <3>3. FetchSubscription(subs', t) = FetchSubscription(Terminated(at), t)
      BY <2>1, <2>3, <3>1, <3>2, StartKeepsPast
    <3>4. FetchSubscription(Terminated(at), t) = FetchSubscription(subs, t)
      BY <2>1, <2>3, <3>1, TerminateKeepsPast
    <3> QED BY <3>3, <3>4
  <2> QED BY <2>2, <2>4, <2>5, <2>6
<1> QED BY <1>1, RowsInvariance, PTL DEF Spec, PastIsStable
=============================================================================
