---------------------------- MODULE FlatFilters ----------------------------
(***************************************************************************)
(* Which charge filter an event falls in: MatchingFilter                   *)
(* (events-processor/models/flat_filters.go), and enrichWithChargeInfo     *)
(* which applies it per charge.  The rows of the flat_filters view come in *)
(* whatever order Postgres returns them.                                   *)
(***************************************************************************)
EXTENDS Integers, FiniteSets, SequencesExt

CONSTANTS
  Charges,
  Keys,        \* property names
  Values,      \* strings a filter lists
  Properties,  \* JSON values a property may have
  Sprint,      \* fmt.Sprintf("%v"), from Properties to strings
  Nil,         \* an absent or null property
  GroupKeys,   \* the sets of pricing group keys a charge or a filter may have
  MaxRows      \* bound: rows of the view for one plan and metric

ASSUME NilAssumption == Nil \notin Properties
ASSUME SprintAssumption == DOMAIN Sprint = Properties
ASSUME MaxRowsAssumption == MaxRows \in Nat
ASSUME KeysAssumption == IsFiniteSet(Keys)
ASSUME RowsAssumption == GroupKeys \subseteq SUBSET Keys

\* A row: its charge, its filters, a map from keys to accepted values (empty
\* for a row without filters), and its pricing group keys.
NoFilters == [k \in {} |-> {}]
FilterMaps == UNION {[K -> (SUBSET Values) \ {{}}] : K \in SUBSET Keys}
Rows == [charge : Charges, filters : FilterMaps, groupKeys : GroupKeys]

VARIABLES
  event,  \* the properties of the event
  rows    \* the rows fetched so far
vars == <<event, rows>>

HasFilters(row) == row.filters # NoFilters

\* Faulty variant: one matching property is enough.
IsPartlyMatching(row, ev) ==
  \E k \in DOMAIN row.filters : ev[k] # Nil /\ Sprint[ev[k]] \in row.filters[k]

IsMatchingEvent(row, ev) ==
  \A k \in DOMAIN row.filters : ev[k] # Nil /\ Sprint[ev[k]] \in row.filters[k]

\* ToDefaultFilter: the charge without filter and without pricing group keys,
\* for the charge's own bucket.
ToDefaultFilter(row) ==
  [row EXCEPT !.filters = NoFilters, !.groupKeys = {}]

\* The number of properties a filter matches on.
Specificity(row) == Cardinality(DOMAIN row.filters)

\* Faulty variant: the last of the most specific.
AsSpecific(fetched, best, i) ==
  best = 0 \/ Specificity(fetched[i]) >= Specificity(fetched[best])

\* The two tests of the loop: there is no bestFilter yet, or row i has more keys.
IsBetter(fetched, best, i) ==
  best = 0 \/ Specificity(fetched[i]) > Specificity(fetched[best])

(***************************************************************************)
(* The loop over the matching filters, given by their places in the answer *)
(* and visited in that order.  bestFilter after place i is a place, and 0  *)
(* while it is nil.                                                        *)
(***************************************************************************)
BestFilter(fetched, matching) ==
  LET best[i \in 0 .. Len(fetched)] ==
        IF i = 0 THEN 0
        ELSE IF i \in matching /\ IsBetter(fetched, best[i - 1], i) THEN i ELSE best[i - 1]
  IN  best

\* The rows of a group that have filters and match the event.
MatchingRows(fetched, group, ev) ==
  {i \in group : HasFilters(fetched[i]) /\ IsMatchingEvent(fetched[i], ev)}

\* MatchingFilter: with a single row or with several, a row counts when it
\* has filters and the event matches them, else the default bucket is taken.
MatchingFilter(fetched, group, ev) ==
  LET matching == MatchingRows(fetched, group, ev)
  IN  IF matching = {} THEN ToDefaultFilter(fetched[Min(group)])
      ELSE fetched[BestFilter(fetched, matching)[Len(fetched)]]

\* fmt.Sprintf("%v") of a property, also when it is absent.
Printed(value) == IF value = Nil THEN "<nil>" ELSE Sprint[value]

\* Faulty variant: groups by the values as they came.
GroupByRawValues(filter, ev) == [k \in filter.groupKeys |-> ev[k]]

\* enrichWithPricingGroupKeys: the event's grouped_by.
enrichWithPricingGroupKeys(filter, ev) == [k \in filter.groupKeys |-> Printed(ev[k])]

\* enrichWithChargeInfo: the rows by charge, one filter for each charge.
ChargesOf(fetched) == {r.charge : r \in ToSet(fetched)}
RowsOf(fetched, c) == {i \in DOMAIN fetched : fetched[i].charge = c}
enrichWithChargeInfo(fetched, ev) ==
  [c \in ChargesOf(fetched) |-> MatchingFilter(fetched, RowsOf(fetched, c), ev)]

Init ==
  /\ event \in [Keys -> Properties \cup {Nil}]
  /\ rows = <<>>

\* FetchFlatFilters has no ORDER BY: any row may come next.
FetchRow(row) ==
  /\ Len(rows) < MaxRows
  /\ rows' = Append(rows, row)
  /\ UNCHANGED event

Next == \E row \in Rows : FetchRow(row)

Spec == Init /\ [][Next]_vars

\* Reference: among the rows of a charge, as a set, the filters every key of
\* which the event has with an accepted value; the best match on the most keys.
Matches(c) ==
  {r \in ToSet(rows) :
     /\ r.charge = c /\ DOMAIN r.filters # {}
     /\ \A k \in DOMAIN r.filters :
          event[k] \in Properties /\ \E v \in r.filters[k] : v = Sprint[event[k]]}

\* Each charge of the plan gets exactly one bucket: its default one when no
\* filter matches, otherwise a matching filter no other matching filter of
\* that charge is more specific than, in whatever order the rows came.
BucketIsMostSpecific ==
  \A c \in ChargesOf(rows) :
    LET bucket == enrichWithChargeInfo(rows, event)[c]
    IN  IF Matches(c) = {} THEN bucket.charge = c /\ bucket.filters = NoFilters
        ELSE /\ bucket \in Matches(c)
             /\ \A m \in Matches(c) : Specificity(m) <= Specificity(bucket)

\* An event that falls in a filter on a property and is grouped by that property
\* too is grouped under a value the filter lists, as the filter writes it: what
\* IsMatchingEvent compares is what enrichWithPricingGroupKeys stores, whatever
\* the JSON type the property was sent with.
GroupsAreFilterValues ==
  \A c \in ChargesOf(rows) :
    LET bucket == enrichWithChargeInfo(rows, event)[c]
        groups == enrichWithPricingGroupKeys(bucket, event)
    IN  \A k \in DOMAIN groups \cap DOMAIN bucket.filters : groups[k] \in bucket.filters[k]

\* A further row changes the bucket of its own charge only, and only to a
\* filter that matches strictly more properties.
RowsOnlyRefine ==
  [][\A c \in ChargesOf(rows) :
       LET old == enrichWithChargeInfo(rows, event)[c]
           new == enrichWithChargeInfo(rows', event)[c]
       IN  new # old => /\ Last(rows').charge = c
                        /\ Specificity(new) > Specificity(old)]_vars
=============================================================================
