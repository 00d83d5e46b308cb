--------------------------- MODULE MCFlatFilters ---------------------------
(* A model-checking instance of FlatFilters. *)
EXTENDS FlatFilters

\* Two JSON values (say 1 and "1") print the same, a third one differently.
JSONValues == {"number 1", "string 1", "string 2"}
PrintedAs == [v \in JSONValues |-> IF v = "string 2" THEN "2" ELSE "1"]

\* A charge or a filter is grouped by one of the keys, or not at all.
GroupedOrNot == {{}, {CHOOSE k \in Keys : TRUE}}
=============================================================================
