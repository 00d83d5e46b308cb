CONSTANTS
  Charges = {c1, c2}
  Keys = {k1, k2}
  Values = {"1"}
  Properties <- JSONValues
  Sprint <- PrintedAs
  Nil = Nil
  GroupKeys <- GroupedOrNot
  MaxRows = 3
SPECIFICATION Spec
CHECK_DEADLOCK FALSE
INVARIANTS
  BucketIsMostSpecific
  GroupsAreFilterValues
PROPERTY RowsOnlyRefine
