CONSTANTS
  Millisecond = 8
  Second = 24
  Ulp = 3
  ProductUlp = 4
  Boundaries <- MCBoundaries
  EventInstants <- MCInstants
  MaxSubscriptions = 3
SPECIFICATION Spec
CHECK_DEADLOCK FALSE
INVARIANTS
  ChargedToItsSubscription
  UpgradeIsSeamless
  TimesAreClose
  ReplaysKeepIngestedAt
PROPERTY PastIsStable
