CONSTANTS
  Records = {r1}
  Charges = {c1}
  Events <- AllEvents
  MaxCrashes = 1
SPECIFICATION FairSpec
CHECK_DEADLOCK FALSE
INVARIANTS
  TypeOK
  NoStragglers
  ProcessedIsAccountedFor
  CommittedUsageIsFlagged
  
PROPERTIES
  BatchReturns
  RetriesEnd
