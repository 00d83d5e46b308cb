CONSTANTS
  MaxOffset = 4
  MaxInt64 = 99
  Partitions = {p1, p2}
  LogSize = 2
  MaxPoll = 1
SPECIFICATION ResumedFairSpec
PROPERTIES
  LostReturns
  FetchesAreHandedOver
  ShutdownEnds
