CONSTANTS
  MaxOffset = 4
  MaxInt64 = 99
  Partitions = {p1}
  LogSize = 1
  MaxPoll = 1
SPECIFICATION FairSpec
PROPERTY ShutdownCompletes
