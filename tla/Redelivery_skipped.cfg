CONSTANTS
  Partitions = {p1}
  LogSize = 3
  MaxPoll = 3
SPECIFICATION RedeliverySpec
INVARIANT UnprocessedIsNotCommitted
