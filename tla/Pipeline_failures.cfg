CONSTANTS
  Partitions = {p1}
  Partition = p1
  LogSize = 3
  MaxPoll = 2
  Charges = {}
  Events <- PlainEvents
  Healthy = FALSE
  Signals = FALSE
SPECIFICATION PipelineSpec
INVARIANT NothingLostSilently
