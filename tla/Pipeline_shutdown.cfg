CONSTANTS
  Partitions = {p1}
  Partition = p1
  LogSize = 1
  MaxPoll = 1
  Charges = {c1}
  Events <- PlainEvents
  Healthy = TRUE
  Signals = TRUE
SPECIFICATION PipelineSpec
INVARIANT ShutdownIsGraceful
