CONSTANTS
  Partitions = {p1}
  Partition = p1
  LogSize = 2
  MaxPoll = 1
  Charges = {c1}
  Events <- BothSources
  Healthy = TRUE
  Signals = FALSE
SPECIFICATION PipelineFairSpec
INVARIANT HealthyCommitsAreProcessed
PROPERTY StableGroupCatchesUp
