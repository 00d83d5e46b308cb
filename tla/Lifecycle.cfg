CONSTANTS
  Partitions = {p1}
  LogSize = 1
  MaxSignals = 2
SPECIFICATION FairSpec
CHECK_DEADLOCK FALSE
INVARIANTS
  TypeOK
  BatchesHaveTheirStores
  OnlyProducersStayOpen
  ReportsPrecedeFlush
PROPERTY SignalEndsProcess
