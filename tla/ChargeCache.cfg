CONSTANTS
  Slots = {e1, e2}
  Readers = {a1, a2}
  Expiration = 3
  Lag = 2
  NoEntry = NoEntry
SPECIFICATION FairSpec
PROPERTIES ReadsCountTheEvent QuietCacheCatchesUp
