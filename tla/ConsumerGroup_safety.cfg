CONSTANTS
  MaxOffset = 4
  MaxInt64 = 99
  Partitions = {p1, p2}
  LogSize = 2
  MaxPoll = 3
SPECIFICATION Spec
SYMMETRY Symmetry
INVARIANTS
  TypeOK
  NoUnattemptedCommit
  RevokedIsQuiescent
  LostFindsConsumer
  SafetyInv
  LoopsAgree
PROPERTIES
  CommitCoversHandled
  CommittedNeverMovesBack
  MapStableDuringDispatch
  ImplementsAtLeastOnce
