SPECIFICATION FairSpec
CONSTANTS
  Dccs = {1, 2}
  MaxLines = 1
  PeerWaits = TRUE
INVARIANTS
  TypeOK
  FreedOnce
  HeldSessionsLive
PROPERTIES
  ErrorIsLast
  CallsReturn
  RemovedIsFreed
CHECK_DEADLOCK FALSE
