SPECIFICATION Spec
CONSTANTS
  Dccs = {1, 2}
  MaxLines = 1
  PeerWaits = FALSE
INVARIANTS
  CallbackSet
CHECK_DEADLOCK FALSE
