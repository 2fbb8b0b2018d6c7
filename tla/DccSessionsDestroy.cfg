SPECIFICATION Spec
CONSTANTS
  Dccs = {1, 2}
  MaxLines = 1
  PeerWaits = TRUE
INVARIANTS
  DestroyLeavesSelect
CHECK_DEADLOCK FALSE
