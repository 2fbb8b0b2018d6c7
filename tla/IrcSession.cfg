SPECIFICATION Spec
CONSTANTS
  Users = {u1}
  Irc = Irc
  Nobody = Nobody
  BufSize = 5
  MaxTimeout = 1
  Grace = 1
  MaxStall = 1
  Dcc = FALSE
  MaxQueued = 6
  MaxServed = 4
INVARIANTS
  TypeOK
PROPERTIES
  LinesLeaveInOrder
  LinesArriveInOrder
CHECK_DEADLOCK FALSE
