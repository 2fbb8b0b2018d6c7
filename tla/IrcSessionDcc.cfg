SPECIFICATION Spec
CONSTANTS
  Users = {u1}
  Irc = Irc
  Nobody = Nobody
  BufSize = 5
  MaxTimeout = 4
  Grace = 2
  MaxStall = 1
  Dcc = TRUE
  MaxQueued = 6
  MaxServed = 2
PROPERTIES
  NoPongDisconnects
CHECK_DEADLOCK FALSE
