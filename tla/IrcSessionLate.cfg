SPECIFICATION Spec
CONSTANTS
  Users = {u1}
  Irc = Irc
  Nobody = Nobody
  BufSize = 5
  MaxTimeout = 4
  Grace = 2
  MaxStall = 3
  Dcc = FALSE
  MaxQueued = 6
  MaxServed = 2
INVARIANTS
  DropsOnlyAfterPing
CHECK_DEADLOCK FALSE
