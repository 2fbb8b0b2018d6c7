SPECIFICATION FairSpec
CONSTANTS
  Users = {u1}
  Irc = Irc
  Nobody = Nobody
  BufSize = 3
  MaxTimeout = 2
  Grace = 2
  MaxStall = 1
  Dcc = FALSE
  MaxQueued = 4
  MaxServed = 2
INVARIANTS
  DropsOnlyAfterPing
PROPERTIES
  NoPongDisconnects
  SilentServerNoticed
  ClosedSessionReturns
  SendRawReturns
CHECK_DEADLOCK FALSE
