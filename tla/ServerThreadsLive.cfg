\* Two networks, one place for a window: a network that finds none gives up.
SPECIFICATION FairSpec
CONSTANTS
  Net = {n1, n2}
  NoNet = NoNet
  Threads = {t1}
  UI = UI
  Nobody = Nobody
  NWindows = 1
  NThreads = 2
  MaxSessions = 2
  MaxHwnd = 1
PROPERTIES
  EndingSessionDestroyed
  ClosedNetworksSettle
CHECK_DEADLOCK FALSE
