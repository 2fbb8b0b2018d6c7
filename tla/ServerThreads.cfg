SPECIFICATION Spec
CONSTANTS
  Net = {n1}
  NoNet = NoNet
  Threads = {t1, t2}
  UI = UI
  Nobody = Nobody
  NWindows = 2
  NThreads = 1
  MaxSessions = 2
  MaxHwnd = 2
SYMMETRY ThreadSymmetry
INVARIANTS
  TypeOK
  LiveSessionHasOneOwner
  NoDanglingWindow
  UiDerefSafe
  OneThreadPerEntry
  FreedOnce
CHECK_DEADLOCK FALSE
