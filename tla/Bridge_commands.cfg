SPECIFICATION FairSpec
CONSTANTS
  MaxBridges = 2
  Threads = {t1, t2}
  NoProcess = NoProcess
  NoScope = NoScope
INVARIANTS
  OneBridge
  DownStops
  StatusHonest
  ServingReachable
  ScopeKept
PROPERTIES
  Reconnects
  ImplementsProfileBridge
CHECK_DEADLOCK FALSE
