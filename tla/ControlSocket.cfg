SPECIFICATION FairSpec
CONSTANTS
  MaxServers = 3
  Proxies = {p1}
  NoSocket = NoSocket
INVARIANTS
  ClientsKept
  PathServed
PROPERTY
  IdleExits
CHECK_DEADLOCK FALSE
