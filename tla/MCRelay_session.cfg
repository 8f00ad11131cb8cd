SPECIFICATION FairSpec
CONSTANTS
  start = start
  list = list
  hostCall = hostCall
  small = small
  medium = medium
  other = other
  Requests = {start, list, hostCall}
  Method <- MCMethod
  Bytes <- MCBytes
  MaxPendingClientBytes = 2
  MaxStatusAttempts = 2
  Paths = {small, medium}
  FileBytes <- MCFileBytes
  MaxSources = 2
  MaxSourceBytes = 2
  MaxTotalBytes = 2
  MaxListed = 3
  OtherThreads = {other}
  ServerRequestIds = {}
  None = None
INVARIANTS
  HeldInOrder
  StartedOnce
  QueueBounded
  InstructionsInjected
  OwnThreads
PROPERTIES
  ImplementsGatedForwarder
  RequestsForwarded
  StartsReachServer
CHECK_DEADLOCK FALSE
