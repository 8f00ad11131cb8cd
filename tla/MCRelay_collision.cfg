SPECIFICATION Spec
CONSTANTS
  start = start
  list = list
  hostCall = hostCall
  small = small
  medium = medium
  other = other
  Requests = {start, list}
  Method <- MCMethod
  Bytes <- MCBytes
  MaxPendingClientBytes = 2
  MaxStatusAttempts = 2
  Paths = {small}
  FileBytes <- MCFileBytes
  MaxSources = 2
  MaxSourceBytes = 2
  MaxTotalBytes = 2
  MaxListed = 2
  OtherThreads = {other}
  ServerRequestIds = {list}
  None = None
INVARIANT
  OnlyOwnThreadsListed
CHECK_DEADLOCK FALSE
