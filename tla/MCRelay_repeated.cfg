SPECIFICATION Spec
CONSTANTS
  start = start
  list = list
  hostCall = hostCall
  small = small
  medium = medium
  other = other
  Requests = {start}
  Method <- MCMethod
  Bytes <- MCBytes
  MaxPendingClientBytes = 2
  MaxStatusAttempts = 2
  Paths = {small}
  FileBytes <- MCFileBytes
  MaxSources = 3
  MaxSourceBytes = 2
  MaxTotalBytes = 2
  MaxListed = 3
  OtherThreads = {other}
  ServerRequestIds = {}
  None = None
INVARIANT
  WithinTotal
CHECK_DEADLOCK FALSE
