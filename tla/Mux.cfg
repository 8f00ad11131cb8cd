SPECIFICATION FairSpec
CONSTANTS
  AppChannels = {app}
  BridgeChannels = {exec}
  Lasting = {exec}
  Capacity = 1
  MaxStreams = 1
INVARIANTS
  WakesKept
  QueuesExact
PROPERTIES
  ImplementsChannelService
  OpensReturn
  WorkIsDone
  AllEnd
CHECK_DEADLOCK FALSE
