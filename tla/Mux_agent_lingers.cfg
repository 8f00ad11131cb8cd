SPECIFICATION FairSpec
CONSTANTS
  AppChannels = {app}
  BridgeChannels = {exec}
  Lasting = {exec}
  Capacity = 1
  MaxStreams = 1
PROPERTY LossNoticed
CHECK_DEADLOCK FALSE
