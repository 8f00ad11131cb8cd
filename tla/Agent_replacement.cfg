SPECIFICATION FairSpec
CONSTANTS
  MaxAgents = 2
  NoAgent = NoAgent
INVARIANTS
  OneAgent
  ServingReachable
  RecoveryNotBlocked
  ExecStopped
PROPERTY
  Settles
CHECK_DEADLOCK FALSE
