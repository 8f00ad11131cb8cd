SPECIFICATION FairSpec
INVARIANTS
  ChildrenStopped
PROPERTIES
  Teardown
CHECK_DEADLOCK FALSE
