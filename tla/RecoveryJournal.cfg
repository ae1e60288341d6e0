SPECIFICATION Spec
CONSTANTS
  PageCount = 2
  Restarting = {1}
  MaxDrafts = 2
  MaxFaults = 1
INVARIANTS
  TypeOK
  SentWasDurable
  NoDraftLost
  PurgedReturnsCommitted
  LoadableUnlessRestarted
  ReplayedOnce
  SequenceFreshUnlessRestarted
CHECK_DEADLOCK FALSE
PROPERTIES
  CheckpointsCatchUp
