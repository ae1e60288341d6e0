\* Once every operation is issued and every connection used, the page is at rest.
CHECK_DEADLOCK FALSE
SPECIFICATION Spec
CONSTANTS
  write = write
  beside = beside
  same = same
  a = a
  b = b
  OwnOperations = {write, beside}
  OtherOperations = {same}
  Cells = {a, b}
  Touches <- MCTouches
  MaxConnections = 2
INVARIANT DraftConflictDetected
