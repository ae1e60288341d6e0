\* The bounds on operations let the system stop.
CHECK_DEADLOCK FALSE
SPECIFICATION Spec
CONSTANTS
  Start <- StartRows
  MaxRows = 3
  MaxEdits = 4
  MaxRemote = 1
  HistoryLimit = 2
INVARIANTS
  TypeOK
  ConvergesUnlessCrossed
  LandsWhereAimed
  HistoryInPlaceUnlessDisplaced
  UndoneOnce
  HistoryKnowsItsOperations
  LatestUndoAccepted
