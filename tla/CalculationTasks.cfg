SPECIFICATION Spec
CONSTANTS
  a1 = a1  f1 = f1  f2 = f2  g2 = g2  s1 = s1  s2 = s2  rows = rows
  Inputs = {a1}
  Formulas = {f1, f2, g2}
  View = rows
  Reads <- MCReads
  SheetOf <- MCSheetOf
  MaxChanges = 2
  MaxCommands = 2
  MaxFaults = 1
INVARIANTS
  TypeOK
  StaleIsDirtyUnlessAlone
  WorkerInStep
PROPERTIES
  EditsReachFormulas
CHECK_DEADLOCK FALSE
