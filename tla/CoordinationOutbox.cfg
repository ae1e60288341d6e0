\* Once every revision is published and put away, nothing is left to do.
CHECK_DEADLOCK FALSE
SPECIFICATION Spec
CONSTANTS
  Instances = {p, q}
  MaxEvents = 3
  BatchSize = 2
  MaxFaults = 2
INVARIANTS
  TypeOK
  RepeatedOnlyIfDisturbed
  BatchesApartUnlessDisturbed
PROPERTIES
  DeliversEvents
