SPECIFICATION SnapshotsSpec
CONSTANTS
  alice = alice
  bob = bob
  a1 = a1
  a2 = a2
  a3 = a3
  b1 = b1
  b2 = b2
  tab = tab
  Actors = {alice, bob}
  RoleOf <- MCRoleOf
  OperationIds = {a1, a2, a3, b1, b2}
  Sessions = {tab}
  Values <- MCValues
  Requests <- MCRequests
  NoOperation = NoOperation
  SystemActor = SystemActor
  SystemSession = SystemSession
  RedisEnabled = FALSE
  CheckpointLimit = 3
  MaxRevision = 4
  InitialDocuments <- ImportedDocuments
  MaxRows = 5
INVARIANT
  StructuralEditsReversible
