SPECIFICATION Spec
CONSTANTS
  alice = alice
  bob = bob
  a1 = a1
  a2 = a2
  a3 = a3
  b1 = b1
  b2 = b2
  tab = tab
  Actors = {alice, bob}
  RoleOf <- MCRoleOf
  OperationIds = {a1, a2, a3, b1, b2}
  Sessions = {tab}
  Values = {0, 1}
  Requests <- MCRequests
  NoOperation = NoOperation
  SystemActor = SystemActor
  SystemSession = SystemSession
  RedisEnabled = TRUE
  CheckpointLimit = 3
  MaxRevision = 4
INVARIANTS
  TypeOK
  ContiguousHistory
  CommittedOnce
  NoUnseenOverwrite
  RevisionsReadable
  BoundedReplay
  RepliesDurable
  OutboxComplete
PROPERTIES
  ImplementsCommitService
