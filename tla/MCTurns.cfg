\* One place, three robots that keep asking for it.
SPECIFICATION BatchSpec
CONSTANTS
  place = place
  None = None
  Robot = {1, 2, 3}
  Resource = {place}
  ReservationId = {1, 2, 3, 4}
  Time <- Around
  Direction = {}
  Movement = {}
  Corridor = {}
  Intersection = {}
  MapCapacity <- ForOne
  ConflictGroups <- NoGroups
  Requests <- TheRequests
  NewEnds = {}
  Cutoffs = {3}
  EntryBuffer = 0
  ExitBuffer = 0
  Horizon = 1
  GrantTimeout = 2
  Priority <- ThePriorities
  TaskOf <- TheTasks
  AgingGain = 1
  AgingPeriod = 2
  PriorityCeiling = 1
  Past = 2
  Patience = 3
INVARIANTS
  BatchOrderIsTotal
PROPERTIES
  NobodyIsPassedBy
  AskersAreServed
  GrantsUsedOrReclaimed
