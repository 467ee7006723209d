\* A corridor and a junction for two robots each, three robots, three ids.
SPECIFICATION Spec
VIEW LiveView
CONSTANTS
  r1 = r1
  r2 = r2
  r3 = r3
  corridor = corridor
  junction = junction
  fwd = fwd
  rev = rev
  north = north
  east = east
  None = None
  Robot = {r1, r2, r3}
  Resource = {corridor, junction}
  ReservationId = {1, 2, 3}
  Time <- Instants
  Direction = {fwd, rev}
  Movement = {north, east}
  Corridor = {corridor}
  Intersection = {junction}
  MapCapacity <- FloorCapacity
  ConflictGroups <- FloorGroups
  Requests <- FloorRequests
  NewEnds = {3}
  Cutoffs = {2}
  EntryBuffer = 0
  ExitBuffer = 0
  Horizon = 1
  GrantTimeout = 1
INVARIANTS
  TypeOK
  IndexAgrees
  CountAgrees
  CapacityRespected
  ExclusionRespected
  WaitsNameOthers
PROPERTIES
  GrantsNotTakenBack
  ClaimsOnlyGrow
