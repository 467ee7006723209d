\* A claim the robot is committed to, and a sweep.
SPECIFICATION TimerSpec
VIEW LiveView
CONSTANTS
  r1 = r1
  r2 = r2
  r3 = r3
  corridor = corridor
  junction = junction
  fwd = fwd
  rev = rev
  north = north
  east = east
  None = None
  Robot = {r1, r2}
  Resource = {corridor}
  ReservationId = {1, 2}
  Time <- Instants
  Direction = {}
  Movement = {}
  Corridor = {}
  Intersection = {}
  MapCapacity <- NarrowCapacity
  ConflictGroups <- NoGroups
  Requests <- PatientRequests
  NewEnds = {3}
  Cutoffs = {2}
  EntryBuffer = 0
  ExitBuffer = 0
  Horizon = 1
  GrantTimeout = 1
PROPERTIES
  CommittedClaimsStand
