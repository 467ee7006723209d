\* A corridor without a stated capacity; its manager restarts from what was saved.
SPECIFICATION RecoverySpec
VIEW SavedView
CONSTANTS
  r1 = r1
  r2 = r2
  r3 = r3
  corridor = corridor
  junction = junction
  fwd = fwd
  rev = rev
  north = north
  east = east
  None = None
  Robot = {r1, r2}
  Resource = {corridor}
  ReservationId = {1, 2}
  Time <- ShortInstants
  Direction = {fwd, rev}
  Movement = {}
  Corridor = {corridor}
  Intersection = {}
  MapCapacity <- NoneKnown
  ConflictGroups <- NoGroups
  Requests <- RestartRequests
  NewEnds = {2}
  Cutoffs = {2}
  EntryBuffer = 0
  ExitBuffer = 0
  Horizon = 1
  GrantTimeout = 2
INVARIANTS
  RestartLosesNothing
PROPERTIES
  ImplementsLedger
