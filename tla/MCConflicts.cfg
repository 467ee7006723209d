\* Three robots, a lane, a corridor for two, an intersection; three routes and grants at a time.
SPECIFICATION Spec
CONSTANTS
  A = A
  M = M
  B = B
  C = C
  X = X
  D = D
  north = north
  south = south
  e1 = e1
  e2 = e2
  w = w
  p = p
  q = q
  n = n
  s = s
  old = old
  lane = lane
  wide = wide
  crossing = crossing
  bay = bay
  across = across
  down = down
  up = up
  None = None
  NodeIds <- TheNodes
  EdgeIds <- TheEdges
  Robot = {1, 2, 3}
  Ends <- TheEnds
  EdgeResource <- TheEdgeResource
  NodeResource <- TheNodeResource
  Corridors <- TheCorridors
  Intersections <- TheIntersections
  MapCapacity <- TheCapacity
  EntryBuffer = 0
  ExitBuffer = 2
  AbsorbedLead = 2
  CriticalLead = 1
  Intents <- TheIntents
  Grants <- TheGrants
  Instants <- TheInstants
  Clock = {0, 2}
  MaxQuery = 3
INVARIANTS
  EveryContentionIsFound
  NoFalseAlarm
  ExclusionIsNamed
  OrderDecidesNothing
PROPERTIES
  MoreTrafficHidesNothing
