\* A floor, and a map with a lane that outruns the speed limit.
SPECIFICATION FleetSpec
CONSTANTS
  r1 = r1
  r2 = r2
  aisle = aisle
  None = None
  Robot = {r1, r2}
  Resource = {aisle}
  NodeId = {1, 2, 3, 4, 5}
  EdgeId = {1, 2, 3, 4, 5, 6, 7}
  DistanceWeight = 1
  TimeWeight = 1
  PreferredFactor = 2
  FactorUnit = 2
  Planners <- ShortcutPlanners
  Batches <- FloorBatches
  Closures <- FloorClosures
  Surcharges <- FloorSurcharges
  Time = {0, 1, 2}
  MinimumHold = 1
  MinimumImprovement = 1
  Hundred = 10
  MaxRoutes = 2
INVARIANTS
  AnswersAreCheapest
