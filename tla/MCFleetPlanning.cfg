\* One floor, three planners on it, single requests and batches, replans.
SPECIFICATION FairFleetSpec
CONSTANTS
  r1 = r1
  r2 = r2
  aisle = aisle
  None = None
  Robot = {r1, r2}
  Resource = {aisle}
  NodeId = {1, 2, 3, 4, 5}
  EdgeId = {1, 2, 3, 4, 5, 6, 7}
  DistanceWeight = 1
  TimeWeight = 1
  PreferredFactor = 1
  FactorUnit = 2
  Planners <- FloorPlanners
  Batches <- FloorBatches
  Closures <- FloorClosures
  Surcharges <- FloorSurcharges
  Time = {0, 1, 2}
  MinimumHold = 1
  MinimumImprovement = 1
  Hundred = 10
  MaxRoutes = 2
INVARIANTS
  RoutesAreDrivable
  AnswersAreBest
  EdgeOrderIsIrrelevant
  BatchAnswersEveryRobot
PROPERTIES
  RouteChangesAreJustified
  BatchesEnd
