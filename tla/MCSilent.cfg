\* The fleet of MCFleetTelemetry and a robot nobody hears from.
SPECIFICATION FleetSpec
VIEW WithoutPlan
CONSTANTS
  r1 = r1
  None = None
  held = held
  Robot = {r1}
  Command = {1, 2}
  Route = {}
  Task = {}
  Time = {0, 1, 2}
  Position = {0}
  Hold = {held}
  MinimumProgress = 1
  MaxVersion = 6
  Skew <- InStep
  MaxReports = 3
  MaxAge = 1
  Reported = {None, "moving"}
  Assigned <- Decisions
  StopTimeout = 1
  BlockedTimeout = 2
INVARIANTS
  SilentRobotsAreStale
