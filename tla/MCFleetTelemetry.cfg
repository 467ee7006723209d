\* One robot, three reports at three instants, two commands, a wait or a stall.
SPECIFICATION FleetSpec
CONSTANTS
  r1 = r1
  None = None
  held = held
  Robot = {r1}
  Command = {1, 2}
  Route = {1}
  Task = {}
  Time = {0, 1, 2}
  Position = {1, 5}
  Hold = {held}
  MinimumProgress = 2
  MaxVersion = 5
  Skew <- InStep
  MaxReports = 3
  MaxAge = 1
  Reported = {"moving", "waiting"}
  Assigned <- Decisions
  StopTimeout = 1
  BlockedTimeout = 2
INVARIANTS
  TypeOK
  ReasonIffWaiting
  PlansGoStale
  AcknowledgedIsHeard
  StallsAreFound
PROPERTIES
  PictureMovesForward
