------------------------ MODULE DocumentedStateRules ------------------------
(***************************************************************************)
(* What stale_robots() is documented to say, and does not.                 *)
(***************************************************************************)
EXTENDS FleetTelemetry

(* "Robots whose last observation is older than max_age" (stale_robots):   *)
(* a robot nothing has been heard from for longer is one of them, whatever *)
(* was decided about it meanwhile.                                         *)
SilentRobotsAreStale ==
  \A robot \in Registered :
    now - MeasuredAt(robot) > MaxAge => robot \in StaleRobots
=============================================================================
