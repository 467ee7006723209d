-------------------------- MODULE MCFleetTelemetry --------------------------
(* One robot, a network that keeps every report, and a controller.         *)
EXTENDS FleetTelemetry

CONSTANTS r1, held

InStep == [robot \in Robot |-> 0]

Decisions == {<<"waiting", held>>}

(* What a planner saw plays no part here.                                  *)
WithoutPlan == <<robots, version, now, telemetry, orders, heard, track>>
=============================================================================
