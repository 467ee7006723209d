----------------------- MODULE DocumentedPlanningRules -----------------------
(***************************************************************************)
(* What the heuristic is documented to guarantee, and does not.            *)
(***************************************************************************)
EXTENDS FleetPlanning

(* The scaled straight line "can therefore never exceed the true remaining *)
(* cost" (min_cost_per_metre, make_admissible_heuristic): where no edge is *)
(* shorter than the line between its ends, the planner's answer is a       *)
(* cheapest one, whatever travel times the map states.                     *)
AnswersAreCheapest ==
  answer # None /\ answer.failure = None /\ GeometrySupportsHeuristic(Map) =>
    \A walk \in Walks(request.start, request.constraints) :
      walk.end = request.goal => answer.cost <= walk.cost
=============================================================================
