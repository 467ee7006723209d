---------------------------- MODULE FleetPlanning ----------------------------
(***************************************************************************)
(* A planner at work: batches of requests through SequentialFleetPlanner,  *)
(* and replans of single robots through AStarPlanner::replan_route, one    *)
(* call at a time.  The controller that asks, adopts what it is given and  *)
(* watches the robots drive is not in src/; between two calls traffic may  *)
(* change, robots may drive on, and time passes at any moment.             *)
(***************************************************************************)
EXTENDS AStarSearch

CONSTANTS
  Batches,     \* the PlanningRequests that may be submitted
  Closures,    \* the constraints a replan may come with
  Surcharges,  \* the traffic conditions there may be
  Time,
  MinimumHold,                  \* RouteStabilityPolicy::minimum_hold_time
  MinimumImprovement, Hundred,  \* minimum_improvement, as a fraction
  MaxRoutes                     \* bound on the routes ever planned

(* make_stability_policy.                                                  *)
ASSUME StabilityAssumption ==
  /\ {MinimumHold, Hundred} \subseteq Nat
  /\ MinimumImprovement \in 0..Hundred - 1

PlanningRequest ==
  [routes   : Seq(RouteRequest),
   deadline : Int \cup {None},
   timeout  : Int \cup {None}]

(* PlanningStatus; nothing here abandons a batch.                          *)
BatchStatus == {"success", "no_path", "failed", "timeout"}

(* Congestion and waiting only ever add to a cost (ITrafficConditions:     *)
(* "0 when empty, 1 when full", "Never negative").                         *)
ASSUME CallAssumption ==
  /\ None \notin BatchStatus
  /\ \A b \in Batches : b \in PlanningRequest
  /\ Closures \subseteq Constraints
  /\ \A traffic \in Surcharges :
       traffic \in [DOMAIN traffic -> Nat]
  /\ Time \subseteq Int

VARIABLES
  now,         \* the clock
  batch,       \* the PlanningRequest at work and when it began, or None
  outcomes,    \* PlanningResult::outcomes so far
  status,      \* PlanningResult::status, or None while the batch is at work
  replanning,  \* the robot replan_route works for, or None
  in_force,    \* the route each robot drives, or None
  place        \* the node each robot is at

fleetVars ==
  <<searchVars, now, batch, outcomes, status, replanning, in_force, place>>
controlVars == <<in_force, place>>

Idle == request = None /\ batch = None /\ replanning = None

(* Slip: the timeout runs from the start of the timeline.                  *)
OutOfTimeSinceZero ==
  \/ batch.deadline # None /\ now >= batch.deadline
  \/ batch.timeout # None /\ now >= batch.timeout

(* out_of_time.                                                            *)
OutOfTime ==
  \/ batch.deadline # None /\ now >= batch.deadline
  \/ batch.timeout # None /\ now - batch.began >= batch.timeout

Retryable == {"blocked_start", "blocked_goal", "no_route"}

(* status_for.                                                             *)
StatusFor(all) ==
  LET failures == {outcome.failure : outcome \in
                     {o \in Seqs!ToSet(all) : o.route = None}}
  IN  IF failures = {} THEN "success"
      ELSE IF failures \subseteq Retryable \cup {None} THEN "no_path"
      ELSE "failed"

Skipped(order) == [robot |-> order.robot, route |-> None, failure |-> None]
-----------------------------------------------------------------------------
Submit(b) ==
  /\ Idle /\ route_sequence + Len(b.routes) <= MaxRoutes
  /\ batch' = [routes |-> b.routes, deadline |-> b.deadline,
               timeout |-> b.timeout, began |-> now]
  /\ outcomes' = << >> /\ status' = None
  /\ UNCHANGED <<searchVars, now, replanning, controlVars>>

Working == batch # None /\ status = None /\ request = None

(* The planner reads the clock itself when it is called, now or later.     *)
CallPlanner(req) ==
  \E at \in {now} \cup {t \in Time : t > now} : PlanRoute(req, at) /\ now' = at

(* The next robot of the batch; every instant comes with its request.      *)
PlanNext ==
  /\ Working /\ Len(outcomes) < Len(batch.routes) /\ ~OutOfTime
  /\ CallPlanner(batch.routes[Len(outcomes) + 1])
  /\ UNCHANGED <<batch, outcomes, status, replanning, controlVars>>

RecordOutcome ==
  /\ batch # None /\ Return
  /\ outcomes' = Append(outcomes, [robot   |-> request.robot,
                                   route   |-> answer.route,
                                   failure |-> answer.failure])
  /\ UNCHANGED <<now, batch, status, replanning, controlVars>>

(* The rest of the batch is skipped, what is planned stays.                *)
GiveUp ==
  /\ Working /\ Len(outcomes) < Len(batch.routes) /\ OutOfTime
  /\ outcomes' = [i \in DOMAIN batch.routes |->
                    IF i \in DOMAIN outcomes THEN outcomes[i]
                    ELSE Skipped(batch.routes[i])]
  /\ status' = "timeout"
  /\ UNCHANGED <<searchVars, now, batch, replanning, controlVars>>

Finish ==
  /\ Working /\ Len(outcomes) = Len(batch.routes)
  /\ status' = StatusFor(outcomes)
  /\ UNCHANGED <<searchVars, now, batch, outcomes, replanning, controlVars>>

(* The controller adopts the routes; the robots are where they asked from. *)
Adopt ==
  /\ status # None
  /\ LET planned == {outcome \in Seqs!ToSet(outcomes) : outcome.route # None}
     IN  \E chosen \in [{outcome.robot : outcome \in planned} -> planned] :
           /\ \A robot \in DOMAIN chosen : chosen[robot].robot = robot
           /\ in_force' = [robot \in Robot |->
                IF robot \in DOMAIN chosen THEN chosen[robot].route
                ELSE in_force[robot]]
           /\ place' = [robot \in Robot |->
                IF robot \in DOMAIN chosen THEN chosen[robot].route.nodes[1]
                ELSE place[robot]]
  /\ batch' = None /\ outcomes' = << >> /\ status' = None
  /\ UNCHANGED <<searchVars, now, replanning>>

Drive(robot) ==
  /\ Idle /\ in_force[robot] # None
  /\ \E i \in DOMAIN in_force[robot].edges :
       /\ in_force[robot].nodes[i] = place[robot]
       /\ place' = [place EXCEPT ![robot] = in_force[robot].nodes[i + 1]]
  /\ UNCHANGED <<searchVars, now, batch, outcomes, status, replanning, in_force>>

TrafficChanges ==
  /\ Idle
  /\ surcharge' \in Surcharges \ {surcharge}
  /\ UNCHANGED <<planner, request, called_at, frontier, route_sequence, answer>>
  /\ UNCHANGED <<now, batch, outcomes, status, replanning, controlVars>>

(* Nothing reads the clock while a search is under way.                    *)
Tick ==
  /\ ~Searching /\ now + 1 \in Time
  /\ now' = now + 1
  /\ UNCHANGED <<searchVars, batch, outcomes, status, replanning, controlVars>>
-----------------------------------------------------------------------------
(* replan_route, from where the robot is to where it was going: a search   *)
(* for an alternative, and a decision.                                     *)
Replan(robot, constraints) ==
  /\ Idle /\ route_sequence < MaxRoutes
  /\ in_force[robot] # None
  /\ CallPlanner([robot        |-> robot,
                  start        |-> place[robot],
                  goal         |-> Seqs!Last(in_force[robot].nodes),
                  current_time |-> now,
                  constraints  |-> constraints])
  /\ replanning' = robot
  /\ UNCHANGED <<batch, outcomes, status, controlVars>>

CostOf(route) == RouteCost(Map, route.edges, request.constraints, surcharge)

(* route_age, at the time of the request.                                  *)
Age(route) ==
  IF request.current_time <= route.created_at THEN 0
  ELSE request.current_time - route.created_at

(* Slip: an alternative has to be better, whatever became of the route.    *)
DecideReplanOnCost(current, candidate) ==
  IF Age(current) < MinimumHold THEN "kept_within_hold_time"
  ELSE IF candidate.cost * Hundred < CostOf(current) * (Hundred - MinimumImprovement)
  THEN "adopted_improved"
  ELSE "kept_insufficient_improvement"

(* decide_replan.                                                          *)
DecideReplan(current, candidate) ==
  IF ~RouteIsValid(Map, current, request.constraints) THEN "adopted_current_invalid"
  ELSE IF Age(current) < MinimumHold THEN "kept_within_hold_time"
  ELSE IF candidate.cost * Hundred < CostOf(current) * (Hundred - MinimumImprovement)
  THEN "adopted_improved"
  ELSE "kept_insufficient_improvement"

(* No alternative is the caller's problem; otherwise the route that is in  *)
(* force afterwards is given back.                                         *)
Decide ==
  /\ replanning # None /\ Return
  /\ LET current == in_force[replanning]
         adopted == /\ answer.failure = None
                    /\ DecideReplan(current, answer) \in
                         {"adopted_current_invalid", "adopted_improved"}
     IN  in_force' = [in_force EXCEPT ![replanning] =
                        IF adopted THEN answer.route ELSE current]
  /\ replanning' = None
  /\ UNCHANGED <<now, batch, outcomes, status, place>>
-----------------------------------------------------------------------------
FleetInit ==
  /\ planner \in Planners /\ surcharge \in Surcharges
  /\ request = None /\ called_at = 0 /\ answer = None /\ route_sequence = 0
  /\ best_cost = Nothing /\ came_from = Nothing /\ settled = << >> /\ open = {}
  /\ now = 0
  /\ batch = None /\ outcomes = << >> /\ status = None /\ replanning = None
  /\ in_force = [robot \in Robot |-> None]
  /\ place = [robot \in Robot |-> None]

(* What goes on inside plan_route while others only watch.                 *)
SearchOn ==
  Search /\ UNCHANGED <<now, batch, outcomes, status, replanning, controlVars>>

(* The calls of the planner run to their end.                              *)
Plan == PlanNext \/ SearchOn \/ RecordOutcome \/ GiveUp \/ Finish \/ Decide

FleetNext ==
  \/ Plan
  \/ \E b \in Batches : Submit(b)
  \/ Adopt
  \/ \E robot \in Robot :
       \/ Drive(robot)
       \/ \E constraints \in Closures : Replan(robot, constraints)
  \/ TrafficChanges
  \/ Tick

FleetSpec == FleetInit /\ [][FleetNext]_fleetVars
FairFleetSpec == FleetSpec /\ WF_fleetVars(Plan)
-----------------------------------------------------------------------------
(* Correctness.                                                            *)

(* Where the allowed walks of at most as many edges as the map has nodes   *)
(* end, and what they cost.                                                *)
Walks(start, constraints) ==
  LET walks[k \in 0..Cardinality(NodesOf(Map))] ==
        IF k = 0 THEN {[end |-> start, cost |-> 0]}
        ELSE LET shorter == walks[k - 1]
             IN  shorter \cup
                   {[end  |-> step[3],
                     cost |-> step[1].cost
                                + EdgeCost(Map, step[2], constraints, surcharge)] :
                      step \in {s \in shorter \X EdgesOf(Map)
                                      \X (NodesOf(Map) \ constraints.nodes) :
                                SegmentIsValid(Map, constraints, s[2], s[1].end, s[3])}}
  IN  walks[Cardinality(NodesOf(Map))]

(* A route that is answered can be driven under its constraints, leads     *)
(* from start to goal, takes its edges one after the other without a gap,  *)
(* and costs what estimate_route_cost says ("It only ever returns drivable *)
(* routes").                                                               *)
RoutesAreDrivable ==
  answer # None /\ answer.failure = None =>
    LET route == answer.route
    IN  /\ RouteIsValid(Map, route, request.constraints)
        /\ route.nodes[1] = request.start /\ Seqs!Last(route.nodes) = request.goal
        /\ answer.cost = CostOf(route)
        /\ \A i \in DOMAIN route.windows :
             /\ route.windows[i].start < route.windows[i].end
             /\ route.windows[i].start = IF i = 1 THEN request.current_time
                                         ELSE route.windows[i - 1].end

(* No edge is said to take less time than the fastest lane would (nothing  *)
(* in the code asks this).                                                 *)
NoneOutrunsTheLimit(map) ==
  \A id \in EdgesOf(map) :
    TravelTime(map.edge[id]) >= map.edge[id].length * LeastPace(map)

(* No edge is said to take less than no time (nor does anything ask this). *)
NoneTakesNegativeTime(map) ==
  \A id \in EdgesOf(map) : TravelTime(map.edge[id]) >= 0

(* No allowed way is cheaper than the answer: with the zero heuristic      *)
(* where no edge takes less than no time, with straight lines where none   *)
(* is shorter than its line or faster than the fastest lane. On any map    *)
(* the answer is what some way costs, "no route" means there is none, and  *)
(* the cap turns nothing down while it leaves a node to look at.           *)
AnswersAreBest ==
  answer # None /\ Refusal(request) = None =>
    LET walks == Walks(request.start, request.constraints)
        costs == {walk.cost : walk \in {w \in walks : w.end = request.goal}}
        reached == {walk.end : walk \in walks}
    IN  /\ answer.failure = None => answer.cost \in costs
        /\ /\ answer.failure = None
           /\ \/ planner.heuristic = "dijkstra" /\ NoneTakesNegativeTime(Map)
              \/ GeometrySupportsHeuristic(Map) /\ NoneOutrunsTheLimit(Map)
           => \A cost \in costs : answer.cost <= cost
        /\ answer.failure = "no_route" => costs = {}
        /\ answer.failure = "search_limit_reached" =>
             planner.max_expansions \in 1..Cardinality(reached)

(* The part of a frontier that decides: an entry that is not the best way  *)
(* to its node comes up after the one that is, and is dropped.             *)
Decisive(fronts) ==
  {[f EXCEPT !.open = {c \in @ : c.g = f.best_cost[c.node]}] : f \in fronts}

(* "The same input gives the same route": in whatever order the edges of a *)
(* node are looked at, the frontier comes out the same, parallel and       *)
(* equally good edges included.                                            *)
EdgeOrderIsIrrelevant ==
  \A current \in open :
    Searching /\ IsNext(current) /\ ~IsSettled(current.node) =>
      LET edges == TraversableEdges(Map, current.node)
          popped == [Frontier EXCEPT !.open = @ \ {current}]
      IN  \A order \in Seqs!SetToSeqs(Seqs!ToSet(edges)) :
            Decisive(Expanded(popped, current, order))
              = Decisive(Expanded(popped, current, edges))

(* A batch ends with one outcome for each robot, in the order asked: a     *)
(* route, a failure, or nothing for those at the end its time did not last *)
(* for, counted from when the batch began.  One robot that cannot be       *)
(* routed stops no other, and the status says what is worth asking again   *)
(* (SequentialFleetPlanner::plan, status_for).                             *)
BatchAnswersEveryRobot ==
  status # None =>
    LET failed == {i \in DOMAIN outcomes : outcomes[i].failure # None}
        routed == {i \in DOMAIN outcomes : outcomes[i].route # None}
    IN  /\ Len(outcomes) = Len(batch.routes)
        /\ \A i \in DOMAIN outcomes : outcomes[i].robot = batch.routes[i].robot
        /\ routed \cap failed = {}
        /\ status = "timeout" =>
             /\ \E n \in 0..Len(outcomes) - 1 : routed \cup failed = 1..n
             /\ \/ batch.deadline # None /\ batch.deadline <= now
                \/ batch.timeout # None /\ batch.began + batch.timeout <= now
        /\ status # "timeout" =>
             /\ routed \cup failed = DOMAIN outcomes
             /\ status = "success" <=> failed = {}
             /\ status = "no_path" =>
                  \A i \in failed : outcomes[i].failure \in Retryable
             /\ status = "failed" =>
                  \E i \in failed : outcomes[i].failure \notin Retryable

(* Every batch comes to an end, whatever the map, the constraints and the  *)
(* traffic.                                                                *)
BatchesEnd == batch # None ~> status # None

(* A replan that finds an alternative leaves the robot with a route it can *)
(* drive, and changes one that could be driven only after the hold time    *)
(* and for one that costs less now, unless the map's negative times make   *)
(* the old one cost less than nothing (decide_replan).                     *)
RouteChangesAreJustified ==
  [][replanning # None /\ replanning' = None /\ answer.failure = None =>
       LET old == in_force[replanning]
           new == in_force'[replanning]
       IN  /\ RouteIsValid(Map, new, request.constraints)
           /\ new # old /\ RouteIsValid(Map, old, request.constraints) =>
                /\ old.created_at + MinimumHold <= now
                /\ CostOf(old) >= 0 => CostOf(new) < CostOf(old)
    ]_fleetVars
=============================================================================
