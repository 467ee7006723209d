----------------------------- MODULE AStarSearch -----------------------------
(***************************************************************************)
(* planning::AStarPlanner: plan_route, one step per turn of its loop.      *)
(* The frontier is local to one call, so a planner is either idle,         *)
(* searching, or has an answer its caller has yet to take.                 *)
(*                                                                         *)
(* The open set is a set here.  The queue of the code may hold an entry    *)
(* twice; the second one is dropped when it comes up, like every entry of  *)
(* a node that is settled.                                                 *)
(***************************************************************************)
EXTENDS RouteMap

CONSTANTS
  Robot,
  Planners  \* the compositions considered: a map, a heuristic and a cap

ASSUME PlannerAssumption ==
  \A p \in Planners :
    /\ IsMap(p.map)
    /\ p.heuristic \in {"euclidean", "dijkstra"}
    /\ p.max_expansions \in Nat  \* 0 for no cap

(* Any id may be asked for, of the map or not, and none at all.            *)
RouteRequest ==
  [robot : Robot \cup {None}, start : Nat \cup {None}, goal : Nat \cup {None},
   current_time : Int, constraints : Constraints]

Route ==
  [id : Nat, robot : Robot, nodes : Seq(NodeId), edges : Seq(EdgeId),
   windows : Seq([start : Int, end : Int]), created_at : Int]

PlanningFailure ==
  {"invalid_request", "unknown_start", "unknown_goal", "blocked_start",
   "blocked_goal", "no_route", "search_limit_reached"}

(* What plan_route returns: a route and its cost, or why there is none.    *)
Answer ==
  [failure : {None}, route : Route, cost : Int]
    \cup [failure : PlanningFailure, route : {None}, cost : {0}]

ASSUME NoneAssumption ==
  None \notin Robot \cup RouteRequest \cup Route \cup Answer \cup PlanningFailure

VARIABLES
  planner,         \* the composition at hand
  surcharge,       \* ITrafficConditions
  request,         \* the RouteRequest at work, or None
  called_at,       \* the planner's clock when plan_route was called
  best_cost, came_from, settled, open,  \* the locals of search()
  route_sequence,  \* route_sequence_
  answer           \* what plan_route returned, until its caller takes it

frontier == <<best_cost, came_from, settled, open>>
searchVars ==
  <<planner, surcharge, request, called_at, frontier, route_sequence, answer>>

Map == planner.map
Nothing == [x \in {} |-> None]

Searching == request # None /\ answer = None

StepCost(id) == EdgeCost(Map, id, request.constraints, surcharge)

(* Slip: a metre is thought to cost what it costs in the fastest lane,     *)
(* preferred or not.                                                       *)
EstimateUndiscounted(node, goal) ==
  IF planner.heuristic = "dijkstra" THEN 0
  ELSE FactorUnit * (DistanceWeight + TimeWeight * LeastPace(Map))
         * Distance(Map, node, goal)

(* IHeuristic::estimate, of make_admissible_heuristic or of ZeroHeuristic. *)
Estimate(node, goal) ==
  IF planner.heuristic = "dijkstra" THEN 0
  ELSE MinCostPerMetre(Map) * Distance(Map, node, goal)

Candidate(node, g, goal) ==
  [f |-> g + Estimate(node, goal), g |-> g, node |-> node]

(* WorseFirst.                                                             *)
Before(c, d) ==
  \/ c.f < d.f
  \/ c.f = d.f /\ c.g > d.g
  \/ c.f = d.f /\ c.g = d.g /\ c.node < d.node

Frontier == [best_cost |-> best_cost, came_from |-> came_from, open |-> open]

(* Slip: the first of equally good ways stays.                             *)
ImprovesStrictly(front, next, cost, id) ==
  next \in DOMAIN front.best_cost => cost < front.best_cost[next]

(* A way to a node is taken when it is cheaper, or as good along an edge   *)
(* of a lower id.                                                          *)
Improves(front, next, cost, id) ==
  next \in DOMAIN front.best_cost =>
    \/ cost < front.best_cost[next]
    \/ cost = front.best_cost[next] /\ id < front.came_from[next].edge

With(f, x, y) == [z \in DOMAIN f \cup {x} |-> IF z = x THEN y ELSE f[z]]

(* relax.                                                                  *)
Relaxed(front, current, id) ==
  LET next == Opposite(Map.edge[id], current.node)
      cost == current.g + StepCost(id)
  IN  IF /\ AllowsEdge(Map, request.constraints, id)
         /\ next \notin Seqs!ToSet(settled) \cup {current.node}
         /\ AllowsNode(request.constraints, next)
         /\ Improves(front, next, cost, id)
      THEN [best_cost |-> With(front.best_cost, next, cost),
            came_from |-> With(front.came_from, next,
                               [node |-> current.node, edge |-> id]),
            open      |-> front.open \cup {Candidate(next, cost, request.goal)}]
      ELSE front

(* What a node leaves of the frontier, over its edges in a given order: a  *)
(* set of one, so that TLC evaluates it once.                              *)
Expanded(front, current, order) ==
  Seqs!FoldLeft(LAMBDA fronts, id : {Relaxed(f, current, id) : f \in fronts},
                {front}, order)
-----------------------------------------------------------------------------
(* The way back from the goal, a node at a time, no longer than what was   *)
(* settled before it (reconstruct).                                        *)
WayBack ==
  LET walk[i \in 0..Len(settled)] ==
        IF i = 0 THEN [nodes |-> <<request.goal>>, edges |-> << >>]
        ELSE LET rest == walk[i - 1]
             IN  IF rest.nodes[1] \notin DOMAIN came_from THEN rest
                 ELSE LET step == came_from[rest.nodes[1]]
                      IN  [nodes |-> <<step.node>> \o rest.nodes,
                           edges |-> <<step.edge>> \o rest.edges]
  IN  walk[Len(settled)]

(* The windows a walk is expected to take, back to back, none of them      *)
(* empty (kSmallestSegment).                                               *)
WindowsFrom(edges, at) ==
  LET Span(from, id) ==
        [start |-> from,
         end   |-> from + IF TravelTime(Map.edge[id]) > 1
                          THEN TravelTime(Map.edge[id]) ELSE 1]
  IN  Seqs!FoldLeft(LAMBDA spans, id :
                      Append(spans, Span(IF spans = << >> THEN at
                                         ELSE spans[Len(spans)].end, id)),
                    << >>, edges)

Failed(failure) == [failure |-> failure, route |-> None, cost |-> 0]

(* assemble, of a walk that was found.                                     *)
Found(req, walk, cost, started) ==
  [failure |-> None,
   route   |-> [id         |-> route_sequence + 1,
                robot      |-> req.robot,
                nodes      |-> walk.nodes,
                edges      |-> walk.edges,
                windows    |-> WindowsFrom(walk.edges, req.current_time),
                created_at |-> started],
   cost    |-> cost]

(* What plan_route refuses before it searches, in that order.              *)
Refusal(req) ==
  IF None \in {req.robot, req.start, req.goal} THEN "invalid_request"
  ELSE IF req.start \notin NodesOf(Map) THEN "unknown_start"
  ELSE IF req.goal \notin NodesOf(Map) THEN "unknown_goal"
  ELSE IF ~AllowsNode(req.constraints, req.start) THEN "blocked_start"
  ELSE IF ~AllowsNode(req.constraints, req.goal) THEN "blocked_goal"
  ELSE None

(* The locals are gone once the call is over.                              *)
NoFrontier ==
  /\ best_cost' = Nothing /\ came_from' = Nothing
  /\ settled' = << >> /\ open' = {}

Answered(result) ==
  /\ answer' = result
  /\ route_sequence' = route_sequence + IF result.failure = None THEN 1 ELSE 0
  /\ NoFrontier
-----------------------------------------------------------------------------
(* plan_route is called: it refuses, is there already, or starts a search. *)
PlanRoute(req, now) ==
  /\ request = None
  /\ request' = req
  /\ called_at' = now
  /\ UNCHANGED <<planner, surcharge>>
  /\ \/ Refusal(req) # None /\ Answered(Failed(Refusal(req)))
     \/ /\ Refusal(req) = None /\ req.start = req.goal
        /\ Answered(Found(req, [nodes |-> <<req.start>>, edges |-> << >>],
                          0, now))
     \/ /\ Refusal(req) = None /\ req.start # req.goal
        /\ best_cost' = With(Nothing, req.start, 0)
        /\ came_from' = Nothing
        /\ settled' = << >>
        /\ open' = {Candidate(req.start, 0, req.goal)}
        /\ UNCHANGED <<route_sequence, answer>>

(* The entry that is due next.                                             *)
IsNext(current) ==
  current \in open /\ \A other \in open \ {current} : Before(current, other)

IsSettled(node) == node \in Seqs!ToSet(settled)

(* Slip: the entry of a settled node stays on top of the queue.            *)
DiscardNothing(current) ==
  Searching /\ IsNext(current) /\ IsSettled(current.node) /\ UNCHANGED searchVars

(* An entry of a node that was settled since.                              *)
Discard(current) ==
  /\ Searching /\ IsNext(current) /\ IsSettled(current.node)
  /\ open' = open \ {current}
  /\ UNCHANGED <<planner, surcharge, request, called_at, best_cost, came_from, settled,
                 route_sequence, answer>>

HitsLimit == planner.max_expansions # 0 /\ Len(settled) + 1 >= planner.max_expansions

Settle(current) ==
  /\ Searching /\ IsNext(current) /\ ~IsSettled(current.node)
  /\ UNCHANGED <<planner, surcharge, request, called_at>>
  /\ \/ /\ current.node = request.goal
        /\ Answered(Found(request, WayBack, current.g, called_at))
     \/ /\ current.node # request.goal /\ HitsLimit
        /\ Answered(Failed("search_limit_reached"))
     \/ /\ current.node # request.goal /\ ~HitsLimit
        /\ \E after \in Expanded([Frontier EXCEPT !.open = @ \ {current}], current,
                                 TraversableEdges(Map, current.node)) :
             /\ best_cost' = after.best_cost
             /\ came_from' = after.came_from
             /\ open' = after.open
        /\ settled' = Append(settled, current.node)
        /\ UNCHANGED <<route_sequence, answer>>

Exhaust ==
  /\ Searching /\ open = {}
  /\ Answered(Failed("no_route"))
  /\ UNCHANGED <<planner, surcharge, request, called_at>>

Search == Exhaust \/ \E current \in open : Discard(current) \/ Settle(current)

(* The caller has the answer.                                              *)
Return ==
  /\ answer # None
  /\ request' = None /\ answer' = None
  /\ UNCHANGED <<planner, surcharge, called_at, frontier, route_sequence>>
=============================================================================
