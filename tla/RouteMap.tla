------------------------------ MODULE RouteMap ------------------------------
(***************************************************************************)
(* The map as the planner sees it (map::Map), what driving along an edge   *)
(* costs (cost_model), and what makes a route drivable (route_validator).  *)
(*                                                                         *)
(* A map is a record: where its nodes lie, its edges by id, and the order  *)
(* the file lists the edges in.  Nodes lie on a line, times and costs are  *)
(* whole numbers: costs are counted in fractions of 1 / FactorUnit, so     *)
(* that the factor for preferred resources stays whole too.                *)
(***************************************************************************)
EXTENDS Integers, Sequences, FiniteSets

Seqs == INSTANCE SequencesExt
Sets == INSTANCE FiniteSetsExt

CONSTANTS
  NodeId, EdgeId,    \* ordered as the code orders ids
  Resource,          \* the corridors and other shared resources of the maps
  None,              \* std::nullopt, the empty id
  DistanceWeight, TimeWeight,       \* CostWeights
  PreferredFactor, FactorUnit       \* preferred_factor, as a fraction

(* make_cost_weights.                                                      *)
ASSUME WeightAssumption ==
  /\ {DistanceWeight, TimeWeight, FactorUnit} \subseteq Nat
  /\ PreferredFactor \in 1..FactorUnit

ASSUME IdAssumption ==
  /\ NodeId \cup EdgeId \subseteq Nat
  /\ None \notin NodeId \cup EdgeId \cup Resource

Direction == {"forward", "reverse", "bidirectional"}

(* pace is the time a metre takes at the speed limit.  The time a map      *)
(* states instead may be any number, a negative one too.                   *)
Edge == [from : NodeId, to : NodeId, direction : Direction, enabled : BOOLEAN,
         length : Nat, pace : Nat, travel_time_override : Int \cup {None},
         resource : Resource \cup {None}]

(* RouteConstraints, blocked and forbidden resources together.             *)
Constraints == [edges     : SUBSET EdgeId,
                nodes     : SUBSET NodeId,
                resources : SUBSET (Resource \cup EdgeId),
                preferred : SUBSET (Resource \cup EdgeId)]

NodesOf(map) == DOMAIN map.position
EdgesOf(map) == DOMAIN map.edge

IsMap(map) ==
  /\ NodesOf(map) \subseteq NodeId /\ IsFiniteSet(NodesOf(map))
  /\ map.position \in [NodesOf(map) -> Int]
  /\ EdgesOf(map) \subseteq EdgeId /\ IsFiniteSet(EdgesOf(map))
  /\ map.edge \in [EdgesOf(map) -> Edge]
  /\ map.order \in [1..Cardinality(EdgesOf(map)) -> EdgesOf(map)]
  /\ \A id \in EdgesOf(map) :
       /\ {map.edge[id].from, map.edge[id].to} \subseteq NodesOf(map)
       /\ \E i \in DOMAIN map.order : map.order[i] = id

Abs(i) == IF i < 0 THEN -i ELSE i

(* euclidean_distance, on a line.                                          *)
Distance(map, m, n) == Abs(map.position[m] - map.position[n])

(* is_traversable_from.                                                    *)
IsTraversableFrom(edge, node) ==
  /\ edge.enabled
  /\ \/ node = edge.from /\ edge.direction # "reverse"
     \/ node = edge.to /\ edge.direction # "forward"

Opposite(edge, node) == IF node = edge.from THEN edge.to ELSE edge.from

(* Slip: every edge at a node leads away from it.                          *)
IncidentEdges(map, node) ==
  SelectSeq(map.order, LAMBDA id : node \in {map.edge[id].from, map.edge[id].to})

(* traversable_edges, in the order of the file.                            *)
TraversableEdges(map, node) ==
  LET usable[i \in 0..Len(map.order)] ==
        IF i = 0 THEN << >>
        ELSE IF IsTraversableFrom(map.edge[map.order[i]], node)
        THEN Append(usable[i - 1], map.order[i])
        ELSE usable[i - 1]
  IN  usable[Len(map.order)]

(* effective_resource: an edge of no resource is its own.                  *)
ResourceOf(map, id) ==
  IF map.edge[id].resource = None THEN id ELSE map.edge[id].resource

(* nominal_travel_time.                                                    *)
TravelTime(edge) ==
  IF edge.travel_time_override # None THEN edge.travel_time_override
  ELSE edge.length * edge.pace

(* allows_edge: a corridor is closed by its resource.                      *)
AllowsEdge(map, constraints, id) ==
  /\ id \notin constraints.edges
  /\ ResourceOf(map, id) \notin constraints.resources

AllowsNode(constraints, node) == node \notin constraints.nodes

(* edge_cost.  surcharge stands for the congestion and the expected wait   *)
(* at a resource, weighted; a resource it does not name is free.           *)
EdgeCost(map, id, constraints, surcharge) ==
  LET edge == map.edge[id]
      resource == ResourceOf(map, id)
      extra == IF resource \in DOMAIN surcharge THEN surcharge[resource] ELSE 0
  IN  (DistanceWeight * edge.length + TimeWeight * TravelTime(edge) + extra)
        * (IF resource \in constraints.preferred THEN PreferredFactor ELSE FactorUnit)

(* max_speed_limit: the least pace, of edges in use or not.                *)
LeastPace(map) == Sets!Min({map.edge[id].pace : id \in EdgesOf(map)})

(* min_cost_per_metre; nothing is known about a map without edges.         *)
MinCostPerMetre(map) ==
  IF EdgesOf(map) = {} THEN 0
  ELSE PreferredFactor * (DistanceWeight + TimeWeight * LeastPace(map))

(* geometry_supports_distance_heuristic.                                   *)
GeometrySupportsHeuristic(map) ==
  \A id \in EdgesOf(map) :
    map.edge[id].length >= Distance(map, map.edge[id].from, map.edge[id].to)
-----------------------------------------------------------------------------
(* A route is the nodes it visits and the edges between them, with the     *)
(* window each edge is expected to be driven in.                           *)

(* validate_segment.                                                       *)
SegmentIsValid(map, constraints, id, from, to) ==
  /\ id \in EdgesOf(map)
  /\ <<from, to>> \in {<<map.edge[id].from, map.edge[id].to>>,
                       <<map.edge[id].to, map.edge[id].from>>}
  /\ IsTraversableFrom(map.edge[id], from)
  /\ AllowsEdge(map, constraints, id)

(* validate_route.                                                         *)
RouteIsValid(map, route, constraints) ==
  /\ route.nodes # << >>
  /\ Len(route.nodes) = Len(route.edges) + 1
  /\ \A node \in Seqs!ToSet(route.nodes) :
       node \in NodesOf(map) /\ AllowsNode(constraints, node)
  /\ \A i \in DOMAIN route.edges :
       SegmentIsValid(map, constraints, route.edges[i], route.nodes[i], route.nodes[i + 1])

(* estimate_route_cost, of a route whose edges the map has.                *)
RouteCost(map, edges, constraints, surcharge) ==
  Seqs!FoldLeft(LAMBDA sum, id : sum + EdgeCost(map, id, constraints, surcharge),
                0, edges)
=============================================================================
