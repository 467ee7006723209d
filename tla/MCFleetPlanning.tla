-------------------------- MODULE MCFleetPlanning --------------------------
(* Small maps and batches for TLC.                                         *)
EXTENDS FleetPlanning, TLC

CONSTANTS r1, r2, aisle

Lane(from, to, direction, length, pace, resource) ==
  [from |-> from, to |-> to, direction |-> direction, enabled |-> TRUE,
   length |-> length, pace |-> pace, travel_time_override |-> None,
   resource |-> resource]

(* An aisle from 1 over 2 to 3, with a second lane beside its first half   *)
(* that is as good; a one-way detour over 4 and a long way round that both *)
(* lead to 3 too; and a lane out of order to 5.                            *)
Floor ==
  [position |-> (1 :> 0) @@ (2 :> 2) @@ (3 :> 4) @@ (4 :> 2) @@ (5 :> 6),
   edge     |-> (1 :> Lane(1, 2, "bidirectional", 2, 1, aisle))
             @@ (2 :> Lane(2, 3, "bidirectional", 2, 1, aisle))
             @@ (3 :> Lane(1, 2, "forward", 2, 1, None))
             @@ (4 :> Lane(1, 4, "forward", 2, 1, None))
             @@ (5 :> Lane(3, 4, "reverse", 3, 1, None))
             @@ (6 :> [Lane(1, 3, "bidirectional", 4, 2, None)
                         EXCEPT !.travel_time_override = 4])
             @@ (7 :> [Lane(3, 5, "forward", 2, 1, None) EXCEPT !.enabled = FALSE]),
   order    |-> <<6, 3, 1, 4, 5, 2, 7>>]

Composed(map, heuristic, cap) ==
  [map |-> map, heuristic |-> heuristic, max_expansions |-> cap]

(* The same floor with nominal coordinates: the long way round is shorter  *)
(* than the straight line, so only the zero heuristic is sure to find it.  *)
Nominal == [Floor EXCEPT !.edge[6].length = 2, !.edge[6].travel_time_override = 1]

(* The same floor with a sign typed wrong: the long way round takes less   *)
(* than no time, and its length does not make up for that.                 *)
Mistyped == [Floor EXCEPT !.edge[6].travel_time_override = -8]

FloorPlanners ==
  {Composed(Floor, "euclidean", 0), Composed(Floor, "dijkstra", 0),
   Composed(Floor, "euclidean", 3), Composed(Nominal, "dijkstra", 0),
   Composed(Mistyped, "dijkstra", 0)}

(* A lane that takes half the time the speed limit allows.                 *)
Shortcut ==
  [position |-> (1 :> 0) @@ (2 :> 2) @@ (3 :> 6),
   edge     |-> (1 :> Lane(1, 3, "forward", 6, 1, None))
             @@ (2 :> Lane(1, 2, "forward", 2, 1, None))
             @@ (3 :> [Lane(2, 3, "forward", 4, 1, None)
                         EXCEPT !.travel_time_override = 2]),
   order    |-> <<1, 2, 3>>]

ShortcutPlanners == {Composed(Floor, "euclidean", 0), Composed(Shortcut, "euclidean", 0)}

Free == [edges |-> {}, nodes |-> {}, resources |-> {}, preferred |-> {}]

FloorClosures ==
  {Free, [Free EXCEPT !.resources = {aisle}], [Free EXCEPT !.nodes = {2}, !.edges = {6}]}

FloorSurcharges == {[r \in {} |-> 0], aisle :> 5}

Order(robot, start, goal, constraints) ==
  [robot |-> robot, start |-> start, goal |-> goal, current_time |-> 0,
   constraints |-> constraints]

Batch(routes, deadline, timeout) ==
  [routes |-> routes, deadline |-> deadline, timeout |-> timeout]

(* One robot: along the aisle, back, out of reach, and under constraints.  *)
Single ==
  {Batch(<<Order(r1, 1, 3, constraints)>>, None, None) :
     constraints \in {Free, [Free EXCEPT !.preferred = {aisle}],
                      [Free EXCEPT !.preferred = {5}, !.nodes = {2}]}}
  \cup {Batch(<<Order(r1, 3, 1, Free)>>, None, None),
        Batch(<<Order(r1, 4, 2, [Free EXCEPT !.resources = {6}])>>, None, None)}

Several ==
  {Batch(<< >>, None, None),
   Batch(<<Order(r1, 1, 5, Free), Order(r2, 1, 3, Free)>>, None, 1),
   Batch(<<Order(r2, 9, 3, Free), Order(r1, 1, 3, Free)>>, 2, None),
   Batch(<<Order(None, 1, 3, Free), Order(r1, 3, 9, Free)>>, None, None)}

FloorBatches == Single \cup Several
=============================================================================
