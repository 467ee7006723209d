--------------------------- MODULE MCMapValidation ---------------------------
(***************************************************************************)
(* A site for TLC: a --e1-- b --e2-- c, one corridor, and what an editor   *)
(* may add to it, much of it mistaken.                                     *)
(***************************************************************************)
EXTENDS MapValidation

CONSTANTS a, b, c, d, ghost,       \* nodes, the last in no map
          e1, e2, e3, e4,          \* edges
          lane, crossing, bay,     \* resources
          m1, m2                   \* movements

ANode(id, capacity) == [id |-> id, capacity |-> capacity]

AnEdge(id, from, to, direction, resource) ==
  [id |-> id, from |-> from, to |-> to, direction |-> direction, enabled |-> TRUE,
   length |-> 1, speed_limit |-> 1, capacity |-> 1, resource |-> resource]

ACorridor(id, entry, exit, edges) ==
  [id |-> id, entry |-> entry, exit |-> exit, edges |-> edges, capacity |-> 1]

AnIntersection(id, nodes, movements) ==
  [id |-> id, nodes |-> nodes, movements |-> movements, groups |-> {{m1, m2}},
   capacity |-> 1]

ABay(id, node, capacity) == [id |-> id, node |-> node, capacity |-> capacity]

TheSite ==
  [nodes |-> <<ANode(a, 1), ANode(b, 1), ANode(c, 1)>>,
   edges |-> <<AnEdge(e1, a, b, "bidirectional", lane),
               AnEdge(e2, b, c, "forward", None)>>,
   corridors |-> <<ACorridor(lane, a, b, <<e1>>)>>,
   intersections |-> << >>, bays |-> << >>]

(* Second sightings, ends that do not exist, loops, nothing to drive on,   *)
(* no room; corridors in the wrong order, too short, and the long way.     *)
TheParts ==
  [nodes |-> {ANode(b, 2), ANode(d, 1), ANode(d, 0)},
   edges |-> {AnEdge(e2, c, a, "forward", lane), AnEdge(e3, d, c, "reverse", None),
              AnEdge(e3, d, a, "bidirectional", crossing), AnEdge(e4, c, c, "forward", None),
              AnEdge(e4, c, ghost, "forward", None),
              [AnEdge(e4, c, a, "forward", None) EXCEPT !.enabled = FALSE],
              [AnEdge(e4, c, a, "forward", None) EXCEPT !.length = 0],
              [AnEdge(e4, c, a, "forward", None) EXCEPT !.speed_limit = 0],
              [AnEdge(e4, c, a, "forward", None) EXCEPT !.capacity = 0]},
   corridors |-> {ACorridor(lane, a, c, <<e1, e2>>), ACorridor(bay, a, c, <<e2, e1>>),
                  ACorridor(bay, c, a, <<e2, e1>>), ACorridor(bay, a, c, <<e1>>),
                  [ACorridor(bay, a, b, <<e1>>) EXCEPT !.capacity = 0]},
   intersections |-> {AnIntersection(crossing, {b}, {m1, m2}),
                      AnIntersection(crossing, {b}, {m1}),
                      AnIntersection(lane, {d}, {m1, m2})},
   bays |-> {ABay(bay, d, 1), ABay(crossing, c, 2), ABay(bay, c, 0)}]
=============================================================================
