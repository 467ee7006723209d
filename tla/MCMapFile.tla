------------------------------ MODULE MCMapFile ------------------------------
(***************************************************************************)
(* The site of MCMapValidation as a file, and what an engineer may write   *)
(* into it: fields left out, of the wrong type, too large, unknown words.  *)
(***************************************************************************)
EXTENDS MCMapValidation, MapFile

ANodeText(id, type, capacity) == [id |-> id, type |-> type, capacity |-> capacity]

AnEdgeText(id, from, to, resource) ==
  [id |-> id, from |-> from, to |-> to, direction |-> Absent, enabled |-> Absent,
   length |-> 1, speed_limit |-> Absent, capacity |-> Absent, resource |-> resource]

ACorridorText(id, entry, exit, edges) ==
  [id |-> id, entry |-> entry, exit |-> exit, edges |-> edges,
   direction |-> Absent, capacity |-> Absent]

ACrossingText(id, nodes, movements, groups) ==
  [id |-> id, nodes |-> nodes, movements |-> movements, groups |-> groups,
   capacity |-> Absent]

ABayText(id, node, capacity) == [id |-> id, node |-> node, capacity |-> capacity]

TheNames == {a, b, c, d, ghost, e1, e2, e3, e4, lane, crossing, bay, m1, m2, Blank}

TheText ==
  [speed |-> Absent,
   nodes |-> <<ANodeText(a, Absent, Absent), ANodeText(b, "known", 1),
               ANodeText(c, Absent, 1)>>,
   edges |-> <<AnEdgeText(e1, a, b, lane),
               [AnEdgeText(e2, b, c, Blank) EXCEPT !.enabled = FALSE]>>,
   corridors |-> <<ACorridorText(lane, a, b, <<e1>>)>>,
   intersections |-> Absent, bays |-> Absent]

TheEntries ==
  [nodes |-> {ANodeText(d, Absent, -1), ANodeText(d, Absent, 16), ANodeText(Blank, Absent, Mistyped),
              ANodeText(Mistyped, Absent, 1), ANodeText(d, "unknown", 1)},
   edges |-> {[AnEdgeText(e3, c, a, Absent) EXCEPT !.enabled = Mistyped],
              [AnEdgeText(e3, c, a, Absent) EXCEPT !.length = Mistyped],
              [AnEdgeText(e3, c, a, Absent) EXCEPT !.speed_limit = -1],
              [AnEdgeText(e3, c, Blank, Mistyped) EXCEPT !.direction = "reverse"],
              [AnEdgeText(e3, c, a, Absent) EXCEPT !.direction = "unknown"]},
   corridors |-> {ACorridorText(bay, b, c, <<e2>>), ACorridorText(bay, a, a, <<e1, e1>>),
                  ACorridorText(bay, b, c, << >>), ACorridorText(bay, b, c, Absent),
                  [ACorridorText(bay, b, c, <<e2>>) EXCEPT !.capacity = 16],
                  [ACorridorText(bay, b, c, <<e2>>) EXCEPT !.direction = "unknown"]},
   intersections |-> {ACrossingText(crossing, {b}, {m1, m2}, {{m1, m2}}),
                      ACrossingText(crossing, {b}, Absent, Absent),
                      ACrossingText(crossing, {b}, {m1}, Mistyped),
                      ACrossingText(crossing, {}, Absent, Absent),
                      ACrossingText(crossing, {Blank}, Absent, Absent),
                      ACrossingText(Blank, {b}, Absent, Absent)},
   bays |-> {ABayText(bay, c, Absent), ABayText(crossing, b, 0), ABayText(bay, Blank, 1)}]
=============================================================================
