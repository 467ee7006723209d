------------------------- MODULE MCConflictDetector -------------------------
(***************************************************************************)
(* A small map and fleet for the conflict detector:                        *)
(*                                                                         *)
(*   A --e1-- M --e2-- B --w-- C --p-- X --q-- D                           *)
(*                                     |                                   *)
(*                         north --n-- X --s-- south                       *)
(*                                                                         *)
(* e1 and e2 are one lane for one robot, w is wide enough for two, X is an *)
(* intersection, D lies in a bay, and an edge `old' is known only to       *)
(* routes.                                                                 *)
(***************************************************************************)
EXTENDS ConflictDetector, TLC

CONSTANTS A, M, B, C, X, D, north, south,   \* nodes
          e1, e2, w, p, q, n, s, old,       \* edges
          lane, wide, crossing, bay,        \* resources
          across, down, up                  \* movements

TheNodes == <<A, M, B, C, X, D, north, south>>
TheEdges == <<e1, e2, w, p, q, n, s, old>>
KnownEdges == Seqs!ToSet(TheEdges) \ {old}

TheEnds == (e1 :> <<A, M>>) @@ (e2 :> <<M, B>>) @@ (w :> <<B, C>>)
             @@ (p :> <<C, X>>) @@ (q :> <<X, D>>)
             @@ (n :> <<north, X>>) @@ (s :> <<X, south>>)

TheEdgeResource ==
  [edge \in KnownEdges |-> IF edge \in {e1, e2} THEN lane
                           ELSE IF edge = w THEN wide ELSE edge]
TheNodeResource == (X :> crossing) @@ (D :> bay)

TheCorridors ==
  (lane :> [entry |-> A, edges |-> <<e1, e2>>, direction |-> "bidirectional"])
    @@ (wide :> [entry |-> B, edges |-> <<w>>, direction |-> "bidirectional"])

(* Across and down exclude each other; up excludes neither; a turn from    *)
(* north to D is not defined.                                              *)
TheIntersections ==
  crossing :> [movements |-> (<<p, q>> :> across) @@ (<<n, s>> :> down)
                               @@ (<<s, n>> :> up),
               groups |-> {{across, down}}]

TheCapacity ==
  [place \in Seqs!ToSet(TheNodes) \cup KnownEdges \cup {lane, wide, crossing, bay} |->
     IF place \in {wide, crossing} THEN 2 ELSE 1]

(* A route driven without a stop, each edge in the same time.              *)
Drive(robot, nodes, edges, start, pace) ==
  [robot |-> robot, nodes |-> nodes,
   segments |-> [i \in DOMAIN edges |->
     [edge |-> edges[i],
      window |-> Window(start + (i - 1) * pace, start + i * pace)]]]

(* With a pause before segment i.                                          *)
Pausing(route, i) ==
  [route EXCEPT !.segments = [j \in DOMAIN route.segments |->
     LET segment == route.segments[j]
     IN  IF j < i THEN segment
         ELSE [segment EXCEPT !.window = Window(segment.window.start + 1,
                                                segment.window.end + 1)]]]

Untimed(route, i) == [route EXCEPT !.segments[i].window = None]

(* In the lane: both ways, on one edge and on two, with a pause half way,  *)
(* and one way from a segment nobody timed on.  In the wide corridor:      *)
(* three that meet only after two have.  At X: every pair of movements.    *)
(* And the edge the map forgot.                                            *)
TheIntents ==
  {Drive(1, <<A, M, B, C>>, <<e1, e2, w>>, 0, 1),
   Drive(1, <<C, X, D>>, <<p, q>>, 0, 2),
   Pausing(Drive(2, <<B, M, A, D>>, <<e2, e1, old>>, 0, 2), 2),
   Drive(2, <<north, X, south>>, <<n, s>>, 1, 1),
   Drive(2, <<B, C>>, <<w>>, 0, 3),
   Untimed(Drive(3, <<A, M, B, C>>, <<e1, e2, w>>, 1, 1), 1),
   Drive(3, <<C, B>>, <<w>>, 1, 2),
   Drive(3, <<north, X, D, A>>, <<n, q, old>>, 2, 1),
   Drive(3, <<south, X, north>>, <<s, n>>, 1, 1)}

Grant(id, robot, resource, start, end) ==
  [id |-> id, robot |-> robot, resource |-> resource,
   window |-> Window(start, end), state |-> "pending"]

(* Two of them for one robot, one after the other.                         *)
TheGrants ==
  {Grant(1, 1, wide, 1, 4), Grant(2, 2, q, 0, 2), Grant(3, 2, q, 2, 4),
   Grant(4, 3, q, 0, 3)}

TheInstants == 0..5

(* The map and the routes are as maps are drawn and routes planned.        *)
ASSUME DrawnAndPlanned ==
  /\ SharedEdgesAreLanes /\ CorridorsAreLines /\ CrossroadsAreNamed
  /\ TimeRunsForward /\ RoutesFollowCorridors
=============================================================================
