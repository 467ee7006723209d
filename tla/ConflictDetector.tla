-------------------------- MODULE ConflictDetector --------------------------
(***************************************************************************)
(* reservation::ConflictDetector, on one map.  It keeps nothing between    *)
(* calls: routes are read as claims on places, six passes compare them     *)
(* with each other and with the reservations, and what the passes say of   *)
(* one pair of robots and one place is reduced to one conflict.            *)
(*                                                                         *)
(* The state is what it is asked about: the routes and reservations a      *)
(* controller holds, in the order they came to it, and the clock.  The     *)
(* controller is outside the repository; it asks whenever any of these     *)
(* changed, and `conflicts' is the answer.                                 *)
(***************************************************************************)
EXTENDS ConflictRules, ReservationState, Sequences

Seqs == INSTANCE SequencesExt
Sets == INSTANCE FiniteSetsExt

CONSTANTS
  NodeIds, EdgeIds,    \* of the map and of older ones, in the order of the ids
  Robot,               \* ordered as the code orders ids
  Ends,                \* the two nodes of each edge of the map
  EdgeResource,        \* effective_resource of each edge of the map
  NodeResource,        \* the resource of each node that states one
  Corridors,           \* corridors of the map: entry, edges in order, direction
  Intersections,       \* intersections of the map: movements, groups
  MapCapacity,         \* capacity of each resource, edge and node of the map
  EntryBuffer, ExitBuffer,   \* SafetyBuffer
  Intents,             \* the routes robots may take up
  Grants,              \* the reservations that may be made
  Instants,            \* the times that routes and reservations speak of
  Clock,               \* what the clock may show
  MaxQuery             \* bound: routes and reservations held at a time

(* make_safety_buffer.                                                     *)
ASSUME BufferAssumption == {EntryBuffer, ExitBuffer} \subseteq Nat

(* What make_time_window makes.                                            *)
Spans == {w \in [start : Int, end : Int] : IsWindow(w)}

Places == Seqs!ToSet(NodeIds) \cup Seqs!ToSet(EdgeIds) \cup DOMAIN MapCapacity

(* Names are not empty, and capacities are counts.                         *)
ASSUME MapAssumption ==
  /\ None \notin Places \cup ConflictType
  /\ NodeIds \in Seq(Places) /\ EdgeIds \in Seq(Places)
  /\ \A place \in DOMAIN MapCapacity : MapCapacity[place] \in Nat

(* What is known of a reservation.                                         *)
Reservation ==
  [id : {grant.id : grant \in Grants}, robot : Robot,
   resource : {grant.resource : grant \in Grants}, window : Spans, state : State]

(* make_route and make_reservation: routes are walks over nodes and edges  *)
(* of some map, whose segments may be without a time.                      *)
ASSUME FleetAssumption ==
  /\ Robot \subseteq Nat
  /\ Clock \subseteq Int /\ Instants \subseteq Int
  /\ MaxQuery \in Nat
  /\ \A route \in Intents :
       /\ route.robot \in Robot
       /\ route.nodes \in Seq(Seqs!ToSet(NodeIds))
       /\ route.segments \in Seq([edge : Seqs!ToSet(EdgeIds), window : Spans \cup {None}])
       /\ Len(route.nodes) = Len(route.segments) + 1
  /\ Grants \subseteq Reservation

VARIABLES
  routes,        \* ConflictQuery::routes
  reservations,  \* ConflictQuery::reservations
  now,
  conflicts      \* the answer, by contention: the list is in that order

vars == <<routes, reservations, now, conflicts>>

(* resource_capacity: one where the map knows nothing.                     *)
CapacityOf(resource) ==
  IF resource \in DOMAIN MapCapacity THEN MapCapacity[resource] ELSE 1

(* An edge of an older map is a place by its own name.                     *)
ResourceOfEdge(edge) ==
  IF edge \in DOMAIN EdgeResource THEN EdgeResource[edge] ELSE edge

(* intersection_at.                                                        *)
IntersectionAt(node) ==
  IF node \in DOMAIN NodeResource /\ NodeResource[node] \in DOMAIN Intersections
  THEN NodeResource[node] ELSE None

(* What a list has of `kept', in its order.                                *)
Where(list, kept) ==
  LET chosen[n \in 0..Len(list)] ==
        IF n = 0 THEN << >>
        ELSE IF list[n] \in kept THEN Append(chosen[n - 1], list[n])
        ELSE chosen[n - 1]
  IN  chosen[Len(list)]

Positions(list) == [i \in DOMAIN list |-> i]
-----------------------------------------------------------------------------
(* Reading a route.  A segment with no window is not guessed at.           *)

(* node_window: from the end of one segment to the start of the next, with *)
(* a margin; at the ends of the route one stands for the other.            *)
NodeWindow(route, i) ==
  LET incoming == IF i > 1 THEN route.segments[i - 1].window ELSE None
      outgoing == IF i <= Len(route.segments) THEN route.segments[i].window ELSE None
      arrival   == IF incoming # None THEN incoming.end ELSE outgoing.start
      departure == IF outgoing # None THEN outgoing.start ELSE incoming.end
      window    == Window(arrival - EntryBuffer, departure + ExitBuffer)
  IN  IF (incoming = None /\ outgoing = None) \/ ~IsWindow(window) THEN None
      ELSE window

Timed(claims) == Where(claims, {c \in Seqs!ToSet(claims) : c.window # None})

Visit(route, i) ==
  [robot |-> route.robot, node |-> route.nodes[i], resource |-> route.nodes[i],
   window |-> NodeWindow(route, i)]

(* node_visits: inside an intersection movements decide.                   *)
NodeVisits(route) ==
  LET outside == Where(Positions(route.nodes),
                       {i \in DOMAIN route.nodes : IntersectionAt(route.nodes[i]) = None})
  IN  Timed([k \in DOMAIN outside |-> Visit(route, outside[k])])

Traversal(route, i) ==
  [robot |-> route.robot, edge |-> route.segments[i].edge, from |-> route.nodes[i],
   resource |-> ResourceOfEdge(route.segments[i].edge),
   window |-> route.segments[i].window]

(* edge_traversals.                                                        *)
EdgeTraversals(route) == Timed([i \in DOMAIN route.segments |-> Traversal(route, i)])

(* corridor_node_order.                                                    *)
CorridorNodeOrder(corridor) ==
  Seqs!FoldLeft(
    LAMBDA order, edge :
      LET here == order[Len(order)]
      IN  Append(order, IF here = Ends[edge][1] THEN Ends[edge][2] ELSE Ends[edge][1]),
    <<corridor.entry>>, corridor.edges)

(* Slip: who does not come in at the entry goes the other way.             *)
DirectionByEnd(corridor, entry, exit) ==
  IF entry = corridor.entry THEN "entry_to_exit" ELSE "exit_to_entry"

(* passage_direction, by where the two ends first come in that order.      *)
PassageDirection(corridor, entry, exit) ==
  LET order == CorridorNodeOrder(corridor)
      First(node) == Sets!Min({i \in DOMAIN order : order[i] = node})
  IN  IF First(entry) < First(exit) THEN "entry_to_exit" ELSE "exit_to_entry"

InCorridor(route, i, corridor) ==
  /\ i \in DOMAIN route.segments
  /\ route.segments[i].window # None
  /\ ResourceOfEdge(route.segments[i].edge) = corridor

LastOfRun(route, first, corridor) ==
  Sets!Max({j \in first..Len(route.segments) :
              \A i \in first..j : InCorridor(route, i, corridor)})

OpensPassage(route, i) ==
  LET corridor == ResourceOfEdge(route.segments[i].edge)
  IN  /\ corridor \in DOMAIN Corridors
      /\ InCorridor(route, i, corridor)
      /\ ~InCorridor(route, i - 1, corridor)

Passage(route, first) ==
  LET corridor == ResourceOfEdge(route.segments[first].edge)
      last     == LastOfRun(route, first, corridor)
  IN  [robot |-> route.robot, resource |-> corridor,
       direction |-> PassageDirection(Corridors[corridor], route.nodes[first],
                                      route.nodes[last + 1]),
       window |-> Window(route.segments[first].window.start,
                         route.segments[last].window.end)]

(* corridor_passages: one for each run of timed segments in one corridor.  *)
CorridorPassages(route) ==
  LET firsts   == Where(Positions(route.segments),
                        {i \in DOMAIN route.segments : OpensPassage(route, i)})
      passages == [k \in DOMAIN firsts |-> Passage(route, firsts[k])]
  IN  Where(passages, {c \in Seqs!ToSet(passages) : IsWindow(c.window)})

(* find_movement: none where the route begins or ends, or nobody defined   *)
(* the turn.                                                               *)
MovementAt(route, i) ==
  LET movements == Intersections[IntersectionAt(route.nodes[i])].movements
      turn == IF i \in 2..Len(route.segments)
              THEN <<route.segments[i - 1].edge, route.segments[i].edge>>
              ELSE None
  IN  IF turn \in DOMAIN movements THEN movements[turn] ELSE None

Crossing(route, i) ==
  [robot |-> route.robot, resource |-> IntersectionAt(route.nodes[i]),
   movement |-> MovementAt(route, i), window |-> NodeWindow(route, i)]

(* intersection_crossings.                                                 *)
IntersectionCrossings(route) ==
  LET at == Where(Positions(route.nodes),
                  {i \in DOMAIN route.nodes : IntersectionAt(route.nodes[i]) # None})
  IN  Timed([k \in DOMAIN at |-> Crossing(route, at[k])])
-----------------------------------------------------------------------------
(* Passes.  `type' says of each two claims what they are to each other.    *)

(* Candidates of the pairs of `claims' for which there is such a type.     *)
PairsOf(claims, type) ==
  LET Against(i) ==
        LET later == Where(Positions(claims),
                           {j \in DOMAIN claims :
                              i < j /\ type[<<claims[i], claims[j]>>] # None})
        IN  [k \in DOMAIN later |->
               Candidate(claims[i], claims[later[k]], claims[i].resource,
                         type[<<claims[i], claims[later[k]]>>])]
  IN  Seqs!FlattenSeq([i \in DOMAIN claims |-> Against(i)])

NodeType(visits) ==
  [pair \in visits \X visits |->
     IF /\ IsNodeConflict(pair[1], pair[2])
        /\ IsCapacityConflict(pair[1], pair[2], visits, CapacityOf(pair[1].node))
     THEN "node" ELSE None]

NodeCandidates(visits) ==
  LET At(node) == Where(visits, {c \in Seqs!ToSet(visits) : c.node = node})
  IN  Seqs!FlattenSeq([k \in DOMAIN NodeIds |->
        PairsOf(At(NodeIds[k]), NodeType(Seqs!ToSet(At(NodeIds[k]))))])

(* Holders are those of the one edge, the capacity is of its resource.     *)
EdgeType(traversals) ==
  [pair \in traversals \X traversals |->
     IF ~IsCapacityConflict(pair[1], pair[2], traversals, CapacityOf(pair[1].resource))
     THEN None
     ELSE IF IsHeadOnOnEdge(pair[1], pair[2]) THEN "head_on"
     ELSE IF IsFollowing(pair[1], pair[2]) THEN "edge"
     ELSE None]

EdgeCandidates(traversals) ==
  LET On(edge) == Where(traversals, {c \in Seqs!ToSet(traversals) : c.edge = edge})
  IN  Seqs!FlattenSeq([k \in DOMAIN EdgeIds |->
        PairsOf(On(EdgeIds[k]), EdgeType(Seqs!ToSet(On(EdgeIds[k]))))])

(* In a corridor of one lane the direction decides before the capacity.    *)
CorridorType(passages) ==
  [pair \in passages \X passages |->
     LET corridor == pair[1].resource
     IN  IF IsHeadOnInCorridor(Corridors[corridor], CapacityOf(corridor), pair[1], pair[2])
         THEN "head_on"
         ELSE IF IsCapacityConflict(pair[1], pair[2], passages, CapacityOf(corridor))
         THEN "corridor"
         ELSE None]

CorridorCandidates(passages) == PairsOf(passages, CorridorType(Seqs!ToSet(passages)))

(* At an intersection conflict groups decide, and not the number there.    *)
CrossingType(crossings) ==
  [pair \in crossings \X crossings |->
     IF /\ pair[1].resource = pair[2].resource
        /\ IsCrossing(Intersections[pair[1].resource], pair[1], pair[2])
     THEN "crossing" ELSE None]

CrossingCandidates(crossings) == PairsOf(crossings, CrossingType(Seqs!ToSet(crossings)))

(* holds_resource.                                                         *)
Held(grants) == Where(grants, {grant \in Seqs!ToSet(grants) : grant.state \in Holding})

ReservationType(held) ==
  [pair \in held \X held |->
     IF IsCapacityConflict(pair[1], pair[2], held, CapacityOf(pair[1].resource))
     THEN "resource" ELSE None]

ReservationCandidates(grants) == PairsOf(Held(grants), ReservationType(Seqs!ToSet(Held(grants))))

(* Slip: whatever wants what is held is in its way, room for it or not.    *)
MeetsInsteadOfExceeds(grant, claim, holders) == IsTemporalConflict(grant, claim)

ExceedsWith(grant, claim, holders) ==
  IsCapacityConflict(grant, claim, holders, CapacityOf(claim.resource))

(* A route that wants what a reservation withholds.                        *)
ReservationRouteCandidates(grants, claims) ==
  LET held == Held(grants)
      holders == Seqs!ToSet(held) \cup Seqs!ToSet(claims)
      Against(grant) ==
        LET met == Where(claims, {c \in Seqs!ToSet(claims) : ExceedsWith(grant, c, holders)})
        IN  [k \in DOMAIN met |-> Candidate(grant, met[k], met[k].resource, "temporal")]
  IN  Seqs!FlattenSeq([i \in DOMAIN held |-> Against(held[i])])

(* reduce and make_conflict: what is told of a candidate.                  *)
Told(c, t) ==
  [type |-> c.type, start |-> c.overlap.start,
   severity |-> SeverityFor(c.type, c.overlap, t)]

(* What all routes claim (collect), reading by reading.                    *)
AllVisits(fleet) == Seqs!FlattenSeq([i \in DOMAIN fleet |-> NodeVisits(fleet[i])])
AllTraversals(fleet) == Seqs!FlattenSeq([i \in DOMAIN fleet |-> EdgeTraversals(fleet[i])])
AllPassages(fleet) == Seqs!FlattenSeq([i \in DOMAIN fleet |-> CorridorPassages(fleet[i])])
AllCrossings(fleet) ==
  Seqs!FlattenSeq([i \in DOMAIN fleet |-> IntersectionCrossings(fleet[i])])

Candidates(fleet, grants) ==
  LET visits     == AllVisits(fleet)
      traversals == AllTraversals(fleet)
      passages   == AllPassages(fleet)
      crossings  == AllCrossings(fleet)
  IN  NodeCandidates(visits) \o EdgeCandidates(traversals)
        \o CorridorCandidates(passages) \o CrossingCandidates(crossings)
        \o ReservationCandidates(grants)
        \o ReservationRouteCandidates(grants,
             visits \o traversals \o passages \o crossings)

Best(candidates) == Seqs!FoldLeft(Keep, [key \in {} |-> None], candidates)

Detect(fleet, grants, t) ==
  LET best == Best(Candidates(fleet, grants))
  IN  [key \in DOMAIN best |-> Told(best[key], t)]
-----------------------------------------------------------------------------
(* The fleet.                                                              *)

Answer == conflicts' = Detect(routes', reservations', now')

Without(seq, robot) == Where(seq, {x \in Seqs!ToSet(seq) : x.robot # robot})

HasRoom == Len(routes) + Len(reservations) < MaxQuery

(* A robot without a route takes one up.                                   *)
TakeUp(route) ==
  /\ HasRoom
  /\ \A i \in DOMAIN routes : routes[i].robot # route.robot
  /\ routes' = Append(routes, route)
  /\ UNCHANGED <<reservations, now>>
  /\ Answer

GiveUp(robot) ==
  /\ \E i \in DOMAIN routes : routes[i].robot = robot
  /\ routes' = Without(routes, robot)
  /\ UNCHANGED <<reservations, now>>
  /\ Answer

(* A reservation comes to be known, or is known to have changed.           *)
Reserve(grant) ==
  /\ HasRoom
  /\ \A i \in DOMAIN reservations : reservations[i].id # grant.id
  /\ reservations' = Append(reservations, grant)
  /\ UNCHANGED <<routes, now>>
  /\ Answer

EndReservation(i) ==
  /\ reservations[i].state \notin Terminal
  /\ reservations' = [reservations EXCEPT ![i].state = "released"]
  /\ UNCHANGED <<routes, now>>
  /\ Answer

(* History need not be handed over for ever.                               *)
Forget(i) ==
  /\ reservations[i].state \in Terminal
  /\ reservations' = Seqs!RemoveAt(reservations, i)
  /\ UNCHANGED <<routes, now>>
  /\ Answer

Tick ==
  /\ \E t \in Clock : t > now /\ now' = t
  /\ UNCHANGED <<routes, reservations>>
  /\ Answer

Init ==
  /\ routes = << >>
  /\ reservations = << >>
  /\ now \in Clock
  /\ conflicts = Detect(routes, reservations, now)

Next ==
  \/ \E route \in Intents : TakeUp(route)
  \/ \E robot \in Robot : GiveUp(robot)
  \/ \E grant \in Grants : Reserve(grant)
  \/ \E i \in DOMAIN reservations : EndReservation(i) \/ Forget(i)
  \/ Tick

Spec == Init /\ [][Next]_vars
-----------------------------------------------------------------------------
(* What maps and routes are drawn and planned for, and neither a map file  *)
(* nor make_route is refused for lacking.                                  *)

(* Edges that share a resource share a corridor, and no edge is named as a *)
(* node.                                                                   *)
SharedEdgesAreLanes ==
  \A e, f \in Seqs!ToSet(EdgeIds) :
    /\ ResourceOfEdge(e) \notin Seqs!ToSet(NodeIds)
    /\ e # f /\ ResourceOfEdge(e) = ResourceOfEdge(f) => ResourceOfEdge(e) \in DOMAIN Corridors

(* A route is timed in the order it is driven.                             *)
TimeRunsForward ==
  \A route \in Intents : \A i, j \in DOMAIN route.segments :
    LET earlier == route.segments[i].window
        later   == route.segments[j].window
    IN  i < j /\ earlier # None /\ later # None
          => earlier.start <= later.start /\ earlier.end <= later.end

(* A corridor is a line: it comes by no node twice.                        *)
CorridorsAreLines ==
  \A corridor \in DOMAIN Corridors :
    LET order == CorridorNodeOrder(Corridors[corridor])
    IN  /\ order \in Seq(Seqs!ToSet(NodeIds))
        /\ \A i, j \in DOMAIN order : order[i] = order[j] => i = j

(* Routes go along it from node to next node, and do not turn back in it.  *)
GoesOnAlong(route, i, corridor) ==
  LET order == CorridorNodeOrder(Corridors[corridor])
  IN  /\ \E k \in 1..(Len(order) - 1) :
           {route.nodes[i], route.nodes[i + 1]} = {order[k], order[k + 1]}
      /\ InCorridor(route, i + 1, corridor) => route.nodes[i] # route.nodes[i + 2]

RoutesFollowCorridors ==
  \A route \in Intents, corridor \in DOMAIN Corridors : \A i \in DOMAIN route.segments :
    InCorridor(route, i, corridor) => GoesOnAlong(route, i, corridor)

(* An intersection has a name of its own.                                  *)
CrossroadsAreNamed ==
  \A place \in DOMAIN Intersections :
    /\ place \notin Seqs!ToSet(NodeIds) \cup DOMAIN Corridors
    /\ \A edge \in Seqs!ToSet(EdgeIds) : ResourceOfEdge(edge) # place
-----------------------------------------------------------------------------
(* Correctness.  What is compared is read off the routes and reservations  *)
(* instant by instant, with no passes and no passages.                     *)

(* By its route the robot drives through the place at t, or pauses between *)
(* two edges of one corridor, or stands at the place.                      *)
DrivesAt(route, i, place, t) ==
  /\ i \in DOMAIN route.segments
  /\ ResourceOfEdge(route.segments[i].edge) = place
  /\ route.segments[i].window # None
  /\ Contains(route.segments[i].window, t)

PausesAt(route, i, place, t) ==
  /\ place \in DOMAIN Corridors
  /\ InCorridor(route, i, place) /\ InCorridor(route, i + 1, place)
  /\ route.segments[i].window.end <= t /\ t < route.segments[i + 1].window.start

PassesAt(route, i, place, t) == DrivesAt(route, i, place, t) \/ PausesAt(route, i, place, t)

StandsAt(route, i, place, t) ==
  /\ i \in DOMAIN route.nodes
  /\ place = IF IntersectionAt(route.nodes[i]) = None THEN route.nodes[i]
             ELSE IntersectionAt(route.nodes[i])
  /\ NodeWindow(route, i) # None
  /\ Contains(NodeWindow(route, i), t)

ClaimantsAt(place, t) ==
  {route.robot : route \in
     {r \in Seqs!ToSet(routes) :
        \E i \in DOMAIN r.nodes : PassesAt(r, i, place, t) \/ StandsAt(r, i, place, t)}}

HoldersAt(place, t) ==
  {grant.robot : grant \in
     {g \in Seqs!ToSet(reservations) :
        g.state \in Holding /\ g.resource = place /\ Contains(g.window, t)}}

PresentAt(place, t) == ClaimantsAt(place, t) \cup HoldersAt(place, t)

Reported(a, b, place) ==
  {<<a, b, place>>, <<b, a, place>>} \cap DOMAIN conflicts # {}

(* Each of `left' is in conflict with each other of `right'.               *)
AllMeet(left, right, place) ==
  \A a \in left, b \in right : a # b => Reported(a, b, place)

(* Two ways through an intersection that cannot be taken together.         *)
Excludes(place, m, n) ==
  \/ None \in {m, n}
  \/ /\ Cardinality({m, n}) = 2
     /\ \E group \in Intersections[place].groups : {m, n} \subseteq group

(* Two routes take such ways, and are there at t.                          *)
CannotCross(a, b, place, t) ==
  \E r, s \in Seqs!ToSet(routes) : \E i \in DOMAIN r.nodes, j \in DOMAIN s.nodes :
    /\ r.robot = a /\ s.robot = b /\ a # b
    /\ place \in DOMAIN Intersections
    /\ StandsAt(r, i, place, t) /\ StandsAt(s, j, place, t)
    /\ Excludes(place, MovementAt(r, i), MovementAt(s, j))

(* Two routes run against each other in a corridor of one lane at t, not   *)
(* necessarily on one edge.                                                *)
RunsForward(route, i, corridor) ==
  \E k \in 1..(Len(CorridorNodeOrder(corridor)) - 1) :
    /\ CorridorNodeOrder(corridor)[k] = route.nodes[i]
    /\ CorridorNodeOrder(corridor)[k + 1] = route.nodes[i + 1]

CannotPass(a, b, place, t) ==
  \E r, s \in Seqs!ToSet(routes) :
    \E i \in DOMAIN r.segments, j \in DOMAIN s.segments :
      /\ r.robot = a /\ s.robot = b /\ a # b
      /\ place \in DOMAIN Corridors
      /\ CanDeadlockHeadOn(Corridors[place], CapacityOf(place))
      /\ PassesAt(r, i, place, t) /\ PassesAt(s, j, place, t)
      /\ ~(RunsForward(r, i, Corridors[place]) <=> RunsForward(s, j, Corridors[place]))

TooMany(robots, place) == Cardinality(robots) > CapacityOf(place)

(* Routes alone, by which at intersections the movement decides.           *)
RoutesThatCrowdMeet(place, t) ==
  TooMany(ClaimantsAt(place, t), place) /\ place \notin DOMAIN Intersections =>
    AllMeet(ClaimantsAt(place, t), ClaimantsAt(place, t), place)

(* Grants, and what routes want beside them.                               *)
GrantsThatCrowdMeet(place, t) ==
  /\ TooMany(HoldersAt(place, t), place) =>
       AllMeet(HoldersAt(place, t), HoldersAt(place, t), place)
  /\ TooMany(PresentAt(place, t), place) =>
       AllMeet(ClaimantsAt(place, t), HoldersAt(place, t), place)

(* "A missing claim that hides a collision is the one failure this module  *)
(* cannot have": whenever a place would hold more robots than it has room  *)
(* for, every two of the routes that make it so are in conflict there,     *)
(* every two of the grants, and every route with every grant, although the *)
(* passes sample a few instants and count different holders.               *)
EveryContentionIsFound ==
  \A place \in Places, t \in Instants :
    RoutesThatCrowdMeet(place, t) /\ GrantsThatCrowdMeet(place, t)

(* A reported conflict happens: at some instant from its start on both     *)
(* robots are in the place, by route or by grant, and either it is full    *)
(* beyond its room or their ways through it exclude each other.  A robot   *)
(* is counted once, however many segments, visits and grants it has there. *)
NoFalseAlarm ==
  \A key \in DOMAIN conflicts :
    \E t \in Instants :
      /\ t >= conflicts[key].start
      /\ {key[1], key[2]} \subseteq PresentAt(key[3], t)
      /\ \/ Cardinality(PresentAt(key[3], t)) > CapacityOf(key[3])
         \/ CannotCross(key[1], key[2], key[3], t)

(* What waiting does not solve is told as such, whatever else is said of   *)
(* the same two robots and place: routes against each other in one lane    *)
(* are head on and never of low severity, exclusive movements cross.       *)
ExclusionIsNamed ==
  \A a, b \in Robot, place \in Places, t \in Instants :
    a < b =>
      /\ CannotPass(a, b, place, t) =>
           /\ Reported(a, b, place)
           /\ conflicts[<<a, b, place>>].type = "head_on"
           /\ conflicts[<<a, b, place>>].severity # "low"
      /\ CannotCross(a, b, place, t) =>
           /\ Reported(a, b, place)
           /\ conflicts[<<a, b, place>>].type = "crossing"

(* NFR-003: the same routes and reservations give the same conflicts, in   *)
(* whatever order they are handed over; here in the order SetToSeq lists   *)
(* them, which is one for all orders they came in.                         *)
OrderDecidesNothing ==
  conflicts = Detect(Seqs!SetToSeq(Seqs!ToSet(routes)),
                     Seqs!SetToSeq(Seqs!ToSet(reservations)), now)

(* Another route or another reservation adds conflicts and may make one    *)
(* say more; it takes none away.                                           *)
MoreTrafficHidesNothing ==
  [][/\ Seqs!IsPrefix(routes, routes')
     /\ Seqs!IsPrefix(reservations, reservations')
     => \A key \in DOMAIN conflicts :
          /\ key \in DOMAIN conflicts'
          /\ Precedence(conflicts'[key].type) >= Precedence(conflicts[key].type)
    ]_vars
=============================================================================
