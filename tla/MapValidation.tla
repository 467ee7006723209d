---------------------------- MODULE MapValidation ----------------------------
(***************************************************************************)
(* What becomes of a map before anything trusts it: MapData is edited      *)
(* outside the repository, make_map takes it over, validates it and builds *)
(* the Map that planner, reservation table and conflict detector look      *)
(* things up in.  RouteMap and ConflictDetector take such a map for        *)
(* granted.                                                                *)
(*                                                                         *)
(* Map data are lists of elements, each with an id that may occur twice.   *)
(* Names are model values; a drawn corridor has edges, and a drawn element *)
(* a name: what a file may hold beside that is in MapFile.                 *)
(***************************************************************************)
EXTENDS Integers, Sequences, FiniteSets

Seqs == INSTANCE SequencesExt

CONSTANTS
  None,              \* std::nullopt
  Name,              \* of nodes, edges, resources and movements alike
  Blank,             \* the empty name
  FirstDraft,        \* the site as it was first drawn
  Parts,             \* the elements an editor may add, by list
  MaxEdits           \* bound: edits of a draft

Lists == {"nodes", "edges", "corridors", "intersections", "bays"}

Directions == {"forward", "reverse", "bidirectional"}

(* What is drawn is complete: a resource has a name, and a corridor edges, *)
(* as make_corridor, make_intersection and make_waiting_bay insist; a node *)
(* or an edge may be called nothing.                                       *)
Node == [id : Name, capacity : Nat]

Edge ==
  [id : Name, from : Name, to : Name, direction : Directions, enabled : BOOLEAN,
   length : Int, speed_limit : Int, capacity : Nat, resource : Name \cup {None}]

Corridor ==
  [id : Name \ {Blank}, entry : Name, exit : Name, edges : Seq(Name) \ {<< >>}, capacity : Nat]

Intersection ==
  [id : Name \ {Blank}, nodes : SUBSET Name, movements : SUBSET Name,
   groups : SUBSET SUBSET Name, capacity : Nat]

Bay == [id : Name \ {Blank}, node : Name, capacity : Nat]

MapData ==
  [nodes : Seq(Node), edges : Seq(Edge), corridors : Seq(Corridor),
   intersections : Seq(Intersection), bays : Seq(Bay)]

ASSUME PartsAssumption ==
  /\ None \notin Name /\ Blank \in Name
  /\ FirstDraft \in MapData
  /\ Parts \in [nodes : SUBSET Node, edges : SUBSET Edge, corridors : SUBSET Corridor,
               intersections : SUBSET Intersection, bays : SUBSET Bay]
  /\ MaxEdits \in Nat

VARIABLES
  draft,      \* MapData, as last edited
  edits,      \* how often it was edited
  built,      \* the Map built from it: its data, or None
  report      \* what validate() said of it

vars == <<draft, edits, built, report>>

Ids(list) == {list[i].id : i \in DOMAIN list}

IsPositive(quantity) == quantity > 0

-----------------------------------------------------------------------------
(* Looking things up in a Map.  build_indices keeps the first of equals.   *)

Find(list, id) == Seqs!SelectInSeq(list, LAMBDA part : part.id = id)
Found(list, id) == list[Find(list, id)]

(* is_traversable_from.                                                    *)
MayLeaveBy(edge, node) ==
  /\ edge.enabled
  /\ \/ node = edge.from /\ edge.direction # "reverse"
     \/ node = edge.to /\ edge.direction # "forward"

(* opposite_node.                                                          *)
OppositeNode(edge, node) ==
  CASE node = edge.from -> edge.to
    [] node # edge.from /\ node = edge.to -> edge.from
    [] OTHER -> None

(* Slip: every edge at a node leads away from it.                          *)
IncidentNeighbours(map, node) ==
  {OppositeNode(edge, node) :
     edge \in {e \in Seqs!ToSet(map.edges) : node \in {e.from, e.to}}}

(* neighbours, the order of the file left out.                             *)
Neighbours(map, node) ==
  {OppositeNode(edge, node) :
     edge \in {e \in Seqs!ToSet(map.edges) : MayLeaveBy(e, node)}}

(* reachable_from: breadth first, a ring of neighbours for each node.      *)
ReachableFrom(map, start) ==
  IF start \notin Ids(map.nodes) THEN {}
  ELSE Seqs!FoldLeft(
         LAMBDA seen, any : seen \cup UNION {Neighbours(map, node) : node \in seen},
         {start}, map.nodes)

(* is_reachable: the same search, over when it meets the goal.             *)
IsReachable(map, start, goal) ==
  goal \in Ids(map.nodes) /\ goal \in ReachableFrom(map, start)

(* resource_for_edge and edges_for_resource.                               *)
ResourceForEdge(map, id) ==
  LET edge == Found(map.edges, id)
  IN  IF edge.resource = None THEN edge.id ELSE edge.resource

(* capacity_of: the resource that owns the name, or else the edge or node  *)
(* that is it, or else one.                                                *)
CapacityOf(map, name) ==
  LET owners == map.corridors \o map.intersections \o map.bays \o map.edges \o map.nodes
  IN  IF name \in Ids(owners) THEN Found(owners, name).capacity ELSE 1
-----------------------------------------------------------------------------
(* validate.  An issue names its kind and its subject.                     *)

Issue(severity, kind, subject) ==
  [severity |-> severity, kind |-> kind, subject |-> subject]

Error(kind, subject) == Issue("error", kind, subject)
Errors(kind, subjects) == {Error(kind, id) : id \in subjects}

(* check_duplicates: the second and later sightings.                       *)
Repeated(list) ==
  {list[i].id : i \in {j \in DOMAIN list : \E k \in 1..(j - 1) : list[k].id = list[j].id}}

(* Slip: each kind of resource has its names to itself.                    *)
DuplicatesByKind(data) ==
  Errors("duplicate_node_id", Repeated(data.nodes))
    \cup Errors("duplicate_edge_id", Repeated(data.edges))
    \cup Errors("duplicate_resource_id",
                (Repeated(data.corridors) \cup Repeated(data.intersections)
                   \cup Repeated(data.bays)) \ {Blank})

(* Corridors, intersections and bays share one space of names, where no    *)
(* name is none; two nodes called nothing are called the same.             *)
Duplicates(data) ==
  Errors("duplicate_node_id", Repeated(data.nodes))
    \cup Errors("duplicate_edge_id", Repeated(data.edges))
    \cup Errors("duplicate_resource_id",
                Repeated(data.corridors \o data.intersections \o data.bays) \ {Blank})

(* The ids of elements of a list that fail a check.                        *)
Failing(list, Check(_)) ==
  {part.id : part \in {p \in Seqs!ToSet(list) : ~Check(p)}}

HasRoom(part) == IsPositive(part.capacity)

NodeErrors(data) == Errors("invalid_node_capacity", Failing(data.nodes, HasRoom))

EdgeErrors(data) ==
  LET EndsResolve(edge)  == {edge.from, edge.to} \subseteq Ids(data.nodes)
      LeadsAway(edge)    == edge.from # edge.to
      HasLength(edge)    == IsPositive(edge.length)
      HasSpeed(edge)     == IsPositive(edge.speed_limit)
  IN  Errors("dangling_edge_endpoint", Failing(data.edges, EndsResolve))
        \cup Errors("self_loop_edge", Failing(data.edges, LeadsAway))
        \cup Errors("invalid_edge_length", Failing(data.edges, HasLength))
        \cup Errors("invalid_edge_speed_limit", Failing(data.edges, HasSpeed))
        \cup Errors("invalid_edge_capacity", Failing(data.edges, HasRoom))

(* Slip: the edges join up, wherever they come out.                        *)
JoinsUp(data, corridor) ==
  Seqs!FoldLeft(
    LAMBDA cursor, id :
      IF cursor = None THEN None ELSE OppositeNode(Found(data.edges, id), cursor),
    corridor.entry, corridor.edges) # None

(* Followed from its entry, edge by edge, a corridor comes out at its exit. *)
IsContiguous(data, corridor) ==
  Seqs!FoldLeft(
    LAMBDA cursor, id :
      IF cursor = None THEN None ELSE OppositeNode(Found(data.edges, id), cursor),
    corridor.entry, corridor.edges) = corridor.exit

CorridorErrors(data) ==
  LET EndsResolve(corridor)  == {corridor.entry, corridor.exit} \subseteq Ids(data.nodes)
      EdgesResolve(corridor) == Seqs!ToSet(corridor.edges) \subseteq Ids(data.edges)
      LeadsThrough(corridor) ==
        EdgesResolve(corridor) /\ corridor.edges # << >> => IsContiguous(data, corridor)
  IN  Errors("invalid_resource_capacity", Failing(data.corridors, HasRoom))
        \cup Errors("dangling_resource_member",
                    Failing(data.corridors, EndsResolve)
                      \cup Failing(data.corridors, EdgesResolve))
        \cup Errors("corridor_not_contiguous", Failing(data.corridors, LeadsThrough))

IntersectionErrors(data) ==
  LET NodesResolve(crossing) == crossing.nodes \subseteq Ids(data.nodes)
      GroupsResolve(crossing) == UNION crossing.groups \subseteq crossing.movements
  IN  Errors("invalid_resource_capacity", Failing(data.intersections, HasRoom))
        \cup Errors("dangling_resource_member", Failing(data.intersections, NodesResolve))
        \cup Errors("unknown_movement_in_conflict_group",
                    Failing(data.intersections, GroupsResolve))

BayErrors(data) ==
  LET NodeResolves(bay) == bay.node \in Ids(data.nodes)
  IN  Errors("invalid_resource_capacity", Failing(data.bays, HasRoom))
        \cup Errors("dangling_resource_member", Failing(data.bays, NodeResolves))

(* Looked at only where nothing else is wrong.                             *)
StructureWarnings(data) ==
  LET touched == UNION {{edge.from, edge.to} : edge \in Seqs!ToSet(data.edges)}
      missed  == Ids(data.nodes) \ ReachableFrom(data, data.nodes[1].id)
  IN  {Issue("warning", "orphan_node", id) : id \in Ids(data.nodes) \ touched}
        \cup {Issue("warning", "unreachable_node", id) : id \in missed}
        \cup {Issue("warning", "disconnected_graph", None) : id \in missed}

Validate(data) ==
  LET errors == Duplicates(data) \cup NodeErrors(data) \cup EdgeErrors(data)
                  \cup CorridorErrors(data) \cup IntersectionErrors(data)
                  \cup BayErrors(data)
  IN  IF errors = {} /\ data.nodes # << >> THEN StructureWarnings(data) ELSE errors

(* is_valid: warnings do not make a map invalid.                           *)
IsValid(issues) == \A issue \in issues : issue.severity # "error"
-----------------------------------------------------------------------------
(* The editor: an element more, one less, an element of another kind, in   *)
(* any order.  A Map keeps its own copy: the next one is built anew.       *)
Edit(list, elements) ==
  /\ edits < MaxEdits
  /\ edits' = edits + 1
  /\ draft' = [draft EXCEPT ![list] = elements]
  /\ built' = None
  /\ report' = {}

Add(list, part) == Edit(list, Append(draft[list], part))

Remove(list, i) == Edit(list, Seqs!RemoveAt(draft[list], i))

(* make_map: the report, and where it holds no error the map.              *)
MakeMap ==
  /\ report' = Validate(draft)
  /\ built' = IF IsValid(report') THEN draft ELSE None
  /\ UNCHANGED <<draft, edits>>

Init ==
  /\ draft = FirstDraft
  /\ edits = 0
  /\ built = None
  /\ report = {}

Next ==
  \/ \E list \in Lists : \E part \in Parts[list] : Add(list, part)
  \/ \E list \in Lists : \E i \in DOMAIN draft[list] : Remove(list, i)
  \/ MakeMap

Spec == Init /\ [][Next]_vars
-----------------------------------------------------------------------------
(* Correctness: what everyone who looks things up in a Map relies on,      *)
(* whatever was edited before.                                             *)

HasMap == built # None

Resources(map) == map.corridors \o map.intersections \o map.bays

(* A map holds no name that means two things to a reservation, which says  *)
(* a resource without its kind, and nothing a robot can be refused for     *)
(* ever: whatever may be reserved admits somebody (extend() relies on it). *)
(* A move along an edge ends at a node of the map.                         *)
NamesCanBeTrusted ==
  HasMap =>
    /\ \A list \in {built.nodes, built.edges, Resources(built)} :
         \A i \in DOMAIN list : Found(list, list[i].id) = list[i] /\ Find(list, list[i].id) = i
    /\ \A name \in Ids(built.nodes) \cup Ids(built.edges) \cup Ids(Resources(built))
                    \cup {ResourceForEdge(built, id) : id \in Ids(built.edges)} :
         CapacityOf(built, name) >= 1
    /\ \A node \in Ids(built.nodes) : Neighbours(built, node) \subseteq Ids(built.nodes)

(* Nodes, one more than edges, each edge between two that follow.          *)
IsPassage(map, edges, from, to) ==
  \E order \in [0..Len(edges) -> Ids(map.nodes)] :
    /\ order[0] = from /\ order[Len(edges)] = to
    /\ \A i \in DOMAIN edges :
         LET edge == Found(map.edges, edges[i])
         IN  {order[i - 1], order[i]} = {edge.from, edge.to}

(* A corridor is one passage, whichever end it is entered by, and the      *)
(* movements that exclude each other are ways through their intersection:  *)
(* reserving it reserves a way that leads where the robot thinks.          *)
ResourcesLeadThrough ==
  HasMap =>
    /\ \A corridor \in Seqs!ToSet(built.corridors) :
         /\ IsPassage(built, corridor.edges, corridor.entry, corridor.exit)
         /\ IsPassage(built, Seqs!Reverse(corridor.edges), corridor.exit, corridor.entry)
    /\ \A crossing \in Seqs!ToSet(built.intersections) :
         \A group \in crossing.groups : group \subseteq crossing.movements
    /\ \A bay \in Seqs!ToSet(built.bays) : bay.node \in Ids(built.nodes)

(* A way a robot may drive, through no node twice.                         *)
IsWay(map, way) ==
  \A i \in 1..(Len(way) - 1) :
    \E edge \in Seqs!ToSet(map.edges) :
      \/ edge.enabled /\ way[i] = edge.from /\ way[i + 1] = edge.to
           /\ edge.direction \in {"forward", "bidirectional"}
      \/ edge.enabled /\ way[i] = edge.to /\ way[i + 1] = edge.from
           /\ edge.direction \in {"reverse", "bidirectional"}

CanDrive(map, start, goal) ==
  \E length \in 1..Len(map.nodes) :
    \E way \in [1..length -> Ids(map.nodes)] :
      way[1] = start /\ way[length] = goal /\ IsWay(map, way)

(* is_reachable says yes exactly where some sequence of legal moves leads  *)
(* there, one-way and disabled edges respected, and validation warns of a  *)
(* node exactly where no robot gets there from the first: the map is       *)
(* accepted all the same.                                                  *)
ReachabilityIsTrue ==
  HasMap =>
    LET nodes == Ids(built.nodes)
        first == built.nodes[1].id
    IN  /\ \A start, goal \in nodes :
             IsReachable(built, start, goal) <=> CanDrive(built, start, goal)
        /\ {issue.subject : issue \in {i \in report : i.kind = "unreachable_node"}}
             = {goal \in nodes : ~CanDrive(built, first, goal)}
=============================================================================
