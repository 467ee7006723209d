------------------------------ MODULE MapProofs ------------------------------
(***************************************************************************)
(* What whoever looks things up in a Map relies on, for every site, every  *)
(* file and however long they were edited.                                 *)
(***************************************************************************)
EXTENDS MapFile, FiniteSetFacts, SequenceTheorems

-----------------------------------------------------------------------------
(* Looking up.                                                             *)
Sightings(list, id) == {i \in 1..Len(list) : list[i].id = id}

First(s) == CHOOSE x \in s : \A y \in s : x <= y

LEMMA FindMeans ==
  ASSUME NEW list, NEW id
  PROVE  Find(list, id) = IF Sightings(list, id) # {} THEN First(Sightings(list, id)) ELSE 0
BY DEF Find, Seqs!SelectInSeq, Seqs!Min, Sightings, First

(* What is in a list is found, and it is found by its name.                *)
LEMMA FoundByName ==
  ASSUME NEW V, NEW list \in Seq(V), NEW id \in Ids(list)
  PROVE  /\ Find(list, id) \in DOMAIN list
         /\ Found(list, id) \in V
         /\ Found(list, id).id = id
<1> DEFINE S == Sightings(list, id)
<1>1. S \in SUBSET Nat /\ S # {} /\ S \subseteq DOMAIN list
  BY DEF Sightings, Ids
<1>2. \A i \in S : list[i].id = id
  BY DEF Sightings
<1> HIDE DEF S
<1>3. First(S) \in S
  <2>1. PICK m \in S : \A x \in S : m <= x
    BY <1>1, LeastNatural
  <2>. QED  BY <2>1 DEF First
<1>4. Find(list, id) = First(S)
  BY <1>1, FindMeans DEF S
<1>5. Find(list, id) \in DOMAIN list /\ list[Find(list, id)].id = id
  BY <1>1, <1>2, <1>3, <1>4
<1>6. list[Find(list, id)] \in V
  BY <1>5
<1>. QED  BY <1>5, <1>6 DEF Found

(* No second sightings: each is found where it stands.                     *)
LEMMA FoundInPlace ==
  ASSUME NEW V, NEW list \in Seq(V), Repeated(list) = {}, NEW i \in DOMAIN list
  PROVE  Find(list, list[i].id) = i /\ Found(list, list[i].id) = list[i]
<1>1. \A j \in DOMAIN list : \A k \in 1..(j - 1) : list[k].id # list[j].id
  BY DEF Repeated
<1>2. list[i].id \in Ids(list)
  BY DEF Ids
<1> DEFINE j == Find(list, list[i].id)
<1>3. j \in DOMAIN list /\ list[j].id = list[i].id
  BY <1>2, FoundByName DEF Found
<1> HIDE DEF j
<1>4. i \in 1..Len(list) /\ j \in 1..Len(list) /\ Len(list) \in Nat
  BY <1>3
<1>5. j = i
  <2>1. CASE j < i
    <3>1. j \in 1..(i - 1)
      BY <1>4, <2>1
    <3>. QED  BY <1>1, <1>3, <3>1
  <2>2. CASE i < j
    <3>1. i \in 1..(j - 1)
      BY <1>4, <2>2
    <3>. QED  BY <1>1, <1>3, <3>1
  <2>. QED  BY <1>4, <2>1, <2>2
<1>. QED  BY <1>5 DEF j, Found

-----------------------------------------------------------------------------
(* A map without errors, check by check.                                   *)
Clean(data) ==
  /\ Repeated(data.nodes) = {} /\ Repeated(data.edges) = {}
  /\ Repeated(Resources(data)) = {}
  /\ \A list \in {data.nodes, data.edges, data.corridors, data.intersections, data.bays} :
       \A part \in Seqs!ToSet(list) : part.capacity > 0
  /\ \A edge \in Seqs!ToSet(data.edges) :
       /\ edge.from \in Ids(data.nodes) /\ edge.to \in Ids(data.nodes)
       /\ edge.from # edge.to
       /\ edge.speed_limit > 0
  /\ \A corridor \in Seqs!ToSet(data.corridors) :
       /\ corridor.entry \in Ids(data.nodes) /\ corridor.exit \in Ids(data.nodes)
       /\ \A i \in DOMAIN corridor.edges : corridor.edges[i] \in Ids(data.edges)
       /\ corridor.edges # << >> => IsContiguous(data, corridor)
  /\ \A crossing \in Seqs!ToSet(data.intersections) :
       \A group \in crossing.groups : group \subseteq crossing.movements
  /\ \A bay \in Seqs!ToSet(data.bays) : bay.node \in Ids(data.nodes)

LEMMA NoErrors ==
  ASSUME NEW kind, NEW subjects, Errors(kind, subjects) = {}
  PROVE  subjects = {}
BY DEF Errors

ErrorsOf(data) ==
  Duplicates(data) \cup NodeErrors(data) \cup EdgeErrors(data) \cup CorridorErrors(data)
    \cup IntersectionErrors(data) \cup BayErrors(data)

(* An error is an error: make_map takes over what has none.                *)
LEMMA ErrorsInvalidate ==
  ASSUME NEW data, IsValid(Validate(data))
  PROVE  ErrorsOf(data) = {}
<1>1. SUFFICES ASSUME ErrorsOf(data) # {} PROVE FALSE
  OBVIOUS
<1>2. Validate(data) = ErrorsOf(data)
  BY <1>1 DEF Validate, ErrorsOf
<1>3. \A issue \in ErrorsOf(data) : issue.severity = "error"
  <2>1. \A kind, subjects : \A issue \in Errors(kind, subjects) : issue.severity = "error"
    BY DEF Errors, Error, Issue
  <2> HIDE DEF Errors
  <2>2. \A issue \in Duplicates(data) \cup NodeErrors(data) : issue.severity = "error"
    BY <2>1 DEF Duplicates, NodeErrors
  <2>3. \A issue \in EdgeErrors(data) : issue.severity = "error"
    BY <2>1 DEF EdgeErrors
  <2>4. \A issue \in CorridorErrors(data) : issue.severity = "error"
    BY <2>1 DEF CorridorErrors
  <2>5. \A issue \in IntersectionErrors(data) \cup BayErrors(data) : issue.severity = "error"
    BY <2>1 DEF IntersectionErrors, BayErrors
  <2>. QED  BY <2>2, <2>3, <2>4, <2>5 DEF ErrorsOf
<1>. QED  BY <1>1, <1>2, <1>3 DEF IsValid

LEMMA JoinListed ==
  ASSUME NEW V, NEW s \in Seq(V), NEW t \in Seq(V)
  PROVE  /\ s \o t \in Seq(V)
         /\ Seqs!ToSet(s \o t) = Seqs!ToSet(s) \cup Seqs!ToSet(t)
<1>1. /\ s \o t \in Seq(V) /\ Len(s \o t) = Len(s) + Len(t)
      /\ \A i \in 1..Len(s) + Len(t) : (s \o t)[i] = IF i <= Len(s) THEN s[i] ELSE t[i - Len(s)]
  BY ConcatProperties
<1>2. /\ DOMAIN (s \o t) = 1..(Len(s) + Len(t)) /\ DOMAIN s = 1..Len(s) /\ DOMAIN t = 1..Len(t)
      /\ Len(s) \in Nat /\ Len(t) \in Nat
  BY <1>1
<1>3. ASSUME NEW i \in 1..(Len(s) + Len(t))
      PROVE  (s \o t)[i] \in Seqs!ToSet(s) \cup Seqs!ToSet(t)
  <2>1. CASE i <= Len(s)
    BY <1>1, <1>2, <2>1 DEF Seqs!ToSet
  <2>2. CASE ~(i <= Len(s))
    <3>1. i - Len(s) \in 1..Len(t)
      BY <1>2, <2>2
    <3>. QED  BY <1>1, <1>2, <2>2, <3>1 DEF Seqs!ToSet
  <2>. QED  BY <2>1, <2>2
<1>4. ASSUME NEW i \in 1..Len(s)
      PROVE  s[i] \in Seqs!ToSet(s \o t)
  <2>1. i \in 1..(Len(s) + Len(t)) /\ (s \o t)[i] = s[i]
    BY <1>1, <1>2
  <2>. QED  BY <1>2, <2>1 DEF Seqs!ToSet
<1>5. ASSUME NEW i \in 1..Len(t)
      PROVE  t[i] \in Seqs!ToSet(s \o t)
  <2>1. /\ Len(s) + i \in 1..(Len(s) + Len(t)) /\ ~(Len(s) + i <= Len(s))
        /\ (Len(s) + i) - Len(s) = i
    BY <1>2
  <2>2. (s \o t)[Len(s) + i] = t[i]
    BY <1>1, <2>1
  <2>. QED  BY <1>2, <2>1, <2>2 DEF Seqs!ToSet
<1>6. Seqs!ToSet(s \o t) \subseteq Seqs!ToSet(s) \cup Seqs!ToSet(t)
  BY <1>2, <1>3 DEF Seqs!ToSet
<1>7. Seqs!ToSet(s) \cup Seqs!ToSet(t) \subseteq Seqs!ToSet(s \o t)
  BY <1>2, <1>4, <1>5 DEF Seqs!ToSet
<1>. QED  BY <1>1, <1>6, <1>7

(* A corridor, an intersection and a bay are called something.             *)
LEMMA ResourcesAreNamed ==
  ASSUME NEW data \in MapData, NEW i \in DOMAIN Resources(data)
  PROVE  Resources(data)[i].id # Blank
<1> DEFINE V == Corridor \cup Intersection \cup Bay
<1>1. \A part \in V : part.id # Blank
  BY DEF Corridor, Intersection, Bay
<1>2. data.corridors \in Seq(V) /\ data.intersections \in Seq(V) /\ data.bays \in Seq(V)
  BY DEF MapData
<1> HIDE DEF V
<1>3. data.corridors \o data.intersections \in Seq(V)
  BY <1>2, JoinListed
<1>4. Resources(data) \in Seq(V)
  BY <1>2, <1>3, JoinListed DEF Resources
<1>5. Resources(data)[i] \in V
  BY <1>4
<1>. QED  BY <1>1, <1>5

LEMMA ValidIsClean ==
  ASSUME NEW data \in MapData, IsValid(Validate(data))
  PROVE  Clean(data)
<1>1. /\ Duplicates(data) = {} /\ NodeErrors(data) = {} /\ EdgeErrors(data) = {}
      /\ CorridorErrors(data) = {} /\ IntersectionErrors(data) = {} /\ BayErrors(data) = {}
  BY ErrorsInvalidate DEF ErrorsOf
<1>2. /\ Repeated(data.nodes) = {} /\ Repeated(data.edges) = {}
      /\ Repeated(Resources(data)) = {}
  <2>1. /\ Repeated(data.nodes) = {} /\ Repeated(data.edges) = {}
        /\ Repeated(Resources(data)) \ {Blank} = {}
    BY <1>1, NoErrors DEF Duplicates, Resources
  <2>2. Blank \notin Repeated(Resources(data))
    <3>1. \A i \in DOMAIN Resources(data) : Resources(data)[i].id # Blank
      BY ResourcesAreNamed
    <3>. QED  BY <3>1 DEF Repeated
  <2>. QED  BY <2>1, <2>2
<1>3. \A part \in Seqs!ToSet(data.nodes) : part.capacity > 0
  BY <1>1 DEF NodeErrors, Errors, Failing, HasRoom, IsPositive
<1>4. \A edge \in Seqs!ToSet(data.edges) :
        /\ edge.capacity > 0
        /\ edge.from \in Ids(data.nodes) /\ edge.to \in Ids(data.nodes)
        /\ edge.from # edge.to
        /\ edge.speed_limit > 0
  BY <1>1 DEF EdgeErrors, Errors, Failing, HasRoom, IsPositive
<1>5. \A corridor \in Seqs!ToSet(data.corridors) :
        /\ corridor.capacity > 0
        /\ corridor.entry \in Ids(data.nodes) /\ corridor.exit \in Ids(data.nodes)
        /\ Seqs!ToSet(corridor.edges) \subseteq Ids(data.edges)
        /\ corridor.edges # << >> => IsContiguous(data, corridor)
  BY <1>1 DEF CorridorErrors, Errors, Failing, HasRoom, IsPositive
<1>6. \A crossing \in Seqs!ToSet(data.intersections) :
        /\ crossing.capacity > 0
        /\ \A group \in crossing.groups : group \subseteq crossing.movements
  BY <1>1 DEF IntersectionErrors, Errors, Failing, HasRoom, IsPositive
<1>7. \A bay \in Seqs!ToSet(data.bays) : bay.capacity > 0 /\ bay.node \in Ids(data.nodes)
  BY <1>1 DEF BayErrors, Errors, Failing, HasRoom, IsPositive
<1>8. \A corridor : \A i \in DOMAIN corridor.edges : corridor.edges[i] \in Seqs!ToSet(corridor.edges)
  BY DEF Seqs!ToSet
<1>. QED  BY <1>2, <1>3, <1>4, <1>5, <1>6, <1>7, <1>8 DEF Clean
-----------------------------------------------------------------------------
(* Names.                                                                  *)
Part == Node \cup Edge \cup Corridor \cup Intersection \cup Bay

LEMMA DataTypes ==
  ASSUME NEW data \in MapData
  PROVE  /\ data.nodes \in Seq(Node) /\ data.edges \in Seq(Edge)
         /\ data.corridors \in Seq(Corridor) /\ data.intersections \in Seq(Intersection)
         /\ data.bays \in Seq(Bay)
         /\ \A list \in {data.nodes, data.edges, data.corridors, data.intersections, data.bays} :
              list \in Seq(Part)
         /\ Resources(data) \in Seq(Part)
<1>1. /\ data.nodes \in Seq(Node) /\ data.edges \in Seq(Edge)
      /\ data.corridors \in Seq(Corridor) /\ data.intersections \in Seq(Intersection)
      /\ data.bays \in Seq(Bay)
  BY DEF MapData
<1>2. /\ data.nodes \in Seq(Part) /\ data.edges \in Seq(Part) /\ data.corridors \in Seq(Part)
      /\ data.intersections \in Seq(Part) /\ data.bays \in Seq(Part)
  BY <1>1 DEF Part
<1>3. Resources(data) \in Seq(Part)
  <2>1. data.corridors \o data.intersections \in Seq(Part)
    BY <1>2, JoinListed
  <2>. QED  BY <1>2, <2>1, JoinListed DEF Resources
<1>. QED  BY <1>1, <1>2, <1>3

LEMMA ListedIsTyped ==
  ASSUME NEW V, NEW list \in Seq(V)
  PROVE  Seqs!ToSet(list) \subseteq V
BY DEF Seqs!ToSet

(* Whatever may be reserved admits somebody.                               *)
LEMMA RoomForSomebody ==
  ASSUME NEW data \in MapData, Clean(data), NEW name
  PROVE  CapacityOf(data, name) >= 1
<1> DEFINE owners == data.corridors \o data.intersections \o data.bays \o data.edges \o data.nodes
<1>1. /\ data.nodes \in Seq(Part) /\ data.edges \in Seq(Part) /\ data.corridors \in Seq(Part)
      /\ data.intersections \in Seq(Part) /\ data.bays \in Seq(Part)
  BY DataTypes
<1>2. /\ owners \in Seq(Part)
      /\ Seqs!ToSet(owners) = Seqs!ToSet(data.corridors) \cup Seqs!ToSet(data.intersections)
                                \cup Seqs!ToSet(data.bays) \cup Seqs!ToSet(data.edges)
                                \cup Seqs!ToSet(data.nodes)
  <2> DEFINE two == data.corridors \o data.intersections
             three == two \o data.bays
             four == three \o data.edges
  <2>1. /\ two \in Seq(Part)
        /\ Seqs!ToSet(two) = Seqs!ToSet(data.corridors) \cup Seqs!ToSet(data.intersections)
    BY <1>1, JoinListed
  <2> HIDE DEF two
  <2>2. three \in Seq(Part) /\ Seqs!ToSet(three) = Seqs!ToSet(two) \cup Seqs!ToSet(data.bays)
    BY <1>1, <2>1, JoinListed
  <2> HIDE DEF three
  <2>3. four \in Seq(Part) /\ Seqs!ToSet(four) = Seqs!ToSet(three) \cup Seqs!ToSet(data.edges)
    BY <1>1, <2>2, JoinListed
  <2> HIDE DEF four
  <2>4. /\ four \o data.nodes \in Seq(Part)
        /\ Seqs!ToSet(four \o data.nodes) = Seqs!ToSet(four) \cup Seqs!ToSet(data.nodes)
    BY <1>1, <2>3, JoinListed
  <2>5. owners = four \o data.nodes
    BY DEF two, three, four
  <2> HIDE DEF owners
  <2>. QED  BY <2>1, <2>2, <2>3, <2>4, <2>5
<1>3. \A part \in Seqs!ToSet(owners) : part.capacity > 0 /\ part.capacity \in Nat
  <2>1. \A part \in Part : part.capacity \in Nat
    BY DEF Part, Node, Edge, Corridor, Intersection, Bay
  <2>2. Seqs!ToSet(owners) \subseteq Part
    BY <1>2, ListedIsTyped
  <2>. QED  BY <1>2, <2>1, <2>2 DEF Clean
<1>4. CapacityOf(data, name) = IF name \in Ids(owners) THEN Found(owners, name).capacity ELSE 1
  BY DEF CapacityOf
<1> HIDE DEF owners
<1>5. ASSUME name \in Ids(owners)
      PROVE  Found(owners, name) \in Seqs!ToSet(owners)
  BY <1>2, <1>5, FoundByName DEF Found, Seqs!ToSet
<1>. QED  BY <1>3, <1>4, <1>5

LEMMA NeighboursAreNodes ==
  ASSUME NEW data \in MapData, Clean(data), NEW node
  PROVE  Neighbours(data, node) \subseteq Ids(data.nodes)
<1>1. ASSUME NEW edge \in Seqs!ToSet(data.edges), MayLeaveBy(edge, node)
      PROVE  OppositeNode(edge, node) \in Ids(data.nodes)
  BY <1>1 DEF Clean, MayLeaveBy, OppositeNode
<1>. QED  BY <1>1 DEF Neighbours

TrustedNames(map) ==
  /\ \A list \in {map.nodes, map.edges, Resources(map)} :
       \A i \in DOMAIN list : Found(list, list[i].id) = list[i] /\ Find(list, list[i].id) = i
  /\ \A name : CapacityOf(map, name) >= 1
  /\ \A node : Neighbours(map, node) \subseteq Ids(map.nodes)

LEMMA CleanNames ==
  ASSUME NEW data \in MapData, Clean(data)
  PROVE  TrustedNames(data)
<1>1. data.nodes \in Seq(Part) /\ data.edges \in Seq(Part) /\ Resources(data) \in Seq(Part)
  BY DataTypes
<1>2. ASSUME NEW list \in {data.nodes, data.edges, Resources(data)}, NEW i \in DOMAIN list
      PROVE  Found(list, list[i].id) = list[i] /\ Find(list, list[i].id) = i
  <2>1. list \in Seq(Part) /\ Repeated(list) = {}
    BY <1>1 DEF Clean
  <2>. QED  BY <2>1, FoundInPlace
<1>. QED  BY <1>2, RoomForSomebody, NeighboursAreNodes DEF TrustedNames
-----------------------------------------------------------------------------
(* Passages.  Following a corridor is going onward from edge to edge.      *)
Onward(data, cursor, id) ==
  IF cursor = None THEN None ELSE OppositeNode(Found(data.edges, id), cursor)

Following(data, from, edges) ==
  CHOOSE iter :
    iter = [s \in SUBSET DOMAIN edges |->
              IF s = {} THEN from
              ELSE Onward(data, iter[s \ {Greatest(s)}], edges[Greatest(s)])]

LEMMA ContiguousIsFollowed ==
  ASSUME NEW data, NEW corridor
  PROVE  IsContiguous(data, corridor)
           <=> Following(data, corridor.entry, corridor.edges)[DOMAIN corridor.edges]
                 = corridor.exit
BY DEF IsContiguous, Seqs!FoldLeft, Seqs!MapThenFoldSet, Seqs!Max, Following, Onward, Greatest

(* stops[k] is where one is after k edges.                                 *)
Stops(stops, data, from, edges, n) ==
  /\ stops \in [0..n -> Name \cup {None}]
  /\ stops[0] = from
  /\ \A k \in 1..n : stops[k] = Onward(data, stops[k - 1], edges[k])
  /\ stops[n] = Following(data, from, edges)[DOMAIN edges]

OnwardStays(data, edges, n) ==
  \A place \in Name \cup {None}, k \in 1..n :
    Onward(data, place, edges[k]) \in Name \cup {None}

LEMMA FollowedEdgeByEdge ==
  ASSUME NEW data, NEW n \in Nat, NEW edges, DOMAIN edges = 1..n,
         NEW from \in Name, OnwardStays(data, edges, n)
  PROVE  \E stops : Stops(stops, data, from, edges, n)
<1> DEFINE V == Name \cup {None}
           step == [x \in V \X (1..n) |-> Onward(data, x[1], edges[x[2]])]
           iter == Following(data, from, edges)
<1>1. step \in [V \X (1..n) -> V] /\ from \in V
  BY DEF OnwardStays
<1>2. \A v \in V, i \in 1..n : step[<<v, i>>] = Onward(data, v, edges[i])
  OBVIOUS
<1>3. \A v \in V, i \in 1..n : Onward(data, v, edges[i]) \in V
  BY DEF OnwardStays
<1> HIDE DEF step, V
<1>4. PICK f : IsFold(f, n, V, from, step)
  BY <1>1, FoldExists
<1>5. f = [s \in SUBSET DOMAIN edges |->
             IF s = {} THEN from
             ELSE Onward(data, f[s \ {Greatest(s)}], edges[Greatest(s)])]
  <2>1. ASSUME NEW s \in SUBSET (1..n), s # {}
        PROVE  f[s] = Onward(data, f[s \ {Greatest(s)}], edges[Greatest(s)])
    <3>1. Greatest(s) \in 1..n
      BY <2>1, GreatestOf
    <3>2. f[s \ {Greatest(s)}] \in V
      BY <1>4 DEF IsFold
    <3>3. f[s] = step[<<f[s \ {Greatest(s)}], Greatest(s)>>]
      BY <1>4, <2>1 DEF IsFold
    <3>. QED  BY <1>2, <3>1, <3>2, <3>3
  <2>2. f[{}] = from /\ f \in [SUBSET (1..n) -> V]
    BY <1>4 DEF IsFold
  <2>. QED  BY <2>1, <2>2
<1>6. iter = [s \in SUBSET DOMAIN edges |->
                IF s = {} THEN from
                ELSE Onward(data, iter[s \ {Greatest(s)}], edges[Greatest(s)])]
  BY <1>5 DEF Following
<1> HIDE DEF iter
<1> DEFINE stops == [k \in 0..n |-> iter[1..k]]
<1>7. stops[0] = from
  <2>1. 1..0 = {}
    OBVIOUS
  <2>. QED  BY <1>6, <2>1
<1>8. ASSUME NEW k \in 1..n
      PROVE  stops[k] = Onward(data, stops[k - 1], edges[k])
  <2>1. /\ 1..k \in SUBSET (1..n) /\ 1..k # {} /\ Greatest(1..k) = k
        /\ (1..k) \ {Greatest(1..k)} = 1..(k - 1)
    BY UpToOneMore
  <2>2. iter[1..k] = Onward(data, iter[(1..k) \ {Greatest(1..k)}], edges[Greatest(1..k)])
    BY <1>6, <2>1
  <2>3. k \in 0..n /\ k - 1 \in 0..n
    OBVIOUS
  <2>. QED  BY <2>1, <2>2, <2>3
<1>9. stops[n] = iter[DOMAIN edges]
  OBVIOUS
<1>10. \A k \in 0..n : stops[k] \in V
  <2> DEFINE P == {k \in 0..n : stops[k] \in V}
  <2> HIDE DEF stops
  <2>1. 0 \in P
    BY <1>1, <1>7
  <2>2. \A k \in 1..n : k - 1 \in P => k \in P
    BY <1>3, <1>8
  <2> HIDE DEF P
  <2>3. 0..n \subseteq P
    BY <2>1, <2>2, InductionUpTo
  <2>. QED  BY <2>3 DEF P
<1>11. stops \in [0..n -> V]
  BY <1>10
<1> HIDE DEF stops
<1>. QED  BY <1>7, <1>8, <1>9, <1>11 DEF Stops, V, iter

(* An edge of the map, by its name.                                        *)
LEMMA EdgeOfMap ==
  ASSUME NEW data \in MapData, Clean(data), NEW id \in Ids(data.edges)
  PROVE  LET edge == Found(data.edges, id)
         IN  /\ edge \in Edge
             /\ edge.from \in Ids(data.nodes) /\ edge.to \in Ids(data.nodes)
             /\ edge.from # edge.to
<1>1. data.edges \in Seq(Edge)
  BY DataTypes
<1>2. /\ Find(data.edges, id) \in DOMAIN data.edges
      /\ Found(data.edges, id) \in Edge
  BY <1>1, FoundByName
<1>3. Found(data.edges, id) \in Seqs!ToSet(data.edges)
  BY <1>2 DEF Found, Seqs!ToSet
<1>. QED  BY <1>2, <1>3 DEF Clean

LEMMA IdsAreNames ==
  ASSUME NEW data \in MapData
  PROVE  Ids(data.nodes) \subseteq Name /\ None \notin Ids(data.nodes)
<1>1. data.nodes \in Seq(Node)
  BY DataTypes
<1>2. \A i \in DOMAIN data.nodes : data.nodes[i].id \in Name
  <2>1. \A i \in DOMAIN data.nodes : data.nodes[i] \in Node
    BY <1>1
  <2>2. \A node \in Node : node.id \in Name
    BY DEF Node
  <2>. QED  BY <2>1, <2>2
<1>. QED  BY <1>2, PartsAssumption DEF Ids

(* Where a way from edge to edge arrives somewhere, it is a passage.       *)
LEMMA FollowedIsPassage ==
  ASSUME NEW data \in MapData, Clean(data), NEW edges \in Seq(Name),
         \A i \in DOMAIN edges : edges[i] \in Ids(data.edges),
         NEW from \in Ids(data.nodes), NEW to \in Ids(data.nodes),
         Following(data, from, edges)[DOMAIN edges] = to
  PROVE  IsPassage(data, edges, from, to)
<1> DEFINE n == Len(edges)
           nodes == Ids(data.nodes)
<1>1. n \in Nat /\ DOMAIN edges = 1..n
  OBVIOUS
<1>2. nodes \subseteq Name /\ None \notin nodes /\ None \notin Name
  BY IdsAreNames, PartsAssumption
<1>3. \A k \in 1..n :
        LET edge == Found(data.edges, edges[k])
        IN  edge.from \in nodes /\ edge.to \in nodes /\ edge.from # edge.to
  BY <1>1, EdgeOfMap
<1> HIDE DEF n, nodes
<1>4. ASSUME NEW place, NEW k \in 1..n
      PROVE  LET edge == Found(data.edges, edges[k])
                 next == Onward(data, place, edges[k])
             IN  /\ next \in nodes \cup {None}
                 /\ next # None => place # None /\ {place, next} = {edge.from, edge.to}
  BY <1>2, <1>3 DEF Onward, OppositeNode
<1>5. PICK stops : Stops(stops, data, from, edges, n)
  <2>1. OnwardStays(data, edges, n)
    BY <1>2, <1>4 DEF OnwardStays
  <2>2. from \in Name
    BY <1>2 DEF nodes
  <2>. QED  BY <1>1, <2>1, <2>2, FollowedEdgeByEdge
<1>6. /\ stops[0] = from /\ stops[n] = to
      /\ \A k \in 1..n : stops[k] = Onward(data, stops[k - 1], edges[k])
      /\ DOMAIN stops = 0..n /\ stops \in [0..n -> Name \cup {None}]
  BY <1>5 DEF Stops
<1>7. \A k \in 0..n : stops[k] # None
  <2> DEFINE P == {j \in 0..n : stops[n - j] # None}
  <2>1. 0 \in P
    <3>1. n - 0 = n /\ 0 \in 0..n
      BY <1>1
    <3>. QED  BY <1>2, <1>6, <3>1 DEF nodes
  <2>2. ASSUME NEW j \in 1..n, j - 1 \in P PROVE j \in P
    <3>1. /\ n - (j - 1) \in 1..n /\ (n - (j - 1)) - 1 = n - j /\ j \in 0..n
      BY <1>1
    <3>2. stops[n - (j - 1)] # None
      BY <2>2
    <3>3. stops[n - (j - 1)] = Onward(data, stops[n - j], edges[n - (j - 1)])
      BY <1>6, <3>1
    <3>. QED  BY <1>4, <3>1, <3>2, <3>3
  <2> HIDE DEF P
  <2>3. 0..n \subseteq P
    BY <1>1, <2>1, <2>2, InductionUpTo
  <2>4. ASSUME NEW k \in 0..n PROVE stops[k] # None
    <3>1. n - k \in 0..n /\ n - (n - k) = k
      BY <1>1
    <3>2. n - k \in P
      BY <2>3, <3>1
    <3>. QED  BY <3>1, <3>2 DEF P
  <2>. QED  BY <2>4
<1>8. \A k \in 1..n : /\ stops[k] \in nodes
                      /\ {stops[k - 1], stops[k]} = {Found(data.edges, edges[k]).from,
                                                     Found(data.edges, edges[k]).to}
  <2>1. ASSUME NEW k \in 1..n
        PROVE  /\ stops[k] \in nodes
               /\ {stops[k - 1], stops[k]} = {Found(data.edges, edges[k]).from,
                                              Found(data.edges, edges[k]).to}
    <3>1. stops[k] # None /\ stops[k] = Onward(data, stops[k - 1], edges[k])
      <4>1. k \in 0..n
        BY <1>1
      <4>. QED  BY <1>6, <1>7, <4>1
    <3>. QED  BY <1>4, <3>1
  <2>. QED  BY <2>1
<1>9. stops \in [0..n -> nodes]
  <2>1. \A k \in 0..n : k = 0 \/ k \in 1..n
    BY <1>1
  <2>2. \A k \in 0..n : stops[k] \in nodes
    BY <1>6, <1>8, <2>1 DEF nodes
  <2>. QED  BY <1>6, <2>2
<1>. QED  BY <1>1, <1>6, <1>8, <1>9 DEF IsPassage, n, nodes

(* A passage is one from its other end.                                    *)
LEMMA PassageBackwards ==
  ASSUME NEW map, NEW edges \in Seq(Name), NEW from, NEW to,
         IsPassage(map, edges, from, to)
  PROVE  IsPassage(map, Seqs!Reverse(edges), to, from)
<1> DEFINE n == Len(edges)
           back == Seqs!Reverse(edges)
<1>1. n \in Nat /\ DOMAIN edges = 1..n
  OBVIOUS
<1>2. /\ back = [i \in 1..n |-> edges[(n - i) + 1]]
      /\ DOMAIN back = 1..n
  BY DEF Seqs!Reverse
<1>3. back \in Seq(Name) /\ Len(back) = n
  <2>1. \A i \in 1..n : (n - i) + 1 \in 1..n
    BY <1>1
  <2>2. back \in [1..n -> Name]
    BY <1>1, <1>2, <2>1
  <2>. QED  BY <1>1, <2>2
<1>4. PICK order \in [0..n -> Ids(map.nodes)] :
        /\ order[0] = from /\ order[n] = to
        /\ \A i \in 1..n :
             {order[i - 1], order[i]} = {Found(map.edges, edges[i]).from,
                                         Found(map.edges, edges[i]).to}
  BY <1>1 DEF IsPassage
<1> HIDE DEF n, back
<1> DEFINE turned == [k \in 0..n |-> order[n - k]]
<1>5. turned \in [0..n -> Ids(map.nodes)] /\ turned[0] = to /\ turned[n] = from
  <2>1. \A k \in 0..n : n - k \in 0..n
    BY <1>1
  <2>2. 0 \in 0..n /\ n \in 0..n /\ n - n = 0 /\ n - 0 = n
    BY <1>1
  <2>. QED  BY <1>4, <2>1, <2>2
<1>6. ASSUME NEW i \in 1..n
      PROVE  {turned[i - 1], turned[i]} = {Found(map.edges, back[i]).from,
                                           Found(map.edges, back[i]).to}
  <2>1. /\ (n - i) + 1 \in 1..n /\ ((n - i) + 1) - 1 = n - i /\ n - (i - 1) = (n - i) + 1
        /\ i \in 0..n /\ i - 1 \in 0..n
    BY <1>1
  <2>2. turned[i] = order[n - i] /\ turned[i - 1] = order[(n - i) + 1]
    BY <2>1
  <2>3. back[i] = edges[(n - i) + 1]
    BY <1>2
  <2>4. {order[n - i], order[(n - i) + 1]} = {Found(map.edges, edges[(n - i) + 1]).from,
                                              Found(map.edges, edges[(n - i) + 1]).to}
    BY <1>4, <2>1
  <2> HIDE DEF turned
  <2>. QED  BY <2>2, <2>3, <2>4
<1> HIDE DEF turned
<1>. QED  BY <1>2, <1>3, <1>5, <1>6 DEF IsPassage, back

(* Resources lead through, corridors either way.                           *)
LeadingThrough(map) ==
  /\ \A corridor \in Seqs!ToSet(map.corridors) :
       /\ IsPassage(map, corridor.edges, corridor.entry, corridor.exit)
       /\ IsPassage(map, Seqs!Reverse(corridor.edges), corridor.exit, corridor.entry)
  /\ \A crossing \in Seqs!ToSet(map.intersections) :
       \A group \in crossing.groups : group \subseteq crossing.movements
  /\ \A bay \in Seqs!ToSet(map.bays) : bay.node \in Ids(map.nodes)

LEMMA CleanResources ==
  ASSUME NEW data \in MapData, Clean(data)
  PROVE  LeadingThrough(data)
<1>1. ASSUME NEW corridor \in Seqs!ToSet(data.corridors)
      PROVE  /\ IsPassage(data, corridor.edges, corridor.entry, corridor.exit)
             /\ IsPassage(data, Seqs!Reverse(corridor.edges), corridor.exit, corridor.entry)
  <2>1. data.corridors \in Seq(Corridor)
    BY DataTypes
  <2>2. corridor \in Corridor
    BY <2>1, ListedIsTyped
  <2>3. corridor.edges \in Seq(Name) /\ corridor.edges # << >>
    BY <2>2 DEF Corridor
  <2>4. /\ corridor.entry \in Ids(data.nodes) /\ corridor.exit \in Ids(data.nodes)
        /\ \A i \in DOMAIN corridor.edges : corridor.edges[i] \in Ids(data.edges)
        /\ IsContiguous(data, corridor)
    BY <2>3 DEF Clean
  <2>5. Following(data, corridor.entry, corridor.edges)[DOMAIN corridor.edges] = corridor.exit
    BY <2>4, ContiguousIsFollowed
  <2>6. IsPassage(data, corridor.edges, corridor.entry, corridor.exit)
    BY <2>3, <2>4, <2>5, FollowedIsPassage
  <2>. QED  BY <2>3, <2>6, PassageBackwards
<1>. QED  BY <1>1 DEF LeadingThrough, Clean

-----------------------------------------------------------------------------
(* Reachability.  A search goes out ring by ring.                          *)
Ring(data, seen) == seen \cup UNION {Neighbours(data, node) : node \in seen}

Search(data, start, list) ==
  CHOOSE iter :
    iter = [s \in SUBSET DOMAIN list |->
              IF s = {} THEN {start} ELSE Ring(data, iter[s \ {Greatest(s)}])]

LEMMA ReachableIsSearched ==
  ASSUME NEW data, NEW start \in Ids(data.nodes)
  PROVE  ReachableFrom(data, start) = Search(data, start, data.nodes)[DOMAIN data.nodes]
BY DEF ReachableFrom, Seqs!FoldLeft, Seqs!MapThenFoldSet, Seqs!Max, Search, Ring, Greatest

Rings(seen, data, start, n) ==
  /\ seen \in [0..n -> SUBSET Ids(data.nodes)]
  /\ seen[0] = {start}
  /\ \A k \in 1..n : seen[k] = Ring(data, seen[k - 1])
  /\ seen[n] = ReachableFrom(data, start)

LEMMA SearchedRingByRing ==
  ASSUME NEW data \in MapData, Clean(data), NEW start \in Ids(data.nodes)
  PROVE  \E seen : Rings(seen, data, start, Len(data.nodes))
<1> DEFINE n == Len(data.nodes)
           nodes == Ids(data.nodes)
           V == SUBSET nodes
           step == [x \in V \X (1..n) |-> Ring(data, x[1])]
           iter == Search(data, start, data.nodes)
<1>1. n \in Nat /\ DOMAIN data.nodes = 1..n
  BY DataTypes
<1>2. \A v \in V : Ring(data, v) \in V
  BY NeighboursAreNodes DEF Ring
<1>3. {start} \in V
  OBVIOUS
<1> HIDE DEF n, V
<1>4. step \in [V \X (1..n) -> V]
  BY <1>2
<1>5. \A v \in V, i \in 1..n : step[<<v, i>>] = Ring(data, v)
  OBVIOUS
<1> HIDE DEF step
<1>6. PICK f : IsFold(f, n, V, {start}, step)
  BY <1>1, <1>3, <1>4, FoldExists
<1>7. f = [s \in SUBSET DOMAIN data.nodes |->
             IF s = {} THEN {start} ELSE Ring(data, f[s \ {Greatest(s)}])]
  <2>1. ASSUME NEW s \in SUBSET (1..n), s # {}
        PROVE  f[s] = Ring(data, f[s \ {Greatest(s)}])
    <3>1. Greatest(s) \in 1..n
      BY <1>1, <2>1, GreatestOf
    <3>2. f[s \ {Greatest(s)}] \in V
      BY <1>6 DEF IsFold
    <3>3. f[s] = step[<<f[s \ {Greatest(s)}], Greatest(s)>>]
      BY <1>6, <2>1 DEF IsFold
    <3>. QED  BY <1>5, <3>1, <3>2, <3>3
  <2>2. f[{}] = {start} /\ f \in [SUBSET (1..n) -> V]
    BY <1>6 DEF IsFold
  <2>. QED  BY <1>1, <2>1, <2>2
<1>8. iter = [s \in SUBSET DOMAIN data.nodes |->
                IF s = {} THEN {start} ELSE Ring(data, iter[s \ {Greatest(s)}])]
  BY <1>7 DEF Search
<1>9. iter[1..n] = ReachableFrom(data, start)
  BY <1>1, ReachableIsSearched
<1> HIDE DEF iter
<1> DEFINE seen == [k \in 0..n |-> iter[1..k]]
<1>10. seen[0] = {start}
  <2>1. 1..0 = {} /\ 0 \in 0..n
    BY <1>1
  <2>. QED  BY <1>8, <2>1
<1>11. ASSUME NEW k \in 1..n
       PROVE  seen[k] = Ring(data, seen[k - 1])
  <2>1. /\ 1..k \in SUBSET (1..n) /\ 1..k # {}
        /\ (1..k) \ {Greatest(1..k)} = 1..(k - 1)
    BY <1>1, UpToOneMore
  <2>2. iter[1..k] = Ring(data, iter[(1..k) \ {Greatest(1..k)}])
    BY <1>1, <1>8, <2>1
  <2>3. k \in 0..n /\ k - 1 \in 0..n
    BY <1>1
  <2>. QED  BY <2>1, <2>2, <2>3
<1>12. seen[n] = ReachableFrom(data, start)
  BY <1>1, <1>9
<1>13. \A k \in 0..n : seen[k] \in V
  <2> DEFINE P == {k \in 0..n : seen[k] \in V}
  <2> HIDE DEF seen
  <2>1. 0 \in P
    <3>1. 0 \in 0..n
      BY <1>1
    <3>2. seen[0] \in V
      BY <1>3, <1>10
    <3>. QED  BY <3>1, <3>2
  <2>2. \A k \in 1..n : k - 1 \in P => k \in P
    BY <1>1, <1>2, <1>11
  <2> HIDE DEF P
  <2>3. 0..n \subseteq P
    BY <1>1, <2>1, <2>2, InductionUpTo
  <2>. QED  BY <2>3 DEF P
<1>14. seen \in [0..n -> V]
  BY <1>13
<1> HIDE DEF seen
<1>15. Rings(seen, data, start, n)
  BY <1>10, <1>11, <1>12, <1>14 DEF Rings, V
<1>. QED  BY <1>15 DEF n

(* A legal move, as IsWay has it.                                          *)
IsMove(map, here, there) ==
  \E edge \in Seqs!ToSet(map.edges) :
    \/ edge.enabled /\ here = edge.from /\ there = edge.to
         /\ edge.direction \in {"forward", "bidirectional"}
    \/ edge.enabled /\ here = edge.to /\ there = edge.from
         /\ edge.direction \in {"reverse", "bidirectional"}

LEMMA NeighboursAreMoves ==
  ASSUME NEW data \in MapData, Clean(data), NEW here, NEW there
  PROVE  there \in Neighbours(data, here) <=> IsMove(data, here, there)
<1>1. \A edge \in Seqs!ToSet(data.edges) :
        edge.direction \in {"forward", "reverse", "bidirectional"} /\ edge.from # edge.to
  <2>1. data.edges \in Seq(Edge)
    BY DataTypes
  <2>2. \A edge \in Seqs!ToSet(data.edges) : edge \in Edge
    BY <2>1, ListedIsTyped
  <2>. QED  BY <2>2 DEF Edge, Directions, Clean
<1>2. ASSUME NEW edge \in Seqs!ToSet(data.edges)
      PROVE  MayLeaveBy(edge, here) /\ there = OppositeNode(edge, here)
               <=> \/ edge.enabled /\ here = edge.from /\ there = edge.to
                        /\ edge.direction \in {"forward", "bidirectional"}
                   \/ edge.enabled /\ here = edge.to /\ there = edge.from
                        /\ edge.direction \in {"reverse", "bidirectional"}
  BY <1>1 DEF MayLeaveBy, OppositeNode
<1>3. there \in Neighbours(data, here)
        <=> \E edge \in Seqs!ToSet(data.edges) :
              MayLeaveBy(edge, here) /\ there = OppositeNode(edge, here)
  BY DEF Neighbours
<1>. QED  BY <1>2, <1>3 DEF IsMove

(* A way through n places, from start to goal.                             *)
WayThrough(map, way, n, start, goal) ==
  /\ way \in [1..n -> Ids(map.nodes)]
  /\ way[1] = start /\ way[n] = goal
  /\ \A i \in 1..(n - 1) : IsMove(map, way[i], way[i + 1])

LEMMA DrivesAWay ==
  ASSUME NEW map, NEW start, NEW goal
  PROVE  CanDrive(map, start, goal)
           <=> \E n \in 1..Len(map.nodes) : \E way : WayThrough(map, way, n, start, goal)
<1>1. ASSUME NEW n \in 1..Len(map.nodes), NEW way \in [1..n -> Ids(map.nodes)]
      PROVE  IsWay(map, way) <=> \A i \in 1..(n - 1) : IsMove(map, way[i], way[i + 1])
  <2>1. n \in Nat
    OBVIOUS
  <2>2. Len(way) = n
    BY <2>1
  <2>. QED  BY <2>2 DEF IsWay, IsMove
<1>. QED  BY <1>1 DEF CanDrive, WayThrough

(* Where a place comes twice, what lies between can be left out.           *)
LEMMA ShorterWay ==
  ASSUME NEW map, NEW start, NEW goal, NEW n \in Nat, NEW way,
         WayThrough(map, way, n, start, goal),
         NEW i \in 1..n, NEW j \in 1..n, i < j, way[i] = way[j]
  PROVE  \E short : WayThrough(map, short, n - (j - i), start, goal)
<1> DEFINE nodes == Ids(map.nodes)
           m == n - (j - i)
           short == [k \in 1..m |-> IF k <= i THEN way[k] ELSE way[k + (j - i)]]
<1>1. /\ way \in [1..n -> nodes] /\ way[1] = start /\ way[n] = goal
      /\ \A k \in 1..(n - 1) : IsMove(map, way[k], way[k + 1])
  BY DEF WayThrough
<1>2. m \in Nat /\ i \in 1..m /\ m < n /\ 1 \in 1..m /\ m \in 1..m
  OBVIOUS
<1>3. \A k \in 1..m : k \in 1..n /\ (~(k <= i) => k + (j - i) \in 1..n)
  OBVIOUS
<1>4. m + (j - i) = n
  OBVIOUS
<1> HIDE DEF nodes, m
<1>5. \A k \in 1..m : short[k] \in nodes
  BY <1>1, <1>3
<1>6. \A k \in 1..m : short[k] = IF k <= i THEN way[k] ELSE way[k + (j - i)]
  OBVIOUS
<1>7. short \in [1..m -> nodes]
  BY <1>5
<1> HIDE DEF short
<1>8. short[1] = start
  <2>1. 1 <= i
    OBVIOUS
  <2>. QED  BY <1>1, <1>2, <1>6, <2>1
<1>9. short[m] = goal
  <2>1. CASE m <= i
    <3>1. m = i /\ j = n
      BY <1>2, <1>4, <2>1
    <3>. QED  BY <1>1, <1>2, <1>6, <3>1
  <2>2. CASE ~(m <= i)
    BY <1>1, <1>2, <1>4, <1>6, <2>2
  <2>. QED  BY <2>1, <2>2
<1>10. ASSUME NEW k \in 1..(m - 1)
       PROVE  IsMove(map, short[k], short[k + 1])
  <2>1. k \in 1..m /\ k + 1 \in 1..m /\ k \in Int
    BY <1>2
  <2>2. CASE k + 1 <= i
    <3>1. k \in 1..(n - 1) /\ k <= i
      BY <1>2, <2>1, <2>2
    <3>2. short[k] = way[k] /\ short[k + 1] = way[k + 1]
      BY <1>6, <2>1, <2>2, <3>1
    <3>. QED  BY <1>1, <3>1, <3>2
  <2>3. CASE k = i
    <3>1. j \in 1..(n - 1) /\ k <= i /\ ~(k + 1 <= i) /\ (k + 1) + (j - i) = j + 1
      BY <1>2, <1>4, <2>1, <2>3
    <3>2. short[k] = way[j] /\ short[k + 1] = way[j + 1]
      BY <1>6, <2>1, <2>3, <3>1
    <3>. QED  BY <1>1, <3>1, <3>2
  <2>4. CASE i < k
    <3>1. /\ k + (j - i) \in 1..(n - 1) /\ ~(k <= i) /\ ~(k + 1 <= i)
          /\ (k + 1) + (j - i) = (k + (j - i)) + 1
      BY <1>2, <1>4, <2>1, <2>4
    <3>2. short[k] = way[k + (j - i)] /\ short[k + 1] = way[(k + (j - i)) + 1]
      BY <1>6, <2>1, <3>1
    <3>. QED  BY <1>1, <3>1, <3>2
  <2>. QED  BY <2>1, <2>2, <2>3, <2>4
<1>11. WayThrough(map, short, m, start, goal)
  BY <1>7, <1>8, <1>9, <1>10 DEF WayThrough, nodes
<1>. QED  BY <1>11 DEF m

(* There are no more nodes than elements of the list.                      *)
LEMMA NodesCounted ==
  ASSUME NEW data \in MapData
  PROVE  /\ IsFiniteSet(Ids(data.nodes))
         /\ Cardinality(Ids(data.nodes)) <= Len(data.nodes)
         /\ Len(data.nodes) \in Nat
<1> DEFINE n == Len(data.nodes)
           named == [i \in 1..n |-> data.nodes[i].id]
<1>1. n \in Nat /\ DOMAIN data.nodes = 1..n
  BY DataTypes
<1>2. IsFiniteSet(1..n) /\ Cardinality(1..n) = n
  BY <1>1, FS_Interval
<1>3. named \in Surjection(1..n, Ids(data.nodes))
  BY <1>1 DEF Ids, Surjection
<1> HIDE DEF named, n
<1>4. /\ IsFiniteSet(Ids(data.nodes))
      /\ Cardinality(Ids(data.nodes)) <= Cardinality(1..n)
  BY <1>2, <1>3, FS_Surjection
<1>. QED  BY <1>1, <1>2, <1>4 DEF n

(* Hence who gets there gets there by a way that is no longer than the map *)
(* has nodes.                                                              *)
LEMMA WaysAreShort ==
  ASSUME NEW data \in MapData, NEW start, NEW goal, NEW n \in Nat \ {0}, NEW way,
         WayThrough(data, way, n, start, goal)
  PROVE  CanDrive(data, start, goal)
<1> DEFINE nodes == Ids(data.nodes)
           lengths == {k \in Nat \ {0} : \E w : WayThrough(data, w, k, start, goal)}
<1>1. lengths \in SUBSET Nat /\ lengths # {}
  OBVIOUS
<1>2. \A k \in lengths : k \in Nat \ {0} /\ \E w : WayThrough(data, w, k, start, goal)
  OBVIOUS
<1>3. \A k \in Nat \ {0} : (\E w : WayThrough(data, w, k, start, goal)) => k \in lengths
  OBVIOUS
<1> HIDE DEF lengths, nodes
<1>4. PICK m \in lengths : \A k \in lengths : m <= k
  BY <1>1, LeastNatural
<1>5. m \in Nat /\ m \in Nat \ {0}
  BY <1>2
<1>6. PICK w : WayThrough(data, w, m, start, goal)
  BY <1>2
<1>7. w \in [1..m -> nodes]
  BY <1>6 DEF WayThrough, nodes
<1>8. ASSUME NEW i \in 1..m, NEW j \in 1..m, w[i] = w[j], i < j PROVE FALSE
  <2>1. \E short : WayThrough(data, short, m - (j - i), start, goal)
    BY <1>5, <1>6, <1>8, ShorterWay
  <2>2. m - (j - i) \in Nat \ {0} /\ ~(m <= m - (j - i))
    BY <1>5, <1>8
  <2>3. m - (j - i) \in lengths
    BY <1>3, <2>1, <2>2
  <2>. QED  BY <1>4, <2>2, <2>3
<1>9. \A i, j \in 1..m : w[i] = w[j] => i = j
  <2>1. ASSUME NEW i \in 1..m, NEW j \in 1..m, w[i] = w[j] PROVE i = j
    <3>1. i \in Int /\ j \in Int
      OBVIOUS
    <3>. QED  BY <1>8, <2>1, <3>1
  <2>. QED  BY <2>1
<1>10. m <= Len(data.nodes)
  <2>1. w \in Injection(1..m, nodes)
    BY <1>7, <1>9 DEF Injection, IsInjective
  <2>2. IsFiniteSet(nodes) /\ Cardinality(nodes) <= Len(data.nodes) /\ Len(data.nodes) \in Nat
    BY NodesCounted DEF nodes
  <2>3. Cardinality(1..m) <= Cardinality(nodes)
    BY <2>1, <2>2, FS_Injection
  <2>4. Cardinality(1..m) = m
    BY <1>5, FS_Interval
  <2>5. Cardinality(nodes) \in Nat
    BY <2>2, FS_CardinalityType
  <2>. QED  BY <1>5, <2>2, <2>3, <2>4, <2>5
<1>11. m \in 1..Len(data.nodes)
  <2>1. Len(data.nodes) \in Nat
    BY NodesCounted
  <2>. QED  BY <1>5, <1>10, <2>1
<1>. QED  BY <1>6, <1>11, DrivesAWay

(* What is seen within k rings is what a way of k moves leads to.          *)
LEMMA SeenByWays ==
  ASSUME NEW data \in MapData, Clean(data), NEW start \in Ids(data.nodes),
         NEW n \in Nat, NEW seen, Rings(seen, data, start, n)
  PROVE  \A k \in 0..n : \A goal \in seen[k] :
           \E length \in Nat \ {0} : \E way : WayThrough(data, way, length, start, goal)
<1> DEFINE nodes == Ids(data.nodes)
           Gets(goal) == \E length \in Nat \ {0} : \E way :
                           WayThrough(data, way, length, start, goal)
           P == {k \in 0..n : \A goal \in seen[k] : Gets(goal)}
<1>1. 0 \in P
  <2> DEFINE way == [i \in 1..1 |-> start]
  <2>1. WayThrough(data, way, 1, start, start)
    BY DEF WayThrough
  <2>2. Gets(start)
    <3> HIDE DEF way
    <3>. QED  BY <2>1
  <2>3. seen[0] = {start} /\ 0 \in 0..n
    BY DEF Rings
  <2> HIDE DEF Gets
  <2>. QED  BY <2>2, <2>3
<1>2. ASSUME NEW k \in 1..n, k - 1 \in P PROVE k \in P
  <2>1. seen[k] = Ring(data, seen[k - 1])
    BY DEF Rings
  <2>2. \A goal \in seen[k - 1] : Gets(goal)
    BY <1>2
  <2>3. ASSUME NEW here \in seen[k - 1], NEW there \in Neighbours(data, here)
        PROVE  Gets(there)
    <3>1. IsMove(data, here, there)
      BY <2>3, NeighboursAreMoves
    <3>2. there \in nodes
      BY <2>3, NeighboursAreNodes
    <3>3. PICK length \in Nat \ {0} : \E way : WayThrough(data, way, length, start, here)
      BY <2>2
    <3>3a. PICK way : WayThrough(data, way, length, start, here)
      BY <3>3
    <3> DEFINE longer == [i \in 1..(length + 1) |-> IF i <= length THEN way[i] ELSE there]
    <3>4. /\ way \in [1..length -> nodes] /\ way[1] = start /\ way[length] = here
          /\ \A i \in 1..(length - 1) : IsMove(data, way[i], way[i + 1])
      BY <3>3a DEF WayThrough
    <3> HIDE DEF nodes
    <3>5. longer \in [1..(length + 1) -> nodes] /\ longer[1] = start /\ longer[length + 1] = there
      BY <3>2, <3>4
    <3>6. \A i \in 1..(length + 1) : longer[i] = IF i <= length THEN way[i] ELSE there
      OBVIOUS
    <3> HIDE DEF longer
    <3>7. ASSUME NEW i \in 1..length PROVE IsMove(data, longer[i], longer[i + 1])
      <4>1. i \in 1..(length + 1) /\ i + 1 \in 1..(length + 1) /\ i <= length
        OBVIOUS
      <4>2. CASE i = length
        <5>1. ~(i + 1 <= length)
          BY <4>2
        <5>2. longer[i] = here /\ longer[i + 1] = there
          BY <3>4, <3>6, <4>1, <4>2, <5>1
        <5>. QED  BY <3>1, <5>2
      <4>3. CASE i # length
        <5>1. i \in 1..(length - 1) /\ i + 1 <= length
          BY <4>3
        <5>2. longer[i] = way[i] /\ longer[i + 1] = way[i + 1]
          BY <3>6, <4>1, <5>1
        <5>. QED  BY <3>4, <5>1, <5>2
      <4>. QED  BY <4>2, <4>3
    <3>8. (length + 1) - 1 = length /\ length + 1 \in Nat \ {0}
      OBVIOUS
    <3>9. WayThrough(data, longer, length + 1, start, there)
      BY <3>5, <3>7, <3>8 DEF WayThrough, nodes
    <3>. QED  BY <3>8, <3>9
  <2> HIDE DEF Gets
  <2>4. \A goal \in seen[k] : Gets(goal)
    BY <2>1, <2>2, <2>3 DEF Ring
  <2>. QED  BY <2>4
<1> HIDE DEF P
<1>3. 0..n \subseteq P
  BY <1>1, <1>2, InductionUpTo
<1>. QED  BY <1>3 DEF P

(* What a way leads to is seen.                                            *)
LEMMA WaysAreSeen ==
  ASSUME NEW data \in MapData, Clean(data), NEW start \in Ids(data.nodes), NEW goal,
         NEW n \in Nat, NEW seen, Rings(seen, data, start, n),
         NEW length \in 1..n, NEW way, WayThrough(data, way, length, start, goal)
  PROVE  goal \in seen[n]
<1>1. /\ seen[0] = {start}
      /\ \A k \in 1..n : seen[k] = Ring(data, seen[k - 1])
  BY DEF Rings
<1>2. /\ way[1] = start /\ way[length] = goal
      /\ \A i \in 1..(length - 1) : IsMove(data, way[i], way[i + 1])
  BY DEF WayThrough
<1> DEFINE P == {j \in 0..(length - 1) : way[j + 1] \in seen[j]}
           Q == {j \in 0..(n - (length - 1)) : goal \in seen[(length - 1) + j]}
<1>3. length - 1 \in Nat /\ n - (length - 1) \in Nat /\ length \in Nat
  OBVIOUS
<1>4. 0 \in P
  BY <1>1, <1>2, <1>3
<1>5. ASSUME NEW j \in 1..(length - 1), j - 1 \in P PROVE j \in P
  <2>1. j \in 1..n /\ (j - 1) + 1 = j /\ j \in 0..(length - 1)
    BY <1>3
  <2>2. way[j] \in seen[j - 1]
    BY <1>5, <2>1
  <2>3. way[j + 1] \in Neighbours(data, way[j])
    BY <1>2, NeighboursAreMoves
  <2>4. way[j + 1] \in seen[j]
    BY <1>1, <2>1, <2>2, <2>3 DEF Ring
  <2>. QED  BY <2>1, <2>4
<1> HIDE DEF P
<1>6. 0..(length - 1) \subseteq P
  BY <1>3, <1>4, <1>5, InductionUpTo
<1>7. 0 \in Q
  <2>1. length - 1 \in 0..(length - 1) /\ (length - 1) + 1 = length /\ (length - 1) + 0 = length - 1
        /\ 0 \in 0..(n - (length - 1))
    BY <1>3
  <2>2. length - 1 \in P
    BY <1>6, <2>1
  <2>. QED  BY <1>2, <2>1, <2>2 DEF P
<1>8. ASSUME NEW j \in 1..(n - (length - 1)), j - 1 \in Q PROVE j \in Q
  <2>1. /\ (length - 1) + j \in 1..n /\ ((length - 1) + j) - 1 = (length - 1) + (j - 1)
        /\ j \in 0..(n - (length - 1))
    BY <1>3
  <2>2. goal \in seen[(length - 1) + (j - 1)]
    BY <1>8
  <2>. QED  BY <1>1, <2>1, <2>2 DEF Ring
<1> HIDE DEF Q
<1>9. 0..(n - (length - 1)) \subseteq Q
  BY <1>3, <1>7, <1>8, InductionUpTo
<1>10. n - (length - 1) \in 0..(n - (length - 1)) /\ (length - 1) + (n - (length - 1)) = n
  BY <1>3
<1>11. n - (length - 1) \in Q
  BY <1>9, <1>10
<1>. QED  BY <1>10, <1>11 DEF Q

LEMMA ReachableIsDrivable ==
  ASSUME NEW data \in MapData, Clean(data), NEW start \in Ids(data.nodes), NEW goal
  PROVE  goal \in ReachableFrom(data, start) <=> CanDrive(data, start, goal)
<1> DEFINE n == Len(data.nodes)
<1>1. n \in Nat
  BY NodesCounted
<1>2. PICK seen : Rings(seen, data, start, n)
  BY SearchedRingByRing
<1> HIDE DEF n
<1>3. seen[n] = ReachableFrom(data, start) /\ n \in 0..n
  BY <1>1, <1>2 DEF Rings
<1>4. ASSUME goal \in seen[n] PROVE CanDrive(data, start, goal)
  <2>1. PICK length \in Nat \ {0} : \E way : WayThrough(data, way, length, start, goal)
    BY <1>1, <1>2, <1>3, <1>4, SeenByWays
  <2>2. PICK way : WayThrough(data, way, length, start, goal)
    BY <2>1
  <2>. QED  BY <2>2, WaysAreShort
<1>5. ASSUME CanDrive(data, start, goal) PROVE goal \in seen[n]
  <2>1. PICK length \in 1..n : \E way : WayThrough(data, way, length, start, goal)
    BY <1>5, DrivesAWay DEF n
  <2>2. PICK way : WayThrough(data, way, length, start, goal)
    BY <2>1
  <2>. QED  BY <1>1, <1>2, <2>2, WaysAreSeen
<1>. QED  BY <1>3, <1>4, <1>5

(* Reachability as ReachabilityIsTrue has it.                              *)
TrueReachability(map, issues) ==
  LET nodes == Ids(map.nodes)
      first == map.nodes[1].id
  IN  /\ \A start, goal \in nodes :
           IsReachable(map, start, goal) <=> CanDrive(map, start, goal)
      /\ {issue.subject : issue \in {i \in issues : i.kind = "unreachable_node"}}
           = {goal \in nodes : ~CanDrive(map, first, goal)}

LEMMA CleanReachability ==
  ASSUME NEW data \in MapData, IsValid(Validate(data))
  PROVE  TrueReachability(data, Validate(data))
<1> DEFINE nodes == Ids(data.nodes)
           first == data.nodes[1].id
           Told == {issue.subject : issue \in
                      {i \in Validate(data) : i.kind = "unreachable_node"}}
<1>1. Clean(data) /\ ErrorsOf(data) = {}
  BY ValidIsClean, ErrorsInvalidate
<1>2. \A start, goal \in nodes : IsReachable(data, start, goal) <=> CanDrive(data, start, goal)
  BY <1>1, ReachableIsDrivable DEF IsReachable
<1>3. Validate(data) = IF data.nodes # << >> THEN StructureWarnings(data) ELSE {}
  BY <1>1 DEF Validate, ErrorsOf
<1>4. data.nodes \in Seq(Node)
  BY DataTypes
<1>5. CASE data.nodes = << >>
  <2>1. nodes = {}
    BY <1>5 DEF Ids
  <2>2. Told = {}
    BY <1>3, <1>5
  <2>. QED  BY <1>2, <2>1, <2>2 DEF TrueReachability
<1>6. CASE data.nodes # << >>
  <2>1. first \in nodes
    <3>1. 1 \in DOMAIN data.nodes
      BY <1>4, <1>6
    <3>. QED  BY <3>1 DEF Ids
  <2>2. Told = nodes \ ReachableFrom(data, first)
    <3> DEFINE missed == nodes \ ReachableFrom(data, first)
               W == StructureWarnings(data)
    <3>1. /\ \A issue \in W : issue.kind = "unreachable_node" => issue.subject \in missed
          /\ \A id \in missed : Issue("warning", "unreachable_node", id) \in W
      <4> DEFINE touched == UNION {{edge.from, edge.to} : edge \in Seqs!ToSet(data.edges)}
                 A == {Issue("warning", "orphan_node", id) : id \in nodes \ touched}
                 B == {Issue("warning", "unreachable_node", id) : id \in missed}
                 C == {Issue("warning", "disconnected_graph", None) : id \in missed}
      <4>1. W = A \cup B \cup C
        BY DEF StructureWarnings
      <4>2. \A issue \in A \cup C : issue.kind # "unreachable_node"
        BY DEF Issue
      <4>3. /\ \A issue \in B : issue.subject \in missed
            /\ \A id \in missed : Issue("warning", "unreachable_node", id) \in B
        BY DEF Issue
      <4> HIDE DEF W, A, B, C
      <4>. QED  BY <4>1, <4>2, <4>3
    <3>2. \A id : /\ Issue("warning", "unreachable_node", id).kind = "unreachable_node"
                  /\ Issue("warning", "unreachable_node", id).subject = id
      BY DEF Issue
    <3>3. Validate(data) = W
      BY <1>3, <1>6
    <3> HIDE DEF missed, W
    <3>4. Told \subseteq missed
      BY <3>1, <3>3
    <3>5. missed \subseteq Told
      BY <3>1, <3>2, <3>3
    <3>. QED  BY <3>4, <3>5 DEF missed
  <2>3. \A goal \in nodes : goal \in ReachableFrom(data, first) <=> CanDrive(data, first, goal)
    BY <1>1, <2>1, ReachableIsDrivable
  <2> HIDE DEF nodes, first, Told
  <2>4. Told = {goal \in nodes : ~CanDrive(data, first, goal)}
    BY <2>2, <2>3
  <2>. QED  BY <1>2, <2>4 DEF TrueReachability, nodes, first, Told
<1>. QED  BY <1>5, <1>6

-----------------------------------------------------------------------------
(* Files.  What is given is of its type; what is of a type is given.       *)
LEMMA Given ==
  /\ \A values : \A value \in Said(values) : IsGiven(value) => value \in values
  /\ \A value \in Name \cup Int \cup BOOLEAN \cup Directions \cup Word : IsGiven(value)
  /\ \A value : IsGiven(value) <=> value # Absent /\ value # Mistyped
  /\ ~IsGiven(Absent) /\ IsGiven({})
  /\ Blank \in Name /\ None \notin Name
BY FileAssumption, PartsAssumption DEF Said, IsGiven

LEMMA ReadValues ==
  ASSUME NEW values, NEW value \in Said(values), NEW fallback \in values
  PROVE  Optional(value, fallback) \in values
BY Given DEF Optional

(* A capacity that was read reads the same when it is written as a number. *)
LEMMA CapacityRead ==
  /\ \A entry : entry.capacity \in Said(Int)
       => Capacity(entry) \in Nat /\ Capacity(entry) \in 0..(2^CapacityBits - 1)
  /\ \A entry : entry.capacity \in 0..(2^CapacityBits - 1) => Capacity(entry) = entry.capacity
<1> DEFINE m == 2^CapacityBits
<1>1. m \in Nat \ {0}
  BY FileAssumption
<1> HIDE DEF m
<1>2. \A x \in Int : x % m \in 0..(m - 1) /\ x % m \in Nat
  BY <1>1
<1>3. \A x \in 0..(m - 1) : x % m = x
  BY <1>1
<1>4. \A x \in 0..(m - 1) : IsGiven(x)
  BY <1>1, Given
<1>5. ASSUME NEW entry, entry.capacity \in Said(Int)
      PROVE  Capacity(entry) \in Nat /\ Capacity(entry) \in 0..(m - 1)
  <2>1. Optional(entry.capacity, 1) \in Int
    BY <1>5, ReadValues
  <2>. QED  BY <1>2, <2>1 DEF Capacity, m
<1>6. ASSUME NEW entry, entry.capacity \in 0..(m - 1)
      PROVE  Capacity(entry) = entry.capacity
  <2>1. Optional(entry.capacity, 1) = entry.capacity
    BY <1>4, <1>6 DEF Optional
  <2>. QED  BY <1>3, <1>6, <2>1 DEF Capacity, m
<1>. QED  BY <1>5, <1>6 DEF m

LEMMA FaultMeans ==
  ASSUME NEW complete \in BOOLEAN, NEW valid \in BOOLEAN
  PROVE  /\ Fault(complete, valid) = "none" <=> complete /\ valid
         /\ Fault(complete, valid) \in {"none", "schema_violation", "invalid_value"}
BY DEF Fault

(* Each kind of element, read once and read again.                         *)
LEMMA NodeReread ==
  ASSUME NEW entry \in NodeEntry, NodeFault(entry) = "none"
  PROVE  LET node == NodeOf(entry)
         IN  /\ node \in Node
             /\ NodeText(node) \in NodeEntry /\ NodeFault(NodeText(node)) = "none"
             /\ NodeOf(NodeText(node)) = node
<1> DEFINE node == NodeOf(entry)
           again == NodeText(node)
<1>1. entry.id \in Said(Name) /\ entry.capacity \in Said(Int)
  BY DEF NodeEntry
<1>2. IsGiven(entry.id)
  BY FaultMeans DEF NodeFault, Has
<1>3. entry.id \in Name
  BY <1>1, <1>2, Given
<1>4. Capacity(entry) \in Nat /\ Capacity(entry) \in 0..(2^CapacityBits - 1)
  BY <1>1, CapacityRead
<1>5. again = [id |-> entry.id, type |-> "known", capacity |-> Capacity(entry)]
  BY DEF NodeOf, NodeText
<1>6. again \in NodeEntry
  BY <1>3, <1>4, <1>5 DEF NodeEntry, Said, Word
<1>7. Capacity(again) = Capacity(entry)
  BY <1>4, <1>5, CapacityRead
<1>8. NodeFault(again) = "none"
  <2>1. Has(again, {"id"})
    BY <1>2, <1>5 DEF Has
  <2>2. Optional(again.type, "known") = "known"
    BY <1>5 DEF Optional
  <2>. QED  BY <2>1, <2>2 DEF NodeFault, Fault
<1>9. NodeOf(again) = node
  BY <1>5, <1>7 DEF NodeOf
<1>10. node \in Node
  BY <1>3, <1>4 DEF NodeOf, Node
<1>. QED  BY <1>6, <1>8, <1>9, <1>10

LEMMA EdgeReread ==
  ASSUME NEW entry \in EdgeEntry, EdgeFault(entry) = "none", NEW default \in Said(Int)
  PROVE  LET edge == EdgeOf(entry, default)
         IN  /\ edge \in Edge
             /\ EdgeText(edge) \in EdgeEntry /\ EdgeFault(EdgeText(edge)) = "none"
             /\ edge.speed_limit > 0 => EdgeOf(EdgeText(edge), Absent) = edge
<1> DEFINE edge == EdgeOf(entry, default)
           again == EdgeText(edge)
           direction == Optional(entry.direction, "bidirectional")
           enabled == Optional(entry.enabled, TRUE)
           name == Optional(entry.resource, Blank)
<1>1. /\ entry.id \in Said(Name) /\ entry.from \in Said(Name) /\ entry.to \in Said(Name)
      /\ entry.enabled \in Said(BOOLEAN) /\ entry.length \in Said(Int)
      /\ entry.speed_limit \in Said(Int) /\ entry.capacity \in Said(Int)
      /\ entry.resource \in Said(Name)
  BY DEF EdgeEntry
<1>2. /\ IsGiven(entry.id) /\ IsGiven(entry.from) /\ IsGiven(entry.to) /\ IsGiven(entry.length)
      /\ direction \in Directions
  <2>1. Has(entry, {"id", "from", "to", "length"}) /\ direction \in Directions
    BY DEF EdgeFault, Fault
  <2>. QED  BY <2>1 DEF Has
<1>3. entry.id \in Name /\ entry.from \in Name /\ entry.to \in Name /\ entry.length \in Int
  BY <1>1, <1>2, Given
<1>4. Capacity(entry) \in Nat /\ Capacity(entry) \in 0..(2^CapacityBits - 1)
  BY <1>1, CapacityRead
<1>5. enabled \in BOOLEAN
  BY <1>1, ReadValues
<1>6. name \in Name
  BY <1>1, Given, ReadValues
<1>7. SpeedOf(entry, default) \in Int
  <2>1. Optional(entry.speed_limit, 0) \in Int /\ Optional(default, 1) \in Int
    BY <1>1, ReadValues
  <2>. QED  BY <2>1 DEF SpeedOf
<1> HIDE DEF direction, enabled, name
<1> DEFINE speed == SpeedOf(entry, default)
           room == Capacity(entry)
           resource == IF name = Blank THEN None ELSE name
<1>8. edge = [id |-> entry.id, from |-> entry.from, to |-> entry.to, direction |-> direction,
              enabled |-> enabled, length |-> entry.length, speed_limit |-> speed,
              capacity |-> room, resource |-> resource]
  BY DEF EdgeOf, direction, enabled, name
<1>9. resource \in Name \cup {None}
  BY <1>6
<1> DEFINE written == IF resource = None THEN Absent ELSE resource
<1>10. again = [id |-> entry.id, from |-> entry.from, to |-> entry.to, direction |-> direction,
                enabled |-> enabled, length |-> entry.length, speed_limit |-> speed,
                capacity |-> room, resource |-> written]
  BY <1>8 DEF EdgeText
<1>11. Optional(written, Blank) = name /\ written \in Said(Name)
  BY <1>6, Given DEF Optional, Said
<1> HIDE DEF edge, again, speed, room, written
<1>12. edge \in Edge
  BY <1>2, <1>3, <1>4, <1>5, <1>7, <1>8, <1>9 DEF Edge, speed, room
<1>13. again \in EdgeEntry
  BY <1>2, <1>3, <1>4, <1>5, <1>7, <1>10, <1>11 DEF EdgeEntry, Said, speed, room
<1>14. /\ again.id = entry.id /\ again.from = entry.from /\ again.to = entry.to
       /\ again.direction = direction /\ again.enabled = enabled /\ again.length = entry.length
       /\ again.speed_limit = speed /\ again.capacity = room /\ again.resource = written
  BY <1>10
<1>15. Optional(again.direction, "bidirectional") = direction
       /\ Optional(again.enabled, TRUE) = enabled
  BY <1>2, <1>5, <1>14, Given DEF Optional
<1>16. EdgeFault(again) = "none"
  <2>1. Has(again, {"id", "from", "to", "length"})
    BY <1>2, <1>14 DEF Has
  <2>. QED  BY <1>2, <1>15, <2>1 DEF EdgeFault, Fault
<1>17. Capacity(again) = room
  BY <1>4, <1>14, CapacityRead DEF room
<1>18. ASSUME speed > 0 PROVE SpeedOf(again, Absent) = speed
  BY <1>7, <1>14, <1>18, Given DEF SpeedOf, Optional, speed
<1>19. ASSUME speed > 0 PROVE EdgeOf(again, Absent) = edge
  BY <1>8, <1>11, <1>14, <1>15, <1>17, <1>18, <1>19 DEF EdgeOf
<1>20. edge.speed_limit = speed
  BY <1>8
<1>. QED  BY <1>12, <1>13, <1>16, <1>19, <1>20 DEF edge, again

LEMMA CorridorReread ==
  ASSUME NEW entry \in CorridorEntry, CorridorFault(entry) = "none"
  PROVE  LET corridor == CorridorOf(entry)
         IN  /\ corridor \in Corridor
             /\ CorridorText(corridor) \in CorridorEntry
             /\ CorridorFault(CorridorText(corridor)) = "none"
             /\ CorridorOf(CorridorText(corridor)) = corridor
<1> DEFINE corridor == CorridorOf(entry)
           again == CorridorText(corridor)
<1>1. /\ entry.id \in Said(Name) /\ entry.entry \in Said(Name) /\ entry.exit \in Said(Name)
      /\ entry.edges \in Said(Seq(Name)) /\ entry.capacity \in Said(Int)
  BY DEF CorridorEntry
<1>2. /\ IsGiven(entry.id) /\ IsGiven(entry.entry) /\ IsGiven(entry.exit) /\ IsGiven(entry.edges)
      /\ IsCorridor(corridor)
  BY FaultMeans DEF CorridorFault, Has, IsCorridor
<1>3. /\ entry.id \in Name /\ entry.entry \in Name /\ entry.exit \in Name
      /\ entry.edges \in Seq(Name)
  BY <1>1, <1>2, Given
<1>4. Capacity(entry) \in Nat /\ Capacity(entry) \in 0..(2^CapacityBits - 1)
  BY <1>1, CapacityRead
<1>5. corridor = [id |-> entry.id, entry |-> entry.entry, exit |-> entry.exit,
                  edges |-> entry.edges, capacity |-> Capacity(entry)]
  BY DEF CorridorOf
<1>6. again = [id |-> entry.id, entry |-> entry.entry, exit |-> entry.exit,
               edges |-> entry.edges, direction |-> "known", capacity |-> Capacity(entry)]
  BY DEF CorridorOf, CorridorText
<1> HIDE DEF corridor, again
<1>7. corridor \in Corridor
  <2>1. entry.edges # << >>
    BY <1>2, <1>5 DEF IsCorridor
  <2>2. entry.id # Blank
    BY <1>2, <1>5 DEF IsCorridor
  <2>. QED  BY <1>3, <1>4, <1>5, <2>1, <2>2 DEF Corridor
<1>8. again \in CorridorEntry
  BY <1>3, <1>4, <1>6 DEF CorridorEntry, Said, Word
<1>9. Capacity(again) = Capacity(entry)
  BY <1>4, <1>6, CapacityRead
<1>10. CorridorOf(again) = corridor
  BY <1>5, <1>6, <1>9 DEF CorridorOf
<1>11. CorridorFault(again) = "none"
  <2>1. Has(again, {"id", "entry", "exit", "edges"})
    BY <1>2, <1>6 DEF Has
  <2>2. Optional(again.direction, "known") = "known"
    BY <1>6 DEF Optional
  <2>. QED  BY <1>2, <1>10, <2>1, <2>2 DEF CorridorFault, Fault
<1>. QED  BY <1>7, <1>8, <1>10, <1>11 DEF corridor, again

LEMMA IntersectionReread ==
  ASSUME NEW entry \in IntersectionEntry, IntersectionFault(entry) = "none"
  PROVE  LET crossing == IntersectionOf(entry)
         IN  /\ crossing \in Intersection /\ crossing \in IntersectionEntry
             /\ IntersectionFault(crossing) = "none"
             /\ IntersectionOf(crossing) = crossing
<1> DEFINE crossing == IntersectionOf(entry)
           movements == Optional(entry.movements, {})
           groups == Optional(entry.groups, {})
<1>1. /\ entry.id \in Said(Name) /\ entry.nodes \in Said(SUBSET Name)
      /\ entry.movements \in Said(SUBSET Name) /\ entry.groups \in Said(SUBSET SUBSET Name)
      /\ entry.capacity \in Said(Int)
  BY DEF IntersectionEntry
<1>2. IsGiven(entry.id) /\ IsGiven(entry.nodes) /\ IsIntersection(crossing)
  BY FaultMeans DEF IntersectionFault, Has, IsIntersection, Fault
<1>3. entry.id \in Name /\ entry.nodes \in SUBSET Name
  BY <1>1, <1>2, Given
<1>4. Capacity(entry) \in Nat /\ Capacity(entry) \in 0..(2^CapacityBits - 1)
  BY <1>1, CapacityRead
<1>5. movements \in SUBSET Name /\ groups \in SUBSET SUBSET Name
  <2>1. {} \in SUBSET Name /\ {} \in SUBSET SUBSET Name
    OBVIOUS
  <2>. QED  BY <1>1, <2>1, ReadValues
<1>6. IsGiven(movements) /\ IsGiven(groups)
  BY Given DEF Optional
<1> HIDE DEF movements, groups
<1>7. crossing = [id |-> entry.id, nodes |-> entry.nodes, movements |-> movements,
                  groups |-> groups, capacity |-> Capacity(entry)]
  BY DEF IntersectionOf, movements, groups
<1> HIDE DEF crossing
<1>8. crossing \in Intersection
  <2>1. entry.id # Blank
    BY <1>2, <1>7 DEF IsIntersection
  <2>. QED  BY <1>3, <1>4, <1>5, <1>7, <2>1 DEF Intersection
<1>9. crossing \in IntersectionEntry
  BY <1>3, <1>4, <1>5, <1>7 DEF IntersectionEntry, Said
<1>10. Capacity(crossing) = Capacity(entry)
  BY <1>4, <1>7, CapacityRead
<1>11. Optional(crossing.movements, {}) = movements /\ Optional(crossing.groups, {}) = groups
  BY <1>6, <1>7 DEF Optional
<1>12. IntersectionOf(crossing) = crossing
  BY <1>7, <1>10, <1>11 DEF IntersectionOf
<1>13. IntersectionFault(crossing) = "none"
  <2>1. Has(crossing, {"id", "nodes"})
    BY <1>2, <1>7 DEF Has
  <2>2. Mistyped \notin {crossing.movements, crossing.groups}
    BY <1>6, <1>7, Given
  <2>. QED  BY <1>2, <1>12, <2>1, <2>2 DEF IntersectionFault, Fault
<1>. QED  BY <1>8, <1>9, <1>12, <1>13 DEF crossing

LEMMA BayReread ==
  ASSUME NEW entry \in BayEntry, BayFault(entry) = "none"
  PROVE  LET bay == BayOf(entry)
         IN  /\ bay \in Bay /\ bay \in BayEntry
             /\ BayFault(bay) = "none"
             /\ BayOf(bay) = bay
<1> DEFINE bay == BayOf(entry)
<1>1. entry.id \in Said(Name) /\ entry.node \in Said(Name) /\ entry.capacity \in Said(Int)
  BY DEF BayEntry
<1>2. IsGiven(entry.id) /\ IsGiven(entry.node) /\ IsBay(bay)
  BY FaultMeans DEF BayFault, Has, IsBay
<1>3. entry.id \in Name /\ entry.node \in Name
  BY <1>1, <1>2, Given
<1>4. Capacity(entry) \in Nat /\ Capacity(entry) \in 0..(2^CapacityBits - 1)
  BY <1>1, CapacityRead
<1>5. bay = [id |-> entry.id, node |-> entry.node, capacity |-> Capacity(entry)]
  BY DEF BayOf
<1> HIDE DEF bay
<1>6. bay \in Bay /\ bay \in BayEntry
  <2>1. entry.id # Blank
    BY <1>2, <1>5 DEF IsBay
  <2>. QED  BY <1>3, <1>4, <1>5, <2>1 DEF Bay, BayEntry, Said
<1>7. BayOf(bay) = bay
  BY <1>4, <1>5, CapacityRead DEF BayOf
<1>8. BayFault(bay) = "none"
  <2>1. Has(bay, {"id", "node"})
    BY <1>2, <1>5 DEF Has
  <2>. QED  BY <1>2, <1>7, <2>1 DEF BayFault, Fault
<1>. QED  BY <1>6, <1>7, <1>8 DEF bay

(* Each element of a list, in its place.                                   *)
LEMMA EachListed ==
  ASSUME NEW S, NEW list \in Seq(S), NEW V, NEW f \in [DOMAIN list -> V]
  PROVE  f \in Seq(V) /\ Seqs!ToSet(f) = {f[i] : i \in DOMAIN list}
<1>1. Len(list) \in Nat /\ DOMAIN list = 1..Len(list)
  OBVIOUS
<1>2. f \in [1..Len(list) -> V]
  BY <1>1
<1>. QED  BY <1>1, <1>2 DEF Seqs!ToSet

Verdict == {"none", "schema_violation", "invalid_value"}

LEMMA TextTypes ==
  ASSUME NEW text \in Text
  PROVE  /\ text.speed \in Said(Int)
         /\ text.nodes \in Said(Seq(NodeEntry)) /\ text.edges \in Said(Seq(EdgeEntry))
         /\ Listed(text.nodes) \in Seq(NodeEntry) /\ Listed(text.edges) \in Seq(EdgeEntry)
         /\ Listed(text.corridors) \in Seq(CorridorEntry)
         /\ Listed(text.intersections) \in Seq(IntersectionEntry)
         /\ Listed(text.bays) \in Seq(BayEntry)
<1>1. /\ text.speed \in Said(Int)
      /\ text.nodes \in Said(Seq(NodeEntry)) /\ text.edges \in Said(Seq(EdgeEntry))
      /\ text.corridors \in Said(Seq(CorridorEntry))
      /\ text.intersections \in Said(Seq(IntersectionEntry))
      /\ text.bays \in Said(Seq(BayEntry))
  BY DEF Text
<1>2. ASSUME NEW S, NEW list \in Said(Seq(S)) PROVE Listed(list) \in Seq(S)
  <2>1. << >> \in Seq(S)
    OBVIOUS
  <2>. QED  BY <2>1, ReadValues DEF Listed
<1>. QED  BY <1>1, <1>2

(* A text in which nothing is wrong with any element.                      *)
Readable(text) ==
  /\ IsGiven(text.nodes) /\ IsGiven(text.edges)
  /\ Mistyped \notin {text.corridors, text.intersections, text.bays}
  /\ \A i \in DOMAIN Listed(text.nodes) : NodeFault(Listed(text.nodes)[i]) = "none"
  /\ \A i \in DOMAIN Listed(text.edges) : EdgeFault(Listed(text.edges)[i]) = "none"
  /\ \A i \in DOMAIN Listed(text.corridors) : CorridorFault(Listed(text.corridors)[i]) = "none"
  /\ \A i \in DOMAIN Listed(text.intersections) :
       IntersectionFault(Listed(text.intersections)[i]) = "none"
  /\ \A i \in DOMAIN Listed(text.bays) : BayFault(Listed(text.bays)[i]) = "none"

LEMMA VerdictsGiven ==
  /\ \A complete, valid \in BOOLEAN : Fault(complete, valid) \in Verdict
  /\ \A entry : NodeFault(entry) \in Verdict /\ EdgeFault(entry) \in Verdict
                /\ CorridorFault(entry) \in Verdict /\ IntersectionFault(entry) \in Verdict
                /\ BayFault(entry) \in Verdict
BY DEF Verdict, Fault, NodeFault, EdgeFault, CorridorFault, IntersectionFault, BayFault

LEMMA FaultsTold ==
  ASSUME NEW text \in Text
  PROVE  /\ FaultsIn(text) \in Seq(Verdict)
         /\ Readable(text) <=> \A fault \in Seqs!ToSet(FaultsIn(text)) : fault = "none"
<1> DEFINE l1 == <<Fault(Has(text, {"nodes"}), TRUE)>>
           l2 == [i \in DOMAIN Listed(text.nodes) |-> NodeFault(Listed(text.nodes)[i])]
           l3 == <<Fault(Has(text, {"edges"}), TRUE)>>
           l4 == [i \in DOMAIN Listed(text.edges) |-> EdgeFault(Listed(text.edges)[i])]
           l5 == [i \in DOMAIN Listed(text.corridors) |->
                    CorridorFault(Listed(text.corridors)[i])]
           l6 == [i \in DOMAIN Listed(text.intersections) |->
                    IntersectionFault(Listed(text.intersections)[i])]
           l7 == [i \in DOMAIN Listed(text.bays) |-> BayFault(Listed(text.bays)[i])]
           m5 == <<Fault(text.corridors # Mistyped, TRUE)>>
           m6 == <<Fault(text.intersections # Mistyped, TRUE)>>
           m7 == <<Fault(text.bays # Mistyped, TRUE)>>
           Clear(list) == \A fault \in Seqs!ToSet(list) : fault = "none"
<1>1. FaultsIn(text) = l1 \o l2 \o l3 \o l4 \o m5 \o l5 \o m6 \o l6 \o m7 \o l7
  BY DEF FaultsIn, Each
<1>2. /\ l1 \in Seq(Verdict) /\ l3 \in Seq(Verdict)
      /\ m5 \in Seq(Verdict) /\ m6 \in Seq(Verdict) /\ m7 \in Seq(Verdict)
      /\ Clear(l1) <=> IsGiven(text.nodes)
      /\ Clear(l3) <=> IsGiven(text.edges)
      /\ Clear(m5) <=> text.corridors # Mistyped
      /\ Clear(m6) <=> text.intersections # Mistyped
      /\ Clear(m7) <=> text.bays # Mistyped
  <2>1. ASSUME NEW x \in Verdict
        PROVE  <<x>> \in Seq(Verdict) /\ Seqs!ToSet(<<x>>) = {x}
    BY DEF Seqs!ToSet
  <2>2. /\ Fault(Has(text, {"nodes"}), TRUE) \in Verdict
        /\ Fault(Has(text, {"nodes"}), TRUE) = "none" <=> IsGiven(text.nodes)
    BY DEF Fault, Has, Verdict
  <2>3. /\ Fault(Has(text, {"edges"}), TRUE) \in Verdict
        /\ Fault(Has(text, {"edges"}), TRUE) = "none" <=> IsGiven(text.edges)
    BY DEF Fault, Has, Verdict
  <2> DEFINE a == Fault(Has(text, {"nodes"}), TRUE)
             b == Fault(Has(text, {"edges"}), TRUE)
             c == Fault(text.corridors # Mistyped, TRUE)
             d == Fault(text.intersections # Mistyped, TRUE)
             e == Fault(text.bays # Mistyped, TRUE)
  <2>4. /\ c \in Verdict /\ (c = "none" <=> text.corridors # Mistyped)
        /\ d \in Verdict /\ (d = "none" <=> text.intersections # Mistyped)
        /\ e \in Verdict /\ (e = "none" <=> text.bays # Mistyped)
    BY DEF Fault, Verdict
  <2> HIDE DEF a, b, c, d, e
  <2>5. l1 = <<a>> /\ l3 = <<b>> /\ m5 = <<c>> /\ m6 = <<d>> /\ m7 = <<e>>
    BY DEF a, b, c, d, e
  <2> HIDE DEF l1, l3, m5, m6, m7
  <2>6. \A x \in Verdict : <<x>> \in Seq(Verdict) /\ (Clear(<<x>>) <=> x = "none")
    BY <2>1
  <2>7. /\ a \in Verdict /\ (a = "none" <=> IsGiven(text.nodes))
        /\ b \in Verdict /\ (b = "none" <=> IsGiven(text.edges))
    BY <2>2, <2>3 DEF a, b
  <2> HIDE DEF Clear
  <2>. QED  BY <2>4, <2>5, <2>6, <2>7
<1>3. /\ l2 \in Seq(Verdict)
      /\ Clear(l2) <=> \A i \in DOMAIN Listed(text.nodes) : NodeFault(Listed(text.nodes)[i]) = "none"
  <2>1. /\ Listed(text.nodes) \in Seq(NodeEntry) /\ DOMAIN l2 = DOMAIN Listed(text.nodes)
        /\ l2 = [i \in DOMAIN l2 |-> l2[i]]
        /\ \A i \in DOMAIN Listed(text.nodes) :
             l2[i] = NodeFault(Listed(text.nodes)[i]) /\ l2[i] \in Verdict
    BY TextTypes, VerdictsGiven
  <2> HIDE DEF l2
  <2>2. l2 \in Seq(Verdict) /\ Seqs!ToSet(l2) = {l2[i] : i \in DOMAIN Listed(text.nodes)}
    <3> DEFINE list == Listed(text.nodes)
    <3>1. list \in Seq(NodeEntry) /\ l2 \in [DOMAIN list -> Verdict]
      BY <2>1
    <3> HIDE DEF list
    <3>2. l2 \in Seq(Verdict) /\ Seqs!ToSet(l2) = {l2[i] : i \in DOMAIN list}
      BY <3>1, EachListed
    <3>. QED  BY <3>2 DEF list
  <2>. QED  BY <2>1, <2>2
<1>4. /\ l4 \in Seq(Verdict)
      /\ Clear(l4) <=> \A i \in DOMAIN Listed(text.edges) : EdgeFault(Listed(text.edges)[i]) = "none"
  <2>1. /\ Listed(text.edges) \in Seq(EdgeEntry) /\ DOMAIN l4 = DOMAIN Listed(text.edges)
        /\ l4 = [i \in DOMAIN l4 |-> l4[i]]
        /\ \A i \in DOMAIN Listed(text.edges) :
             l4[i] = EdgeFault(Listed(text.edges)[i]) /\ l4[i] \in Verdict
    BY TextTypes, VerdictsGiven
  <2> HIDE DEF l4
  <2>2. l4 \in Seq(Verdict) /\ Seqs!ToSet(l4) = {l4[i] : i \in DOMAIN Listed(text.edges)}
    <3> DEFINE list == Listed(text.edges)
    <3>1. list \in Seq(EdgeEntry) /\ l4 \in [DOMAIN list -> Verdict]
      BY <2>1
    <3> HIDE DEF list
    <3>2. l4 \in Seq(Verdict) /\ Seqs!ToSet(l4) = {l4[i] : i \in DOMAIN list}
      BY <3>1, EachListed
    <3>. QED  BY <3>2 DEF list
  <2>. QED  BY <2>1, <2>2
<1>5. /\ l5 \in Seq(Verdict)
      /\ Clear(l5) <=> \A i \in DOMAIN Listed(text.corridors) :
                         CorridorFault(Listed(text.corridors)[i]) = "none"
  <2>1. /\ Listed(text.corridors) \in Seq(CorridorEntry) /\ DOMAIN l5 = DOMAIN Listed(text.corridors)
        /\ l5 = [i \in DOMAIN l5 |-> l5[i]]
        /\ \A i \in DOMAIN Listed(text.corridors) :
             l5[i] = CorridorFault(Listed(text.corridors)[i]) /\ l5[i] \in Verdict
    BY TextTypes, VerdictsGiven
  <2> HIDE DEF l5
  <2>2. l5 \in Seq(Verdict) /\ Seqs!ToSet(l5) = {l5[i] : i \in DOMAIN Listed(text.corridors)}
    <3> DEFINE list == Listed(text.corridors)
    <3>1. list \in Seq(CorridorEntry) /\ l5 \in [DOMAIN list -> Verdict]
      BY <2>1
    <3> HIDE DEF list
    <3>2. l5 \in Seq(Verdict) /\ Seqs!ToSet(l5) = {l5[i] : i \in DOMAIN list}
      BY <3>1, EachListed
    <3>. QED  BY <3>2 DEF list
  <2>. QED  BY <2>1, <2>2
<1>6. /\ l6 \in Seq(Verdict)
      /\ Clear(l6) <=> \A i \in DOMAIN Listed(text.intersections) :
                         IntersectionFault(Listed(text.intersections)[i]) = "none"
  <2>1. /\ Listed(text.intersections) \in Seq(IntersectionEntry)
        /\ DOMAIN l6 = DOMAIN Listed(text.intersections)
        /\ l6 = [i \in DOMAIN l6 |-> l6[i]]
        /\ \A i \in DOMAIN Listed(text.intersections) :
             l6[i] = IntersectionFault(Listed(text.intersections)[i]) /\ l6[i] \in Verdict
    BY TextTypes, VerdictsGiven
  <2> HIDE DEF l6
  <2>2. l6 \in Seq(Verdict) /\ Seqs!ToSet(l6) = {l6[i] : i \in DOMAIN Listed(text.intersections)}
    <3> DEFINE list == Listed(text.intersections)
    <3>1. list \in Seq(IntersectionEntry) /\ l6 \in [DOMAIN list -> Verdict]
      BY <2>1
    <3> HIDE DEF list
    <3>2. l6 \in Seq(Verdict) /\ Seqs!ToSet(l6) = {l6[i] : i \in DOMAIN list}
      BY <3>1, EachListed
    <3>. QED  BY <3>2 DEF list
  <2>. QED  BY <2>1, <2>2
<1>7. /\ l7 \in Seq(Verdict)
      /\ Clear(l7) <=> \A i \in DOMAIN Listed(text.bays) : BayFault(Listed(text.bays)[i]) = "none"
  <2>1. /\ Listed(text.bays) \in Seq(BayEntry) /\ DOMAIN l7 = DOMAIN Listed(text.bays)
        /\ l7 = [i \in DOMAIN l7 |-> l7[i]]
        /\ \A i \in DOMAIN Listed(text.bays) :
             l7[i] = BayFault(Listed(text.bays)[i]) /\ l7[i] \in Verdict
    BY TextTypes, VerdictsGiven
  <2> HIDE DEF l7
  <2>2. l7 \in Seq(Verdict) /\ Seqs!ToSet(l7) = {l7[i] : i \in DOMAIN Listed(text.bays)}
    <3> DEFINE list == Listed(text.bays)
    <3>1. list \in Seq(BayEntry) /\ l7 \in [DOMAIN list -> Verdict]
      BY <2>1
    <3> HIDE DEF list
    <3>2. l7 \in Seq(Verdict) /\ Seqs!ToSet(l7) = {l7[i] : i \in DOMAIN list}
      BY <3>1, EachListed
    <3>. QED  BY <3>2 DEF list
  <2>. QED  BY <2>1, <2>2
<1> HIDE DEF l1, l2, l3, l4, l5, l6, l7, m5, m6, m7
<1>8. ASSUME NEW s \in Seq(Verdict), NEW t \in Seq(Verdict)
      PROVE  s \o t \in Seq(Verdict) /\ (Clear(s \o t) <=> Clear(s) /\ Clear(t))
  <2>1. s \o t \in Seq(Verdict) /\ Seqs!ToSet(s \o t) = Seqs!ToSet(s) \cup Seqs!ToSet(t)
    BY JoinListed
  <2>. QED  BY <2>1
<1> HIDE DEF Clear
<1>9. l1 \o l2 \in Seq(Verdict) /\ (Clear(l1 \o l2) <=> Clear(l1) /\ Clear(l2))
  BY <1>2, <1>3, <1>8
<1>10. /\ l1 \o l2 \o l3 \in Seq(Verdict)
       /\ Clear(l1 \o l2 \o l3) <=> Clear(l1 \o l2) /\ Clear(l3)
  BY <1>2, <1>8, <1>9
<1>11. /\ l1 \o l2 \o l3 \o l4 \in Seq(Verdict)
       /\ Clear(l1 \o l2 \o l3 \o l4) <=> Clear(l1 \o l2 \o l3) /\ Clear(l4)
  BY <1>4, <1>8, <1>10
<1> DEFINE four  == l1 \o l2 \o l3 \o l4
           five  == four \o m5 \o l5
           six   == five \o m6 \o l6
           seven == six \o m7 \o l7
<1>12. FaultsIn(text) = seven /\ four \in Seq(Verdict)
  BY <1>1, <1>11
<1>13. ASSUME NEW s \in Seq(Verdict), NEW t \in Seq(Verdict), NEW u \in Seq(Verdict)
       PROVE  /\ s \o t \o u \in Seq(Verdict)
              /\ Clear(s \o t \o u) <=> Clear(s) /\ Clear(t) /\ Clear(u)
  <2>1. s \o t \in Seq(Verdict) /\ (Clear(s \o t) <=> Clear(s) /\ Clear(t))
    BY <1>8
  <2>2. (s \o t) \o u \in Seq(Verdict) /\ (Clear((s \o t) \o u) <=> Clear(s \o t) /\ Clear(u))
    BY <1>8, <2>1
  <2>. QED  BY <2>1, <2>2
<1>14. /\ FaultsIn(text) \in Seq(Verdict)
       /\ Clear(FaultsIn(text)) <=>
            /\ Clear(four) /\ Clear(l5) /\ Clear(l6) /\ Clear(l7)
            /\ Clear(m5) /\ Clear(m6) /\ Clear(m7)
  <2> HIDE DEF four
  <2>1. five \in Seq(Verdict) /\ (Clear(five) <=> Clear(four) /\ Clear(m5) /\ Clear(l5))
    BY <1>2, <1>5, <1>12, <1>13
  <2> HIDE DEF five
  <2>2. six \in Seq(Verdict) /\ (Clear(six) <=> Clear(five) /\ Clear(m6) /\ Clear(l6))
    BY <1>2, <1>6, <1>13, <2>1
  <2> HIDE DEF six
  <2>3. seven \in Seq(Verdict) /\ (Clear(seven) <=> Clear(six) /\ Clear(m7) /\ Clear(l7))
    BY <1>2, <1>7, <1>13, <2>2
  <2> HIDE DEF seven
  <2>. QED  BY <1>12, <2>1, <2>2, <2>3
<1>15. Readable(text) <=> /\ Clear(l1) /\ Clear(l2) /\ Clear(l3) /\ Clear(l4)
                          /\ Clear(l5) /\ Clear(l6) /\ Clear(l7)
                          /\ Clear(m5) /\ Clear(m6) /\ Clear(m7)
  BY <1>2, <1>3, <1>4, <1>5, <1>6, <1>7 DEF Readable
<1>16. Readable(text) <=> Clear(FaultsIn(text))
  BY <1>9, <1>10, <1>11, <1>14, <1>15 DEF four
<1>. QED  BY <1>14, <1>16 DEF Clear

(* A text loads if nothing is wrong with it nor with the map it describes. *)
LEMMA Loads ==
  ASSUME NEW text \in Text
  PROVE  Outcome(text) = "loaded" <=> Readable(text) /\ IsValid(Validate(Parsed(text)))
<1> DEFINE faults == FaultsIn(text)
           wrong == {i \in 1..Len(faults) : faults[i] # "none"}
           first == Seqs!SelectInSeq(faults, LAMBDA fault : fault # "none")
<1>1. faults \in Seq(Verdict)
  BY FaultsTold
<1>2. text \notin {NoFile, Torn, NotAnObject}
  BY FileAssumption
<1>3. Outcome(text) = IF first # 0 THEN faults[first]
                      ELSE IF IsValid(Validate(Parsed(text))) THEN "loaded"
                      ELSE "validation_failed"
  BY <1>2 DEF Outcome
<1>4. first = IF wrong # {} THEN First(wrong) ELSE 0
  BY DEF Seqs!SelectInSeq, Seqs!Min, First
<1>5. wrong \in SUBSET Nat /\ wrong \subseteq 1..Len(faults)
  OBVIOUS
<1>6. wrong = {} <=> \A fault \in Seqs!ToSet(faults) : fault = "none"
  <2>1. DOMAIN faults = 1..Len(faults)
    BY <1>1
  <2> HIDE DEF faults
  <2>2. wrong = {} <=> \A i \in DOMAIN faults : faults[i] = "none"
    BY <2>1
  <2>. QED  BY <2>2 DEF Seqs!ToSet
<1>7. wrong = {} <=> Readable(text)
  BY <1>6, FaultsTold
<1>8. \A i \in wrong : faults[i] \in Verdict
  BY <1>1
<1> HIDE DEF first, wrong, faults
<1>9. ASSUME wrong # {} PROVE first # 0 /\ faults[first] \in Verdict
  <2>1. PICK m \in wrong : \A x \in wrong : m <= x
    BY <1>5, <1>9, LeastNatural
  <2>2. First(wrong) \in wrong
    BY <2>1 DEF First
  <2>3. First(wrong) # 0
    BY <1>5, <2>2
  <2>. QED  BY <1>4, <1>8, <1>9, <2>2, <2>3
<1>10. \A verdict \in Verdict : verdict # "loaded"
  BY DEF Verdict
<1>11. CASE wrong = {}
  BY <1>3, <1>4, <1>7, <1>11
<1>12. CASE wrong # {}
  BY <1>3, <1>7, <1>9, <1>10, <1>12
<1>. QED  BY <1>11, <1>12

LEMMA ReadableTyped ==
  ASSUME NEW text \in Text, Readable(text)
  PROVE  /\ Parsed(text) \in MapData
         /\ text.nodes = Listed(text.nodes) /\ text.edges = Listed(text.edges)
<1> DEFINE map == Parsed(text)
<1>1. text.nodes = Listed(text.nodes) /\ text.edges = Listed(text.edges)
  BY DEF Readable, Listed, Optional
<1>2. map.nodes \in Seq(Node)
  <2> DEFINE list == Listed(text.nodes)
             f == [i \in DOMAIN list |-> NodeOf(list[i])]
  <2>1. list \in Seq(NodeEntry) /\ \A i \in DOMAIN list : NodeFault(list[i]) = "none"
    BY TextTypes DEF Readable
  <2>2. map.nodes = f
    BY <1>1 DEF Parsed, Each
  <2> HIDE DEF list, map
  <2>3. \A i \in DOMAIN list : list[i] \in NodeEntry
    BY <2>1
  <2>4. f \in [DOMAIN list -> Node]
    BY <2>1, <2>3, NodeReread
  <2> HIDE DEF f
  <2>. QED  BY <2>1, <2>2, <2>4, EachListed
<1>3. map.edges \in Seq(Edge)
  <2> DEFINE list == Listed(text.edges)
             f == [i \in DOMAIN list |-> EdgeOf(list[i], text.speed)]
  <2>1. /\ list \in Seq(EdgeEntry) /\ \A i \in DOMAIN list : EdgeFault(list[i]) = "none"
        /\ text.speed \in Said(Int)
    BY TextTypes DEF Readable
  <2>2. map.edges = f
    BY <1>1 DEF Parsed, Each
  <2> HIDE DEF list, map
  <2>3. \A i \in DOMAIN list : list[i] \in EdgeEntry
    BY <2>1
  <2>4. f \in [DOMAIN list -> Edge]
    BY <2>1, <2>3, EdgeReread
  <2> HIDE DEF f
  <2>. QED  BY <2>1, <2>2, <2>4, EachListed
<1>4. map.corridors \in Seq(Corridor)
  <2> DEFINE list == Listed(text.corridors)
             f == [i \in DOMAIN list |-> CorridorOf(list[i])]
  <2>1. list \in Seq(CorridorEntry) /\ \A i \in DOMAIN list : CorridorFault(list[i]) = "none"
    BY TextTypes DEF Readable
  <2>2. map.corridors = f
    BY DEF Parsed, Each
  <2> HIDE DEF list, map
  <2>3. \A i \in DOMAIN list : list[i] \in CorridorEntry
    BY <2>1
  <2>4. f \in [DOMAIN list -> Corridor]
    BY <2>1, <2>3, CorridorReread
  <2> HIDE DEF f
  <2>. QED  BY <2>1, <2>2, <2>4, EachListed
<1>5. map.intersections \in Seq(Intersection)
  <2> DEFINE list == Listed(text.intersections)
             f == [i \in DOMAIN list |-> IntersectionOf(list[i])]
  <2>1. /\ list \in Seq(IntersectionEntry)
        /\ \A i \in DOMAIN list : IntersectionFault(list[i]) = "none"
    BY TextTypes DEF Readable
  <2>2. map.intersections = f
    BY DEF Parsed, Each
  <2> HIDE DEF list, map
  <2>3. \A i \in DOMAIN list : list[i] \in IntersectionEntry
    BY <2>1
  <2>4. f \in [DOMAIN list -> Intersection]
    BY <2>1, <2>3, IntersectionReread
  <2> HIDE DEF f
  <2>. QED  BY <2>1, <2>2, <2>4, EachListed
<1>6. map.bays \in Seq(Bay)
  <2> DEFINE list == Listed(text.bays)
             f == [i \in DOMAIN list |-> BayOf(list[i])]
  <2>1. list \in Seq(BayEntry) /\ \A i \in DOMAIN list : BayFault(list[i]) = "none"
    BY TextTypes DEF Readable
  <2>2. map.bays = f
    BY DEF Parsed, Each
  <2> HIDE DEF list, map
  <2>3. \A i \in DOMAIN list : list[i] \in BayEntry
    BY <2>1
  <2>4. f \in [DOMAIN list -> Bay]
    BY <2>1, <2>3, BayReread
  <2> HIDE DEF f
  <2>. QED  BY <2>1, <2>2, <2>4, EachListed
<1>7. map = [nodes |-> map.nodes, edges |-> map.edges, corridors |-> map.corridors,
             intersections |-> map.intersections, bays |-> map.bays]
  BY DEF Parsed
<1> HIDE DEF map
<1>8. map \in MapData
  BY <1>2, <1>3, <1>4, <1>5, <1>6, <1>7 DEF MapData
<1>. QED  BY <1>1, <1>8 DEF map

(* A list that is left out if there is nothing in it is there all the same. *)
UnlessEmpty(list) == IF list = << >> THEN Absent ELSE list

LEMMA LeftOut ==
  ASSUME NEW S, NEW list \in Seq(S), IsGiven(list)
  PROVE  /\ Listed(UnlessEmpty(list)) = list /\ UnlessEmpty(list) \in Said(Seq(S))
         /\ UnlessEmpty(list) # Mistyped
<1>1. ~IsGiven(Absent) /\ Absent # Mistyped /\ list # Mistyped
  BY Given, FileAssumption
<1>. QED  BY <1>1 DEF Listed, UnlessEmpty, Optional, Said

LEMMA ListsGiven ==
  \A list : list \in Seq(NodeEntry) \/ list \in Seq(EdgeEntry) \/ list \in Seq(CorridorEntry)
              \/ list \in Seq(IntersectionEntry) \/ list \in Seq(BayEntry)
            => IsGiven(list)
BY FileAssumption DEF IsGiven

(* A map that was read is written as a text that reads as the same map.    *)
LEMMA TextReread ==
  ASSUME NEW text \in Text, Readable(text), Clean(Parsed(text))
  PROVE  LET again == TextOf(Parsed(text))
         IN  again \in Text /\ Readable(again) /\ Parsed(again) = Parsed(text)
<1> DEFINE map == Parsed(text)
           again == TextOf(map)
<1>1. /\ map \in MapData
      /\ text.nodes = Listed(text.nodes) /\ text.edges = Listed(text.edges)
  BY ReadableTyped
<1>2. /\ map = [nodes |-> map.nodes, edges |-> map.edges, corridors |-> map.corridors,
                intersections |-> map.intersections, bays |-> map.bays]
      /\ map.nodes = Each(Listed(text.nodes), NodeOf)
      /\ map.edges = Each(Listed(text.edges), LAMBDA entry : EdgeOf(entry, text.speed))
      /\ map.corridors = Each(Listed(text.corridors), CorridorOf)
      /\ map.intersections = Each(Listed(text.intersections), IntersectionOf)
      /\ map.bays = Each(Listed(text.bays), BayOf)
  BY <1>1 DEF Parsed
<1>3. again = [speed |-> Absent,
               nodes |-> Each(map.nodes, NodeText),
               edges |-> Each(map.edges, EdgeText),
               corridors |-> UnlessEmpty(Each(map.corridors, CorridorText)),
               intersections |-> UnlessEmpty(map.intersections),
               bays |-> UnlessEmpty(map.bays)]
  BY DEF TextOf, UnlessEmpty
<1> HIDE DEF map, again
<1>4. /\ again.nodes \in Seq(NodeEntry) /\ IsGiven(again.nodes)
      /\ Each(again.nodes, NodeOf) = map.nodes
      /\ \A i \in DOMAIN again.nodes : NodeFault(again.nodes[i]) = "none"
  <2> DEFINE list == Listed(text.nodes)
             f == [i \in DOMAIN list |-> NodeOf(list[i])]
             g == [i \in DOMAIN list |-> NodeText(NodeOf(list[i]))]
  <2>1. list \in Seq(NodeEntry) /\ \A i \in DOMAIN list : NodeFault(list[i]) = "none"
    BY TextTypes DEF Readable
  <2>2. map.nodes = f
    BY <1>2 DEF Each
  <2> HIDE DEF list
  <2>3. again.nodes = g
    BY <1>3, <2>2 DEF Each
  <2>4. \A i \in DOMAIN list :
          /\ NodeText(NodeOf(list[i])) \in NodeEntry
          /\ NodeFault(NodeText(NodeOf(list[i]))) = "none"
          /\ NodeOf(NodeText(NodeOf(list[i]))) = NodeOf(list[i])
    <3>1. \A i \in DOMAIN list : list[i] \in NodeEntry
      BY <2>1
    <3>. QED  BY <2>1, <3>1, NodeReread
  <2>5. g \in [DOMAIN list -> NodeEntry] /\ DOMAIN g = DOMAIN list
    BY <2>4
  <2>6. Each(g, NodeOf) = f
    BY <2>4 DEF Each
  <2>7. \A i \in DOMAIN g : NodeFault(g[i]) = "none"
    BY <2>4
  <2> HIDE DEF f, g
  <2>8. g \in Seq(NodeEntry)
    BY <2>1, <2>5, EachListed
  <2>. QED  BY <2>2, <2>3, <2>6, <2>7, <2>8, ListsGiven
<1>5. /\ again.edges \in Seq(EdgeEntry) /\ IsGiven(again.edges)
      /\ Each(again.edges, LAMBDA entry : EdgeOf(entry, Absent)) = map.edges
      /\ \A i \in DOMAIN again.edges : EdgeFault(again.edges[i]) = "none"
  <2> DEFINE list == Listed(text.edges)
             f == [i \in DOMAIN list |-> EdgeOf(list[i], text.speed)]
             g == [i \in DOMAIN list |-> EdgeText(EdgeOf(list[i], text.speed))]
  <2>1. /\ list \in Seq(EdgeEntry) /\ \A i \in DOMAIN list : EdgeFault(list[i]) = "none"
        /\ text.speed \in Said(Int)
    BY TextTypes DEF Readable
  <2>2. map.edges = f
    BY <1>2 DEF Each
  <2> HIDE DEF list
  <2>3. again.edges = g
    BY <1>3, <2>2 DEF Each
  <2>4. \A i \in DOMAIN list : f[i].speed_limit > 0
    BY <2>2 DEF Clean, Seqs!ToSet, map
  <2>5. \A i \in DOMAIN list :
          /\ EdgeText(EdgeOf(list[i], text.speed)) \in EdgeEntry
          /\ EdgeFault(EdgeText(EdgeOf(list[i], text.speed))) = "none"
          /\ EdgeOf(EdgeText(EdgeOf(list[i], text.speed)), Absent) = EdgeOf(list[i], text.speed)
    <3>1. \A i \in DOMAIN list : list[i] \in EdgeEntry
      BY <2>1
    <3>2. \A i \in DOMAIN list : EdgeOf(list[i], text.speed).speed_limit > 0
      BY <2>4
    <3>. QED  BY <2>1, <3>1, <3>2, EdgeReread
  <2>6. g \in [DOMAIN list -> EdgeEntry] /\ DOMAIN g = DOMAIN list
    BY <2>5
  <2>7. Each(g, LAMBDA entry : EdgeOf(entry, Absent)) = f
    BY <2>5 DEF Each
  <2>8. \A i \in DOMAIN g : EdgeFault(g[i]) = "none"
    BY <2>5
  <2> HIDE DEF f, g
  <2>9. g \in Seq(EdgeEntry)
    BY <2>1, <2>6, EachListed
  <2>. QED  BY <2>2, <2>3, <2>7, <2>8, <2>9, ListsGiven
<1>6. /\ Listed(again.corridors) \in Seq(CorridorEntry)
      /\ again.corridors \in Said(Seq(CorridorEntry)) \ {Mistyped}
      /\ Each(Listed(again.corridors), CorridorOf) = map.corridors
      /\ \A i \in DOMAIN Listed(again.corridors) :
           CorridorFault(Listed(again.corridors)[i]) = "none"
  <2> DEFINE list == Listed(text.corridors)
             f == [i \in DOMAIN list |-> CorridorOf(list[i])]
             g == [i \in DOMAIN list |-> CorridorText(CorridorOf(list[i]))]
  <2>1. list \in Seq(CorridorEntry) /\ \A i \in DOMAIN list : CorridorFault(list[i]) = "none"
    BY TextTypes DEF Readable
  <2>2. map.corridors = f
    BY <1>2 DEF Each
  <2> HIDE DEF list
  <2>3. again.corridors = UnlessEmpty(g)
    BY <1>3, <2>2 DEF Each
  <2>4. \A i \in DOMAIN list :
          /\ CorridorText(CorridorOf(list[i])) \in CorridorEntry
          /\ CorridorFault(CorridorText(CorridorOf(list[i]))) = "none"
          /\ CorridorOf(CorridorText(CorridorOf(list[i]))) = CorridorOf(list[i])
    <3>1. \A i \in DOMAIN list : list[i] \in CorridorEntry
      BY <2>1
    <3>. QED  BY <2>1, <3>1, CorridorReread
  <2>5. g \in [DOMAIN list -> CorridorEntry] /\ DOMAIN g = DOMAIN list
    BY <2>4
  <2>6. Each(g, CorridorOf) = f
    BY <2>4 DEF Each
  <2>7. \A i \in DOMAIN g : CorridorFault(g[i]) = "none"
    BY <2>4
  <2> HIDE DEF f, g
  <2>8. g \in Seq(CorridorEntry)
    BY <2>1, <2>5, EachListed
  <2>9. /\ Listed(UnlessEmpty(g)) = g /\ UnlessEmpty(g) # Mistyped
        /\ UnlessEmpty(g) \in Said(Seq(CorridorEntry))
    BY <2>8, LeftOut, ListsGiven
  <2>. QED  BY <2>2, <2>3, <2>6, <2>7, <2>8, <2>9
<1>7. /\ Listed(again.intersections) \in Seq(IntersectionEntry)
      /\ again.intersections \in Said(Seq(IntersectionEntry)) \ {Mistyped}
      /\ Each(Listed(again.intersections), IntersectionOf) = map.intersections
      /\ \A i \in DOMAIN Listed(again.intersections) :
           IntersectionFault(Listed(again.intersections)[i]) = "none"
  <2> DEFINE list == Listed(text.intersections)
             f == [i \in DOMAIN list |-> IntersectionOf(list[i])]
  <2>1. /\ list \in Seq(IntersectionEntry)
        /\ \A i \in DOMAIN list : IntersectionFault(list[i]) = "none"
    BY TextTypes DEF Readable
  <2>2. map.intersections = f
    BY <1>2 DEF Each
  <2> HIDE DEF list
  <2>3. again.intersections = UnlessEmpty(f)
    BY <1>3, <2>2
  <2>4. \A i \in DOMAIN list :
          /\ IntersectionOf(list[i]) \in IntersectionEntry
          /\ IntersectionFault(IntersectionOf(list[i])) = "none"
          /\ IntersectionOf(IntersectionOf(list[i])) = IntersectionOf(list[i])
    <3>1. \A i \in DOMAIN list : list[i] \in IntersectionEntry
      BY <2>1
    <3>. QED  BY <2>1, <3>1, IntersectionReread
  <2>5. f \in [DOMAIN list -> IntersectionEntry]
    BY <2>4
  <2>6. Each(f, IntersectionOf) = f
    BY <2>4 DEF Each
  <2>7. \A i \in DOMAIN f : IntersectionFault(f[i]) = "none"
    BY <2>4
  <2> HIDE DEF f
  <2>8. f \in Seq(IntersectionEntry)
    BY <2>1, <2>5, EachListed
  <2>9. /\ Listed(UnlessEmpty(f)) = f /\ UnlessEmpty(f) # Mistyped
        /\ UnlessEmpty(f) \in Said(Seq(IntersectionEntry))
    BY <2>8, LeftOut, ListsGiven
  <2>. QED  BY <2>2, <2>3, <2>6, <2>7, <2>8, <2>9
<1>8. /\ Listed(again.bays) \in Seq(BayEntry)
      /\ again.bays \in Said(Seq(BayEntry)) \ {Mistyped}
      /\ Each(Listed(again.bays), BayOf) = map.bays
      /\ \A i \in DOMAIN Listed(again.bays) : BayFault(Listed(again.bays)[i]) = "none"
  <2> DEFINE list == Listed(text.bays)
             f == [i \in DOMAIN list |-> BayOf(list[i])]
  <2>1. list \in Seq(BayEntry) /\ \A i \in DOMAIN list : BayFault(list[i]) = "none"
    BY TextTypes DEF Readable
  <2>2. map.bays = f
    BY <1>2 DEF Each
  <2> HIDE DEF list
  <2>3. again.bays = UnlessEmpty(f)
    BY <1>3, <2>2
  <2>4. \A i \in DOMAIN list :
          /\ BayOf(list[i]) \in BayEntry
          /\ BayFault(BayOf(list[i])) = "none"
          /\ BayOf(BayOf(list[i])) = BayOf(list[i])
    <3>1. \A i \in DOMAIN list : list[i] \in BayEntry
      BY <2>1
    <3>. QED  BY <2>1, <3>1, BayReread
  <2>5. f \in [DOMAIN list -> BayEntry]
    BY <2>4
  <2>6. Each(f, BayOf) = f
    BY <2>4 DEF Each
  <2>7. \A i \in DOMAIN f : BayFault(f[i]) = "none"
    BY <2>4
  <2> HIDE DEF f
  <2>8. f \in Seq(BayEntry)
    BY <2>1, <2>5, EachListed
  <2>9. /\ Listed(UnlessEmpty(f)) = f /\ UnlessEmpty(f) # Mistyped
        /\ UnlessEmpty(f) \in Said(Seq(BayEntry))
    BY <2>8, LeftOut, ListsGiven
  <2>. QED  BY <2>2, <2>3, <2>6, <2>7, <2>8, <2>9
<1>9. Listed(again.nodes) = again.nodes /\ Listed(again.edges) = again.edges
  BY <1>4, <1>5 DEF Listed, Optional
<1>10. again = [speed |-> Absent, nodes |-> again.nodes, edges |-> again.edges,
                corridors |-> again.corridors, intersections |-> again.intersections,
                bays |-> again.bays]
  BY <1>3
<1>11. again \in Text
  <2>1. again.nodes \in Said(Seq(NodeEntry)) /\ again.edges \in Said(Seq(EdgeEntry))
        /\ Absent \in Said(Int)
    BY <1>4, <1>5 DEF Said
  <2>. QED  BY <1>6, <1>7, <1>8, <1>10, <2>1 DEF Text
<1>12. Readable(again)
  BY <1>4, <1>5, <1>6, <1>7, <1>8, <1>9 DEF Readable
<1>13. Parsed(again) = map
  <2>1. again.speed = Absent
    BY <1>10
  <2>2. Parsed(again) = [nodes |-> Each(again.nodes, NodeOf),
                         edges |-> Each(again.edges, LAMBDA entry : EdgeOf(entry, Absent)),
                         corridors |-> Each(Listed(again.corridors), CorridorOf),
                         intersections |-> Each(Listed(again.intersections), IntersectionOf),
                         bays |-> Each(Listed(again.bays), BayOf)]
    BY <2>1 DEF Parsed
  <2>. QED  BY <1>2, <1>4, <1>5, <1>6, <1>7, <1>8, <2>2
<1>. QED  BY <1>11, <1>12, <1>13 DEF map, again

-----------------------------------------------------------------------------
(* The site and its file, as they are worked on.                           *)
LEMMA RemovedIsList ==
  ASSUME NEW V, NEW s \in Seq(V), NEW i \in DOMAIN s
  PROVE  Seqs!RemoveAt(s, i) \in Seq(V)
<1>1. Len(s) \in Nat /\ i \in 1..Len(s)
  OBVIOUS
<1>2. SubSeq(s, 1, i - 1) \in Seq(V) /\ SubSeq(s, i + 1, Len(s)) \in Seq(V)
  <2>1. \A k \in 1..(i - 1) : k \in DOMAIN s
    BY <1>1
  <2>2. \A k \in (i + 1)..Len(s) : k \in DOMAIN s
    BY <1>1
  <2>. QED  BY <1>1, <2>1, <2>2, SubSeqProperties
<1>. QED  BY <1>2, ConcatProperties DEF Seqs!RemoveAt

LEMMA AddedIsList ==
  ASSUME NEW V, NEW s \in Seq(V), NEW part \in V
  PROVE  Append(s, part) \in Seq(V)
OBVIOUS

PartsIn(list) ==
  IF list = "nodes" THEN Node ELSE IF list = "edges" THEN Edge
  ELSE IF list = "corridors" THEN Corridor
  ELSE IF list = "intersections" THEN Intersection ELSE Bay

LEMMA ListChanged ==
  ASSUME NEW data \in MapData, NEW list \in Lists, NEW elements \in Seq(PartsIn(list))
  PROVE  [data EXCEPT ![list] = elements] \in MapData
<1>1. list \in {"nodes", "edges", "corridors", "intersections", "bays"}
  BY DEF Lists
<1>. QED  BY <1>1 DEF MapData, PartsIn

LEMMA ListOf ==
  ASSUME NEW data \in MapData, NEW list \in Lists
  PROVE  data[list] \in Seq(PartsIn(list)) /\ Parts[list] \subseteq PartsIn(list)
<1>1. list \in {"nodes", "edges", "corridors", "intersections", "bays"}
  BY DEF Lists
<1>. QED  BY <1>1, PartsAssumption DEF MapData, PartsIn

(* A map is built of what holds no error, and its report is of it.         *)
MInv ==
  /\ draft \in MapData
  /\ HasMap => built \in MapData /\ report = Validate(built) /\ IsValid(report)

LEMMA InitMInv == Init => MInv
BY PartsAssumption DEF Init, MInv, HasMap

LEMMA NextMInv == MInv /\ [Next]_vars => MInv'
<1> SUFFICES ASSUME MInv, [Next]_vars PROVE MInv'
  OBVIOUS
<1>1. ASSUME NEW list \in Lists, NEW part \in Parts[list], Add(list, part) PROVE MInv'
  <2>1. Append(draft[list], part) \in Seq(PartsIn(list))
    BY ListOf, AddedIsList DEF MInv
  <2>2. draft' \in MapData
    BY <1>1, <2>1, ListChanged DEF Add, Edit, MInv
  <2>. QED  BY <1>1, <2>2 DEF Add, Edit, MInv, HasMap
<1>2. ASSUME NEW list \in Lists, NEW i \in DOMAIN draft[list], Remove(list, i) PROVE MInv'
  <2>1. Seqs!RemoveAt(draft[list], i) \in Seq(PartsIn(list))
    BY ListOf, RemovedIsList DEF MInv
  <2>2. draft' \in MapData
    BY <1>2, <2>1, ListChanged DEF Remove, Edit, MInv
  <2>. QED  BY <1>2, <2>2 DEF Remove, Edit, MInv, HasMap
<1>3. ASSUME MakeMap PROVE MInv'
  BY <1>3 DEF MakeMap, MInv, HasMap
<1>4. ASSUME UNCHANGED vars PROVE MInv'
  BY <1>4 DEF vars, MInv, HasMap
<1>. QED  BY <1>1, <1>2, <1>3, <1>4 DEF Next

(* What such a map promises.                                               *)
LEMMA MapsKeepPromises ==
  ASSUME MInv
  PROVE  NamesCanBeTrusted /\ ResourcesLeadThrough /\ ReachabilityIsTrue
<1> SUFFICES ASSUME HasMap
             PROVE  NamesCanBeTrusted /\ ResourcesLeadThrough /\ ReachabilityIsTrue
  BY DEF NamesCanBeTrusted, ResourcesLeadThrough, ReachabilityIsTrue
<1>1. built \in MapData /\ report = Validate(built) /\ IsValid(Validate(built))
  BY DEF MInv
<1>2. Clean(built)
  BY <1>1, ValidIsClean
<1>3. TrustedNames(built)
  BY <1>1, <1>2, CleanNames
<1>4. LeadingThrough(built)
  BY <1>1, <1>2, CleanResources
<1>5. TrueReachability(built, report)
  BY <1>1, CleanReachability
<1>6. NamesCanBeTrusted
  BY <1>3 DEF TrustedNames, NamesCanBeTrusted
<1>7. ResourcesLeadThrough
  BY <1>4 DEF LeadingThrough, ResourcesLeadThrough
<1>8. ReachabilityIsTrue
  BY <1>5 DEF TrueReachability, ReachabilityIsTrue
<1>. QED  BY <1>6, <1>7, <1>8

(* What is drawn can be written.                                           *)
LEMMA PartsWritten ==
  /\ \A node \in Node : NodeText(node) \in NodeEntry
  /\ \A edge \in Edge : EdgeText(edge) \in EdgeEntry
  /\ \A corridor \in Corridor : CorridorText(corridor) \in CorridorEntry
  /\ Intersection \subseteq IntersectionEntry
  /\ Bay \subseteq BayEntry
<1>1. \A node \in Node : NodeText(node) \in NodeEntry
  BY DEF Node, NodeText, NodeEntry, Said, Word
<1>2. ASSUME NEW edge \in Edge PROVE EdgeText(edge) \in EdgeEntry
  <2>1. EdgeText(edge) =
          [id |-> edge.id, from |-> edge.from, to |-> edge.to, direction |-> edge.direction,
           enabled |-> edge.enabled, length |-> edge.length, speed_limit |-> edge.speed_limit,
           capacity |-> edge.capacity,
           resource |-> IF edge.resource = None THEN Absent ELSE edge.resource]
    BY DEF Edge, EdgeText
  <2> DEFINE text == EdgeText(edge)
  <2> HIDE DEF text
  <2>. QED  BY <2>1 DEF Edge, EdgeEntry, Said
<1>3. \A corridor \in Corridor : CorridorText(corridor) \in CorridorEntry
  BY DEF Corridor, CorridorText, CorridorEntry, Said, Word
<1>4. Intersection \subseteq IntersectionEntry
  BY DEF Intersection, IntersectionEntry, Said
<1>5. Bay \subseteq BayEntry
  BY DEF Bay, BayEntry, Said
<1>. QED  BY <1>1, <1>2, <1>3, <1>4, <1>5

LEMMA SavedIsText ==
  ASSUME NEW data \in MapData
  PROVE  TextOf(data) \in Text
<1>1. /\ data.nodes \in Seq(Node) /\ data.edges \in Seq(Edge)
      /\ data.corridors \in Seq(Corridor) /\ data.intersections \in Seq(Intersection)
      /\ data.bays \in Seq(Bay)
  BY DataTypes
<1> DEFINE nodes == [i \in DOMAIN data.nodes |-> NodeText(data.nodes[i])]
           edges == [i \in DOMAIN data.edges |-> EdgeText(data.edges[i])]
           corridors == [i \in DOMAIN data.corridors |-> CorridorText(data.corridors[i])]
<1>2. nodes \in Seq(NodeEntry)
  <2>1. \A i \in DOMAIN data.nodes : data.nodes[i] \in Node
    BY <1>1
  <2>2. nodes \in [DOMAIN data.nodes -> NodeEntry]
    BY <2>1, PartsWritten
  <2> HIDE DEF nodes
  <2>. QED  BY <1>1, <2>2, EachListed
<1>3. edges \in Seq(EdgeEntry)
  <2>1. \A i \in DOMAIN data.edges : data.edges[i] \in Edge
    BY <1>1
  <2>2. edges \in [DOMAIN data.edges -> EdgeEntry]
    BY <2>1, PartsWritten
  <2> HIDE DEF edges
  <2>. QED  BY <1>1, <2>2, EachListed
<1>4. corridors \in Seq(CorridorEntry)
  <2>1. \A i \in DOMAIN data.corridors : data.corridors[i] \in Corridor
    BY <1>1
  <2>2. corridors \in [DOMAIN data.corridors -> CorridorEntry]
    BY <2>1, PartsWritten
  <2> HIDE DEF corridors
  <2>. QED  BY <1>1, <2>2, EachListed
<1>5. data.intersections \in Seq(IntersectionEntry) /\ data.bays \in Seq(BayEntry)
  BY <1>1, PartsWritten
<1>6. TextOf(data) = [speed |-> Absent, nodes |-> nodes, edges |-> edges,
                      corridors |-> UnlessEmpty(corridors),
                      intersections |-> UnlessEmpty(data.intersections),
                      bays |-> UnlessEmpty(data.bays)]
  BY DEF TextOf, UnlessEmpty, Each
<1> HIDE DEF nodes, edges, corridors
<1>7. \A S : \A list \in Seq(S) : UnlessEmpty(list) \in Said(Seq(S))
  BY DEF UnlessEmpty, Said
<1>8. nodes \in Said(Seq(NodeEntry)) /\ edges \in Said(Seq(EdgeEntry)) /\ Absent \in Said(Int)
  BY <1>2, <1>3 DEF Said
<1>9. /\ UnlessEmpty(corridors) \in Said(Seq(CorridorEntry))
      /\ UnlessEmpty(data.intersections) \in Said(Seq(IntersectionEntry))
      /\ UnlessEmpty(data.bays) \in Said(Seq(BayEntry))
  BY <1>4, <1>5, <1>7
<1>. QED  BY <1>6, <1>8, <1>9 DEF Text

EntriesIn(list) ==
  IF list = "nodes" THEN NodeEntry ELSE IF list = "edges" THEN EdgeEntry
  ELSE IF list = "corridors" THEN CorridorEntry
  ELSE IF list = "intersections" THEN IntersectionEntry ELSE BayEntry

LEMMA TextChanged ==
  ASSUME NEW text \in Text, NEW list \in Lists, NEW elements \in Said(Seq(EntriesIn(list)))
  PROVE  [text EXCEPT ![list] = elements] \in Text
<1>1. list \in {"nodes", "edges", "corridors", "intersections", "bays"}
  BY DEF Lists
<1>. QED  BY <1>1 DEF Text, EntriesIn

LEMMA EntriesOf ==
  ASSUME NEW text \in Text, NEW list \in Lists
  PROVE  /\ Listed(text[list]) \in Seq(EntriesIn(list))
         /\ Entries[list] \subseteq EntriesIn(list)
<1>1. list \in {"nodes", "edges", "corridors", "intersections", "bays"}
  BY DEF Lists
<1>2. Entries[list] \subseteq EntriesIn(list)
  BY <1>1, FileAssumption DEF EntriesIn
<1>. QED  BY <1>1, <1>2, TextTypes DEF EntriesIn

(* A loaded map is that of the file, until something else is done.         *)
LoadedIsFile ==
  outcome = "loaded" => file \in Text /\ Outcome(file) = "loaded" /\ built = Parsed(file)

MapInv ==
  /\ MInv
  /\ file \in Text \cup {NoFile, Torn, NotAnObject}
  /\ LoadedIsFile

LEMMA InitMapInv == FileInit => MapInv
BY InitMInv, FileAssumption DEF FileInit, MapInv, LoadedIsFile

LEMMA Retyped ==
  ASSUME MapInv, IsText, NEW list, NEW elements, Retype(list, elements),
         [file EXCEPT ![list] = elements] \in Text
  PROVE  MapInv'
BY DEF Retype, MapInv, LoadedIsFile, MInv, HasMap

LEMMA LoadStep == MapInv /\ Load => MapInv'
<1> SUFFICES ASSUME MapInv, Load PROVE MapInv'
  OBVIOUS
<1>1. file' = file /\ outcome' = Outcome(file) /\ file \in Text \cup {NoFile, Torn, NotAnObject}
  BY DEF Load, MapInv
<1>2. CASE outcome' = "loaded"
  <2>1. file \in Text
    BY <1>1, <1>2 DEF Outcome
  <2>2. /\ draft' = Parsed(file) /\ built' = Parsed(file)
        /\ report' = Validate(Parsed(file))
    BY <1>2 DEF Load
  <2>3. Readable(file) /\ IsValid(Validate(Parsed(file)))
    BY <1>1, <1>2, <2>1, Loads
  <2>4. Parsed(file) \in MapData
    BY <2>1, <2>3, ReadableTyped
  <2>5. MInv'
    BY <2>2, <2>3, <2>4 DEF MInv, HasMap
  <2>. QED  BY <1>1, <1>2, <2>1, <2>2, <2>5 DEF MapInv, LoadedIsFile
<1>3. CASE outcome' # "loaded"
  <2>1. built' = None /\ draft' = draft
    BY <1>3 DEF Load
  <2>2. MInv'
    BY <2>1 DEF MapInv, MInv, HasMap
  <2>. QED  BY <1>1, <1>3, <2>2 DEF MapInv, LoadedIsFile
<1>. QED  BY <1>2, <1>3

LEMMA NextMapInv == MapInv /\ [FileNext]_fileVars => MapInv'
<1> SUFFICES ASSUME MapInv, [FileNext]_fileVars PROVE MapInv'
  OBVIOUS
<1>1. IsText => file \in Text
  BY DEF IsText, MapInv
<1>2. ASSUME IsText, NEW list \in Lists, NEW entry \in Entries[list], Write(list, entry)
      PROVE  MapInv'
  <2>1. Append(Listed(file[list]), entry) \in Seq(EntriesIn(list))
    BY <1>1, <1>2, EntriesOf, AddedIsList
  <2>2. [file EXCEPT ![list] = Append(Listed(file[list]), entry)] \in Text
    BY <1>1, <1>2, <2>1, TextChanged DEF Said
  <2>. QED  BY <1>2, <2>2, Retyped DEF Write
<1>3. ASSUME IsText, NEW list \in Lists, NEW i \in DOMAIN Listed(file[list]), Strike(list, i)
      PROVE  MapInv'
  <2>2. file[list] = Listed(file[list])
    <3>1. DOMAIN << >> = {}
      OBVIOUS
    <3>. QED  BY <1>3, <3>1 DEF Listed, Optional
  <2>3. Seqs!RemoveAt(file[list], i) \in Seq(EntriesIn(list))
    BY <1>1, <1>3, <2>2, EntriesOf, RemovedIsList
  <2>4. [file EXCEPT ![list] = Seqs!RemoveAt(file[list], i)] \in Text
    BY <1>1, <1>3, <2>3, TextChanged DEF Said
  <2>. QED  BY <1>3, <2>4, Retyped DEF Strike
<1>4. ASSUME IsText, NEW list \in Lists, LeaveOut(list) PROVE MapInv'
  <2>1. PICK what \in {Absent, Mistyped} : Retype(list, what)
    BY <1>4 DEF LeaveOut
  <2>2. [file EXCEPT ![list] = what] \in Text
    BY <1>1, <1>4, TextChanged DEF Said
  <2>. QED  BY <1>4, <2>1, <2>2, Retyped
<1>5. ASSUME IsText, NEW speed \in Speeds, SetDefault(speed) PROVE MapInv'
  <2>1. speed \in Said(Int)
    BY FileAssumption
  <2>2. [file EXCEPT !["speed"] = speed] \in Text
    BY <1>1, <1>5, <2>1 DEF Text
  <2>. QED  BY <1>5, <2>2, Retyped DEF SetDefault
<1>6. ASSUME Load PROVE MapInv'
  BY <1>6, LoadStep
<1>7. ASSUME Save PROVE MapInv'
  <2>1. built \in MapData
    BY <1>7 DEF Save, MapInv, MInv
  <2>2. file' \in Text \cup {NoFile, Torn, NotAnObject} /\ outcome' # "loaded" /\ UNCHANGED vars
    BY <1>7, <2>1, SavedIsText DEF Save, MapInv
  <2>. QED  BY <2>2 DEF MapInv, LoadedIsFile, MInv, HasMap, vars
<1>8. ASSUME Work PROVE MapInv'
  <2>1. MInv'
    BY <1>8, NextMInv DEF Work, MapInv
  <2>. QED  BY <1>8, <2>1 DEF Work, MapInv, LoadedIsFile
<1>9. ASSUME UNCHANGED fileVars PROVE MapInv'
  BY <1>9 DEF fileVars, vars, MapInv, LoadedIsFile, MInv, HasMap
<1>. QED
  BY <1>2, <1>3, <1>4, <1>5, <1>6, <1>7, <1>8, <1>9 DEF FileNext

LEMMA MapInvariant == FileSpec => []MapInv
BY InitMapInv, NextMapInv, PTL DEF FileSpec

(* Names, capacities and ends of moves, of whatever map came of however    *)
(* many edits and files (validate, make_map, Map).                         *)
THEOREM MapsResolve == FileSpec => []NamesCanBeTrusted
<1>1. MapInv => NamesCanBeTrusted
  BY MapsKeepPromises DEF MapInv
<1>. QED  BY <1>1, MapInvariant, PTL

(* Every corridor of every map is one passage, from either end, and        *)
(* movements that exclude each other are the intersection's own (the       *)
(* cursor that validate moves along the edges).                            *)
THEOREM CorridorsArePassages == FileSpec => []ResourcesLeadThrough
<1>1. MapInv => ResourcesLeadThrough
  BY MapsKeepPromises DEF MapInv
<1>. QED  BY <1>1, MapInvariant, PTL

(* Whatever the size of the map: as many rings as it has nodes find what   *)
(* any sequence of legal moves leads to, and nothing else                  *)
(* (reachable_from, is_reachable, the warnings of validate).               *)
THEOREM SearchFindsWhatCanBeDriven == FileSpec => []ReachabilityIsTrue
<1>1. MapInv => ReachabilityIsTrue
  BY MapsKeepPromises DEF MapInv
<1>. QED  BY <1>1, MapInvariant, PTL

(* Whatever a file leaves to the defaults, and in however wide an integer  *)
(* capacities are kept: a map that was loaded loads again from what        *)
(* save_map_to_json makes of it, and is the same.                          *)
THEOREM LoadedMapsRoundTrip == FileSpec => []RoundTrips
<1>1. MapInv => RoundTrips
  <2> SUFFICES ASSUME MapInv, outcome = "loaded"
               PROVE  Outcome(TextOf(built)) = "loaded" /\ Parsed(TextOf(built)) = built
    BY DEF RoundTrips
  <2>1. file \in Text /\ Outcome(file) = "loaded" /\ built = Parsed(file)
    BY DEF MapInv, LoadedIsFile
  <2>2. Readable(file) /\ IsValid(Validate(built))
    BY <2>1, Loads
  <2>3. built \in MapData
    BY <2>1, <2>2, ReadableTyped
  <2>4. Clean(built)
    BY <2>2, <2>3, ValidIsClean
  <2>5. TextOf(built) \in Text /\ Readable(TextOf(built)) /\ Parsed(TextOf(built)) = built
    BY <2>1, <2>2, <2>4, TextReread
  <2>. QED  BY <2>2, <2>5, Loads
<1>. QED  BY <1>1, MapInvariant, PTL
=============================================================================
