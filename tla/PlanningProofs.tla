--------------------------- MODULE PlanningProofs ---------------------------
(***************************************************************************)
(* The planner on any map, under any constraints and traffic: what a       *)
(* search has behind it and before it, that what it answers can be driven  *)
(* and is the cheapest there is, that the order of the edges decides       *)
(* nothing, and what becomes of batches and replans.                       *)
(***************************************************************************)
EXTENDS FleetPlanning, FiniteSetFacts

(* A composition at work under some traffic.                               *)
Composed == planner \in Planners /\ surcharge \in Surcharges

(* Costs and estimates are numbers.                                        *)
LEMMA MapIsMap ==
  ASSUME Composed
  PROVE  /\ IsMap(Map) /\ NodesOf(Map) \subseteq Nat /\ EdgesOf(Map) \subseteq Nat
         /\ NodesOf(Map) \subseteq NodeId /\ EdgesOf(Map) \subseteq EdgeId
         /\ IsFiniteSet(NodesOf(Map)) /\ IsFiniteSet(EdgesOf(Map))
         /\ None \notin NodesOf(Map) \cup EdgesOf(Map)
         /\ Map.position \in [NodesOf(Map) -> Int]
         /\ \A id \in EdgesOf(Map) :
              /\ Map.edge[id] \in Edge
              /\ Map.edge[id].from \in NodesOf(Map) /\ Map.edge[id].to \in NodesOf(Map)
BY PlannerAssumption, IdAssumption DEF Composed, IsMap, Map

LEMMA TimesAreNumbers ==
  ASSUME NEW edge \in Edge
  PROVE  TravelTime(edge) \in Int /\ edge.length \in Nat /\ edge.pace \in Nat
<1>1. edge.length * edge.pace \in Nat
  BY DEF Edge
<1>2. edge.travel_time_override \in Int \cup {None}
  BY DEF Edge
<1>. QED  BY <1>1, <1>2 DEF Edge, TravelTime

LEMMA CostsAreNumbers ==
  ASSUME Composed, NEW id \in EdgesOf(Map), NEW constraints
  PROVE  EdgeCost(Map, id, constraints, surcharge) \in Int
<1> DEFINE edge == Map.edge[id]
           resource == ResourceOf(Map, id)
           extra == IF resource \in DOMAIN surcharge THEN surcharge[resource] ELSE 0
           factor == IF resource \in constraints.preferred THEN PreferredFactor ELSE FactorUnit
<1>1. edge.length \in Nat /\ TravelTime(edge) \in Int
  BY MapIsMap, TimesAreNumbers
<1>2. extra \in Nat
  BY CallAssumption DEF Composed
<1>3. factor \in Nat /\ DistanceWeight \in Nat /\ TimeWeight \in Nat
  BY WeightAssumption
<1>4. EdgeCost(Map, id, constraints, surcharge)
        = (DistanceWeight * edge.length + TimeWeight * TravelTime(edge) + extra) * factor
  BY DEF EdgeCost
<1> HIDE DEF edge, extra, factor
<1>5. DistanceWeight * edge.length \in Nat /\ TimeWeight * TravelTime(edge) \in Int
  BY <1>1, <1>3
<1>6. DistanceWeight * edge.length + TimeWeight * TravelTime(edge) + extra \in Int
  BY <1>2, <1>5
<1>. QED  BY <1>3, <1>4, <1>6

LEMMA LeastPaceIsLeast ==
  ASSUME Composed, EdgesOf(Map) # {}
  PROVE  /\ LeastPace(Map) \in Nat
         /\ \A id \in EdgesOf(Map) : LeastPace(Map) <= Map.edge[id].pace
<1> DEFINE paces == {Map.edge[id].pace : id \in EdgesOf(Map)}
<1>1. paces \in SUBSET Nat /\ paces # {}
  BY MapIsMap, TimesAreNumbers
<1> HIDE DEF paces
<1>2. PICK m \in paces : \A x \in paces : m <= x
  BY <1>1, LeastNatural
<1>3. Sets!Min(paces) \in paces /\ \A x \in paces : Sets!Min(paces) <= x
  BY <1>2 DEF Sets!Min
<1>. QED  BY <1>1, <1>3 DEF LeastPace, paces

LEMMA EstimatesAreNumbers ==
  ASSUME Composed, NEW node \in NodesOf(Map), NEW goal \in NodesOf(Map)
  PROVE  /\ Distance(Map, node, goal) \in Nat
         /\ MinCostPerMetre(Map) \in Nat
         /\ Estimate(node, goal) \in Nat
<1>1. Distance(Map, node, goal) \in Nat
  BY MapIsMap DEF Distance, Abs
<1>2. MinCostPerMetre(Map) \in Nat
  <2>1. CASE EdgesOf(Map) = {}
    BY <2>1 DEF MinCostPerMetre
  <2>2. CASE EdgesOf(Map) # {}
    <3> DEFINE pace == LeastPace(Map)
    <3>1. /\ pace \in Nat /\ PreferredFactor \in Nat
          /\ DistanceWeight \in Nat /\ TimeWeight \in Nat
      BY <2>2, LeastPaceIsLeast, WeightAssumption
    <3>2. MinCostPerMetre(Map) = PreferredFactor * (DistanceWeight + TimeWeight * pace)
      BY <2>2 DEF MinCostPerMetre
    <3> HIDE DEF pace
    <3>3. TimeWeight * pace \in Nat
      BY <3>1
    <3>4. DistanceWeight + TimeWeight * pace \in Nat
      BY <3>1, <3>3
    <3>. QED  BY <3>1, <3>2, <3>4
  <2>. QED  BY <2>1, <2>2
<1>3. MinCostPerMetre(Map) * Distance(Map, node, goal) \in Nat
  BY <1>1, <1>2
<1>. QED  BY <1>1, <1>2, <1>3 DEF Estimate

-----------------------------------------------------------------------------
(* Lists.                                                                  *)
LEMMA AppendedTo ==
  ASSUME NEW S, NEW s \in Seq(S), NEW x \in S
  PROVE  /\ Append(s, x) \in Seq(S) /\ Append(s, x) # << >>
         /\ Len(Append(s, x)) = Len(s) + 1 /\ Len(s) \in Nat
         /\ Append(s, x)[Len(s) + 1] = x
         /\ \A i \in 1..Len(s) : Append(s, x)[i] = s[i]
         /\ Seqs!ToSet(Append(s, x)) = Seqs!ToSet(s) \cup {x}
<1>1. /\ Append(s, x) \in Seq(S) /\ Append(s, x) # << >>
      /\ Len(Append(s, x)) = Len(s) + 1 /\ Len(s) \in Nat
      /\ Append(s, x)[Len(s) + 1] = x
      /\ \A i \in 1..Len(s) : Append(s, x)[i] = s[i]
  OBVIOUS
<1>2. DOMAIN Append(s, x) = 1..(Len(s) + 1) /\ DOMAIN s = 1..Len(s)
  OBVIOUS
<1>3. 1..(Len(s) + 1) = 1..Len(s) \cup {Len(s) + 1}
  BY <1>1
<1>. QED  BY <1>1, <1>2, <1>3 DEF Seqs!ToSet

(* The edges that lead away from a node, in the order of the file.         *)
Usable(map, node) ==
  CHOOSE usable :
    usable = [i \in 0..Len(map.order) |->
                IF i = 0 THEN << >>
                ELSE IF IsTraversableFrom(map.edge[map.order[i]], node)
                THEN Append(usable[i - 1], map.order[i])
                ELSE usable[i - 1]]

LEMMA TraversableIsUsable ==
  ASSUME NEW map, NEW node
  PROVE  TraversableEdges(map, node) = Usable(map, node)[Len(map.order)]
BY DEF TraversableEdges, Usable

LEMMA UsableEdgeByEdge ==
  ASSUME NEW map, IsMap(map), NEW node
  PROVE  LET n == Len(map.order)
             usable == Usable(map, node)
         IN  /\ n \in Nat /\ DOMAIN map.order = 1..n
             /\ \A i \in 1..n : map.order[i] \in EdgesOf(map)
             /\ usable[0] = << >>
             /\ \A i \in 1..n :
                  usable[i] = IF IsTraversableFrom(map.edge[map.order[i]], node)
                              THEN Append(usable[i - 1], map.order[i])
                              ELSE usable[i - 1]
<1> DEFINE n == Len(map.order)
           V == Seq(EdgesOf(map))
           Next1(s, i) == IF IsTraversableFrom(map.edge[map.order[i]], node)
                          THEN Append(s, map.order[i]) ELSE s
           step == [x \in V \X (1..n) |-> Next1(x[1], x[2])]
<1>1. n \in Nat /\ DOMAIN map.order = 1..n /\ \A i \in 1..n : map.order[i] \in EdgesOf(map)
  <2>1. Cardinality(EdgesOf(map)) \in Nat
    BY FS_CardinalityType DEF IsMap
  <2>2. map.order \in [1..Cardinality(EdgesOf(map)) -> EdgesOf(map)]
    BY DEF IsMap
  <2>. QED  BY <2>1, <2>2
<1>2. \A s \in V, i \in 1..n : Next1(s, i) \in V
  BY <1>1
<1>3. step \in [V \X (1..n) -> V] /\ << >> \in V
  BY <1>2
<1>4. \A s \in V, i \in 1..n : step[<<s, i>>] = Next1(s, i)
  OBVIOUS
<1> HIDE DEF step, V, n, Next1
<1>5. PICK f : IsIteration(f, n, V, << >>, step)
  BY <1>1, <1>3, IterationExists
<1>6. \A i \in 1..n : f[i] = Next1(f[i - 1], i)
  <2>1. \A i \in 1..n : i - 1 \in 0..n
    BY <1>1
  <2>. QED  BY <1>4, <1>5, <2>1 DEF IsIteration
<1>7. f = [i \in 0..n |-> IF i = 0 THEN << >> ELSE Next1(f[i - 1], i)]
  <2>1. \A i \in 0..n : i # 0 => i \in 1..n
    BY <1>1
  <2>2. f[0] = << >> /\ f \in [0..n -> V]
    BY <1>5 DEF IsIteration
  <2>. QED  BY <1>6, <2>1, <2>2
<1>8. Usable(map, node) = [i \in 0..n |-> IF i = 0 THEN << >>
                                          ELSE Next1(Usable(map, node)[i - 1], i)]
  BY <1>7 DEF Usable, Next1, n
<1>9. \A i \in 1..n : i \in 0..n /\ i # 0
  BY <1>1
<1>10. 0 \in 0..n
  BY <1>1
<1>. QED  BY <1>1, <1>8, <1>9, <1>10 DEF Next1, n

LEMMA TraversableAreUsable ==
  ASSUME NEW map, IsMap(map), NEW node
  PROVE  LET edges == TraversableEdges(map, node)
         IN  /\ edges \in Seq(EdgesOf(map))
             /\ Seqs!ToSet(edges)
                  = {id \in EdgesOf(map) : IsTraversableFrom(map.edge[id], node)}
<1> DEFINE n == Len(map.order)
           usable == Usable(map, node)
           Upto(i) == {map.order[j] : j \in {k \in 1..i :
                         IsTraversableFrom(map.edge[map.order[k]], node)}}
           P == {i \in 0..n : /\ usable[i] \in Seq(EdgesOf(map))
                              /\ Seqs!ToSet(usable[i]) = Upto(i)}
<1>1. /\ n \in Nat /\ DOMAIN map.order = 1..n
      /\ \A i \in 1..n : map.order[i] \in EdgesOf(map)
      /\ usable[0] = << >>
      /\ \A i \in 1..n :
           usable[i] = IF IsTraversableFrom(map.edge[map.order[i]], node)
                       THEN Append(usable[i - 1], map.order[i])
                       ELSE usable[i - 1]
  BY UsableEdgeByEdge
<1> HIDE DEF n, usable
<1>2. 0 \in P
  <2>1. Seqs!ToSet(<< >>) = {} /\ Upto(0) = {}
    BY DEF Seqs!ToSet
  <2>2. 0 \in 0..n /\ << >> \in Seq(EdgesOf(map))
    BY <1>1
  <2> HIDE DEF Upto
  <2>. QED  BY <1>1, <2>1, <2>2
<1>3. ASSUME NEW i \in 1..n, i - 1 \in P  PROVE i \in P
  <2>1. 1..i = 1..(i - 1) \cup {i} /\ i \in 0..n
    BY <1>1
  <2>2. usable[i - 1] \in Seq(EdgesOf(map)) /\ Seqs!ToSet(usable[i - 1]) = Upto(i - 1)
    BY <1>3
  <2>3. CASE IsTraversableFrom(map.edge[map.order[i]], node)
    <3>1. Upto(i) = Upto(i - 1) \cup {map.order[i]}
      BY <2>1, <2>3
    <3>2. usable[i] = Append(usable[i - 1], map.order[i])
      BY <1>1, <2>3
    <3>3. map.order[i] \in EdgesOf(map)
      BY <1>1
    <3> HIDE DEF Upto
    <3>4. /\ Append(usable[i - 1], map.order[i]) \in Seq(EdgesOf(map))
          /\ Seqs!ToSet(Append(usable[i - 1], map.order[i]))
               = Seqs!ToSet(usable[i - 1]) \cup {map.order[i]}
      BY <2>2, <3>3, AppendedTo
    <3>. QED  BY <2>1, <2>2, <3>1, <3>2, <3>4
  <2>4. CASE ~IsTraversableFrom(map.edge[map.order[i]], node)
    <3>1. Upto(i) = Upto(i - 1)
      BY <2>1, <2>4
    <3>2. usable[i] = usable[i - 1]
      BY <1>1, <2>4
    <3>. QED  BY <2>1, <2>2, <3>1, <3>2
  <2>. QED  BY <2>3, <2>4
<1>4. n \in P
  <2> HIDE DEF P
  <2>1. 0..n \subseteq P
    BY <1>1, <1>2, <1>3, InductionUpTo
  <2>. QED  BY <1>1, <2>1
<1>5. Upto(n) = {id \in EdgesOf(map) : IsTraversableFrom(map.edge[id], node)}
  <2>1. \A id \in EdgesOf(map) : \E i \in 1..n : map.order[i] = id
    BY <1>1 DEF IsMap
  <2>. QED  BY <1>1, <2>1
<1>. QED  BY <1>4, <1>5, TraversableIsUsable DEF n, usable

-----------------------------------------------------------------------------
(* A frontier: costs and ways of nodes of the map, and entries for them.   *)
Step == [node : NodesOf(Map), edge : EdgesOf(Map)]
Due == [f : Int, g : Int, node : NodesOf(Map)]

Front ==
  [best_cost : UNION {[D -> Int] : D \in SUBSET NodesOf(Map)},
   came_from : UNION {[D -> Step] : D \in SUBSET NodesOf(Map)},
   open      : SUBSET Due]

LEMMA FrontParts ==
  ASSUME NEW front \in Front
  PROVE  /\ DOMAIN front.best_cost \subseteq NodesOf(Map)
         /\ front.best_cost \in [DOMAIN front.best_cost -> Int]
         /\ DOMAIN front.came_from \subseteq NodesOf(Map)
         /\ front.came_from \in [DOMAIN front.came_from -> Step]
         /\ front.open \subseteq Due
<1>1. /\ front.best_cost \in UNION {[D -> Int] : D \in SUBSET NodesOf(Map)}
      /\ front.came_from \in UNION {[D -> Step] : D \in SUBSET NodesOf(Map)}
      /\ front.open \in SUBSET Due
  BY DEF Front
<1>2. PICK D \in SUBSET NodesOf(Map) : front.best_cost \in [D -> Int]
  BY <1>1
<1>3. PICK E \in SUBSET NodesOf(Map) : front.came_from \in [E -> Step]
  BY <1>1
<1>. QED  BY <1>1, <1>2, <1>3

LEMMA FrontOfParts ==
  ASSUME NEW cost, NEW from, NEW entries \in SUBSET Due,
         DOMAIN cost \subseteq NodesOf(Map), cost \in [DOMAIN cost -> Int],
         DOMAIN from \subseteq NodesOf(Map), from \in [DOMAIN from -> Step]
  PROVE  [best_cost |-> cost, came_from |-> from, open |-> entries] \in Front
<1>1. cost \in UNION {[D -> Int] : D \in SUBSET NodesOf(Map)}
  OBVIOUS
<1>2. from \in UNION {[D -> Step] : D \in SUBSET NodesOf(Map)}
  OBVIOUS
<1>. QED  BY <1>1, <1>2 DEF Front

LEMMA WithOneMore ==
  ASSUME NEW f, NEW x, NEW y
  PROVE  /\ DOMAIN With(f, x, y) = DOMAIN f \cup {x}
         /\ With(f, x, y)[x] = y
         /\ \A z \in DOMAIN f : z # x => With(f, x, y)[z] = f[z]
BY DEF With

LEMMA WithOfType ==
  ASSUME NEW f, NEW x, NEW S, NEW y \in S, f \in [DOMAIN f -> S]
  PROVE  With(f, x, y) \in [DOMAIN With(f, x, y) -> S]
BY DEF With

(* An entry of a node, at a cost.                                          *)
LEMMA CandidatesAreDue ==
  ASSUME Composed, request.goal \in NodesOf(Map),
         NEW node \in NodesOf(Map), NEW cost \in Int
  PROVE  LET c == Candidate(node, cost, request.goal)
         IN  /\ c \in Due /\ c.node = node /\ c.g = cost
             /\ c.f = cost + Estimate(node, request.goal)
<1>1. Estimate(node, request.goal) \in Nat
  BY EstimatesAreNumbers
<1>2. cost + Estimate(node, request.goal) \in Int
  BY <1>1
<1>. QED  BY <1>2 DEF Candidate, Due

(* The far end of an edge that leads away from a node, as the search and   *)
(* as the validator see it.                                                *)
LEMMA FarEnd ==
  ASSUME Composed, NEW id \in EdgesOf(Map), NEW node, NEW constraints
  PROVE  LET next == Opposite(Map.edge[id], node)
         IN  /\ next \in NodesOf(Map)
             /\ IsTraversableFrom(Map.edge[id], node) /\ AllowsEdge(Map, constraints, id)
                  => SegmentIsValid(Map, constraints, id, node, next)
             /\ \A other :
                  SegmentIsValid(Map, constraints, id, node, other) => other = next
<1>1. Map.edge[id].from \in NodesOf(Map) /\ Map.edge[id].to \in NodesOf(Map)
  BY MapIsMap
<1>. QED  BY <1>1 DEF Opposite, IsTraversableFrom, SegmentIsValid

(* What is expanded next: a node of the map, at a cost.                    *)
Expandable(current) ==
  /\ Composed /\ request.goal \in NodesOf(Map)
  /\ current.node \in NodesOf(Map) /\ current.g \in Int

(* An edge is relaxed: nothing happens, or its far end is reached anew.    *)
LEMMA RelaxedMeans ==
  ASSUME NEW current, NEW front, NEW id
  PROVE  LET next == Opposite(Map.edge[id], current.node)
             cost == current.g + StepCost(id)
             after == Relaxed(front, current, id)
             takes == /\ AllowsEdge(Map, request.constraints, id)
                      /\ next \notin Seqs!ToSet(settled) /\ next # current.node
                      /\ AllowsNode(request.constraints, next)
                      /\ Improves(front, next, cost, id)
         IN  /\ ~takes => after = front
             /\ takes =>
                  /\ after.best_cost = With(front.best_cost, next, cost)
                  /\ after.came_from = With(front.came_from, next,
                                            [node |-> current.node, edge |-> id])
                  /\ after.open = front.open \cup {Candidate(next, cost, request.goal)}
                  /\ after = [best_cost |-> after.best_cost,
                              came_from |-> after.came_from,
                              open      |-> after.open]
BY DEF Relaxed

LEMMA RelaxedIsFront ==
  ASSUME NEW current, Expandable(current), NEW front \in Front, NEW id \in EdgesOf(Map)
  PROVE  Relaxed(front, current, id) \in Front
<1> DEFINE next == Opposite(Map.edge[id], current.node)
           cost == current.g + StepCost(id)
           after == Relaxed(front, current, id)
           way == [node |-> current.node, edge |-> id]
<1>1. CASE after = front
  BY <1>1
<1>2. CASE /\ after.best_cost = With(front.best_cost, next, cost)
           /\ after.came_from = With(front.came_from, next, way)
           /\ after.open = front.open \cup {Candidate(next, cost, request.goal)}
           /\ after = [best_cost |-> after.best_cost,
                       came_from |-> after.came_from,
                       open      |-> after.open]
  <2>1. next \in NodesOf(Map)
    BY FarEnd DEF Expandable
  <2>2. cost \in Int
    <3>1. StepCost(id) \in Int
      BY CostsAreNumbers DEF Expandable, StepCost
    <3>. QED  BY <3>1 DEF Expandable
  <2>3. way \in Step
    BY DEF Expandable, Step
  <2> HIDE DEF next, cost, way
  <2>4. Candidate(next, cost, request.goal) \in Due
    BY <2>1, <2>2, CandidatesAreDue DEF Expandable
  <2>5. /\ DOMAIN front.best_cost \subseteq NodesOf(Map)
        /\ front.best_cost \in [DOMAIN front.best_cost -> Int]
        /\ DOMAIN front.came_from \subseteq NodesOf(Map)
        /\ front.came_from \in [DOMAIN front.came_from -> Step]
        /\ front.open \subseteq Due
    BY FrontParts
  <2>6. /\ DOMAIN after.best_cost \subseteq NodesOf(Map)
        /\ after.best_cost \in [DOMAIN after.best_cost -> Int]
    <3>1. DOMAIN With(front.best_cost, next, cost) = DOMAIN front.best_cost \cup {next}
      BY WithOneMore
    <3>2. With(front.best_cost, next, cost)
            \in [DOMAIN With(front.best_cost, next, cost) -> Int]
      BY <2>2, <2>5, WithOfType
    <3>. QED  BY <1>2, <2>1, <2>5, <3>1, <3>2
  <2>7. /\ DOMAIN after.came_from \subseteq NodesOf(Map)
        /\ after.came_from \in [DOMAIN after.came_from -> Step]
    <3>1. DOMAIN With(front.came_from, next, way) = DOMAIN front.came_from \cup {next}
      BY WithOneMore
    <3>2. With(front.came_from, next, way)
            \in [DOMAIN With(front.came_from, next, way) -> Step]
      BY <2>3, <2>5, WithOfType
    <3>. QED  BY <1>2, <2>1, <2>5, <3>1, <3>2
  <2>8. after.open \in SUBSET Due
    BY <1>2, <2>4, <2>5
  <2> HIDE DEF after
  <2>9. [best_cost |-> after.best_cost, came_from |-> after.came_from,
         open |-> after.open] \in Front
    BY <2>6, <2>7, <2>8, FrontOfParts
  <2>10. after = [best_cost |-> after.best_cost, came_from |-> after.came_from,
                  open |-> after.open]
    BY <1>2
  <2>11. after \in Front
    BY <2>9, <2>10, Zenon
  <2>. QED  BY <2>11 DEF after
<1>. QED  BY <1>1, <1>2, RelaxedMeans

(* All the edges of a node are relaxed, one after the other.               *)
Expanding(front, current, order) ==
  CHOOSE iter :
    iter = [s \in SUBSET DOMAIN order |->
              IF s = {} THEN {front}
              ELSE {Relaxed(f, current, order[Greatest(s)]) :
                      f \in iter[s \ {Greatest(s)}]}]

LEMMA ExpandedIsExpanding ==
  ASSUME NEW front, NEW current, NEW order
  PROVE  Expanded(front, current, order) = Expanding(front, current, order)[DOMAIN order]
BY DEF Expanded, Seqs!FoldLeft, Seqs!MapThenFoldSet, Seqs!Max, Expanding, Greatest

(* fronts[k] is what the first k edges leave of the frontier.              *)
Expansion(fronts, base, current, order) ==
  /\ fronts \in [0..Len(order) -> Front]
  /\ fronts[0] = base
  /\ \A k \in 1..Len(order) : fronts[k] = Relaxed(fronts[k - 1], current, order[k])
  /\ Expanded(base, current, order) = {fronts[Len(order)]}

LEMMA ExpandedEdgeByEdge ==
  ASSUME NEW current, Expandable(current), NEW base \in Front,
         NEW order \in Seq(EdgesOf(Map))
  PROVE  \E fronts : Expansion(fronts, base, current, order)
<1> DEFINE n == Len(order)
           V == {{f} : f \in Front}
           All(fs, i) == {Relaxed(f, current, order[i]) : f \in fs}
           stepAll == [x \in V \X (1..n) |-> All(x[1], x[2])]
           stepOne == [x \in Front \X (1..n) |-> Relaxed(x[1], current, order[x[2]])]
           iter == Expanding(base, current, order)
<1>1. n \in Nat /\ DOMAIN order = 1..n /\ \A i \in 1..n : order[i] \in EdgesOf(Map)
  OBVIOUS
<1>2. \A f \in Front, i \in 1..n : Relaxed(f, current, order[i]) \in Front
  BY <1>1, RelaxedIsFront
<1>3. \A f \in Front, i \in 1..n : All({f}, i) = {Relaxed(f, current, order[i])}
  OBVIOUS
<1>4. \A fs \in V, i \in 1..n : All(fs, i) \in V
  BY <1>2, <1>3
<1>5. stepOne \in [Front \X (1..n) -> Front]
      /\ \A f \in Front, i \in 1..n : stepOne[<<f, i>>] = Relaxed(f, current, order[i])
  BY <1>2
<1>6. stepAll \in [V \X (1..n) -> V]
      /\ \A fs \in V, i \in 1..n : stepAll[<<fs, i>>] = All(fs, i)
  BY <1>4
<1>7. {base} \in V
  OBVIOUS
<1> HIDE DEF stepOne, stepAll, V, n
<1>8. PICK fronts : IsIteration(fronts, n, Front, base, stepOne)
  BY <1>1, <1>5, IterationExists
<1>9. /\ fronts \in [0..n -> Front] /\ fronts[0] = base
      /\ \A k \in 1..n : fronts[k] = Relaxed(fronts[k - 1], current, order[k])
  <2>1. \A k \in 1..n : k - 1 \in 0..n
    BY <1>1
  <2>. QED  BY <1>5, <1>8, <2>1 DEF IsIteration
<1>10. PICK g : IsFold(g, n, V, {base}, stepAll)
  BY <1>1, <1>6, <1>7, FoldExists
<1>11. g = [s \in SUBSET DOMAIN order |->
              IF s = {} THEN {base} ELSE All(g[s \ {Greatest(s)}], Greatest(s))]
  <2>1. ASSUME NEW s \in SUBSET (1..n), s # {}
        PROVE  g[s] = All(g[s \ {Greatest(s)}], Greatest(s))
    <3>1. Greatest(s) \in 1..n
      BY <1>1, <2>1, GreatestOf
    <3>2. g[s \ {Greatest(s)}] \in V
      BY <1>10 DEF IsFold
    <3>3. g[s] = stepAll[<<g[s \ {Greatest(s)}], Greatest(s)>>]
      BY <1>10, <2>1 DEF IsFold
    <3> HIDE DEF All
    <3>. QED  BY <1>6, <3>1, <3>2, <3>3
  <2>2. g[{}] = {base} /\ g \in [SUBSET (1..n) -> V]
    BY <1>10 DEF IsFold
  <2> HIDE DEF All
  <2>. QED  BY <1>1, <2>1, <2>2
<1>12. iter = [s \in SUBSET DOMAIN order |->
                 IF s = {} THEN {base} ELSE All(iter[s \ {Greatest(s)}], Greatest(s))]
  BY <1>11 DEF Expanding
<1> HIDE DEF iter, All
<1> DEFINE P == {k \in 0..n : iter[1..k] = {fronts[k]}}
<1>13. 0 \in P
  <2>1. 1..0 = {} /\ 0 \in 0..n
    BY <1>1
  <2>. QED  BY <1>9, <1>12, <2>1
<1>14. ASSUME NEW k \in 1..n, k - 1 \in P  PROVE k \in P
  <2>1. /\ 1..k \in SUBSET (1..n) /\ 1..k # {} /\ Greatest(1..k) = k
        /\ (1..k) \ {Greatest(1..k)} = 1..(k - 1)
    BY <1>1, UpToOneMore
  <2>2. iter[1..k] = All(iter[1..(k - 1)], k)
    BY <1>1, <1>12, <2>1
  <2>3. iter[1..(k - 1)] = {fronts[k - 1]}
    BY <1>14
  <2>4. fronts[k - 1] \in Front /\ k \in 0..n
    BY <1>1, <1>9
  <2>. QED  BY <1>3, <1>9, <2>2, <2>3, <2>4
<1>15. iter[1..n] = {fronts[n]}
  <2> HIDE DEF P
  <2>1. 0..n \subseteq P
    BY <1>1, <1>13, <1>14, InductionUpTo
  <2>. QED  BY <1>1, <2>1 DEF P
<1>. QED  BY <1>1, <1>9, <1>15, ExpandedIsExpanding DEF Expansion, n, iter

-----------------------------------------------------------------------------
(* What a frontier is right about, when the nodes done are settled or      *)
(* being expanded: every way leads on from such a node, over an allowed    *)
(* edge, and costs what the way there and the edge cost; every node that   *)
(* is not done has an entry at its cost, and no entry is too cheap.        *)
StartsRight(front, done) ==
  /\ request.start \in DOMAIN front.best_cost /\ front.best_cost[request.start] = 0
  /\ DOMAIN front.came_from = DOMAIN front.best_cost \ {request.start}
  /\ done \subseteq DOMAIN front.best_cost
  /\ \A n \in DOMAIN front.best_cost : AllowsNode(request.constraints, n)

WaysHold(front, done) ==
  \A n \in DOMAIN front.came_from :
    LET way == front.came_from[n]
    IN  /\ way.node \in done
        /\ SegmentIsValid(Map, request.constraints, way.edge, way.node, n)
        /\ front.best_cost[n] = front.best_cost[way.node] + StepCost(way.edge)

EntriesFit(front) ==
  \A c \in front.open :
    /\ c = Candidate(c.node, c.g, request.goal)
    /\ c.node \in DOMAIN front.best_cost /\ front.best_cost[c.node] <= c.g

NobodyForgotten(front, done) ==
  \A n \in DOMAIN front.best_cost \ done :
    Candidate(n, front.best_cost[n], request.goal) \in front.open

FrontInv(front, done) ==
  /\ StartsRight(front, done) /\ WaysHold(front, done)
  /\ EntriesFit(front) /\ NobodyForgotten(front, done)

(* What is done stays, and nothing gets dearer.                            *)
OnlyBetter(before, after, done) ==
  /\ DOMAIN before.best_cost \subseteq DOMAIN after.best_cost
  /\ \A n \in DOMAIN before.best_cost : after.best_cost[n] <= before.best_cost[n]
  /\ \A n \in done : after.best_cost[n] = before.best_cost[n]
  /\ \A n \in done \cap DOMAIN before.came_from :
       after.came_from[n] = before.came_from[n]
  /\ before.open \subseteq after.open

(* The expansion of a node: it is done with the settled ones.              *)
Expands(current, front, done) ==
  /\ Expandable(current)
  /\ done = Seqs!ToSet(settled) \cup {current.node}
  /\ request.start \in done
  /\ front \in Front /\ FrontInv(front, done)
  /\ front.best_cost[current.node] = current.g

LEMMA RelaxKeeps ==
  ASSUME NEW current, NEW front, NEW done, Expands(current, front, done),
         NEW id \in EdgesOf(Map), IsTraversableFrom(Map.edge[id], current.node)
  PROVE  LET after == Relaxed(front, current, id)
         IN  Expands(current, after, done) /\ OnlyBetter(front, after, done)
<1> DEFINE next == Opposite(Map.edge[id], current.node)
           cost == current.g + StepCost(id)
           way == [node |-> current.node, edge |-> id]
           entry == Candidate(next, cost, request.goal)
           after == Relaxed(front, current, id)
<1>1. after \in Front
  BY RelaxedIsFront DEF Expands
<1>2. /\ DOMAIN front.best_cost \subseteq NodesOf(Map)
      /\ front.best_cost \in [DOMAIN front.best_cost -> Int]
      /\ DOMAIN front.came_from \subseteq NodesOf(Map)
      /\ front.came_from \in [DOMAIN front.came_from -> Step]
  BY FrontParts DEF Expands
<1>3. next \in NodesOf(Map) /\ cost \in Int /\ StepCost(id) \in Int
  <2>1. StepCost(id) \in Int
    BY CostsAreNumbers DEF Expands, Expandable, StepCost
  <2>2. current.g \in Int
    BY DEF Expands, Expandable
  <2>3. cost \in Int
    BY <2>1, <2>2
  <2>4. next \in NodesOf(Map)
    BY FarEnd DEF Expands, Expandable
  <2>. QED  BY <2>1, <2>3, <2>4
<1>4. /\ entry.node = next /\ entry.g = cost
      /\ entry = Candidate(entry.node, entry.g, request.goal)
  BY <1>3, CandidatesAreDue DEF Expands, Expandable
<1>5. CASE after = front
  <2>1. OnlyBetter(front, front, done)
    <3>1. \A n \in DOMAIN front.best_cost : front.best_cost[n] <= front.best_cost[n]
      BY <1>2
    <3>. QED  BY <3>1 DEF OnlyBetter
  <2>. QED  BY <1>5, <2>1, Zenon
<1>6. CASE /\ AllowsEdge(Map, request.constraints, id)
           /\ next \notin Seqs!ToSet(settled) /\ next # current.node
           /\ AllowsNode(request.constraints, next)
           /\ Improves(front, next, cost, id)
           /\ after.best_cost = With(front.best_cost, next, cost)
           /\ after.came_from = With(front.came_from, next, way)
           /\ after.open = front.open \cup {entry}
  <2>1. next \notin done /\ next # request.start
    BY <1>6 DEF Expands
  <2>2. /\ DOMAIN after.best_cost = DOMAIN front.best_cost \cup {next}
        /\ after.best_cost[next] = cost
        /\ \A n \in DOMAIN front.best_cost : n # next => after.best_cost[n] = front.best_cost[n]
    <3>1. after.best_cost = With(front.best_cost, next, cost)
      BY <1>6
    <3> HIDE DEF next, cost, after
    <3>2. LET costs == With(front.best_cost, next, cost)
          IN  /\ DOMAIN costs = DOMAIN front.best_cost \cup {next} /\ costs[next] = cost
              /\ \A n \in DOMAIN front.best_cost : n # next => costs[n] = front.best_cost[n]
      BY DEF With
    <3>. QED  BY <3>1, <3>2, Zenon
  <2>3. /\ DOMAIN after.came_from = DOMAIN front.came_from \cup {next}
        /\ after.came_from[next] = way
        /\ \A n \in DOMAIN front.came_from : n # next => after.came_from[n] = front.came_from[n]
    <3>1. after.came_from = With(front.came_from, next, way)
      BY <1>6
    <3> HIDE DEF next, way, after
    <3>2. LET ways == With(front.came_from, next, way)
          IN  /\ DOMAIN ways = DOMAIN front.came_from \cup {next} /\ ways[next] = way
              /\ \A n \in DOMAIN front.came_from : n # next => ways[n] = front.came_from[n]
      BY DEF With
    <3>. QED  BY <3>1, <3>2, Zenon
  <2>4. after.open = front.open \cup {entry}
    BY <1>6
  <2>5. StartsRight(front, done) /\ WaysHold(front, done)
        /\ EntriesFit(front) /\ NobodyForgotten(front, done)
        /\ front.best_cost[current.node] = current.g /\ current.node \in done
    BY DEF Expands, FrontInv
  <2>6. SegmentIsValid(Map, request.constraints, id, current.node, next)
    BY <1>6, FarEnd DEF Expands, Expandable
  <2>7. next \in DOMAIN front.best_cost => cost <= front.best_cost[next]
    BY <1>2, <1>3, <1>6 DEF Improves
  <2>8. AllowsNode(request.constraints, next)
    BY <1>6
  <2> HIDE DEF next, cost, entry, after
  <2>9. StartsRight(after, done)
    BY <2>1, <2>2, <2>3, <2>5, <2>8 DEF StartsRight
  <2>10. WaysHold(after, done)
    <3> SUFFICES ASSUME NEW n \in DOMAIN after.came_from
                 PROVE  LET w == after.came_from[n]
                        IN  /\ w.node \in done
                            /\ SegmentIsValid(Map, request.constraints, w.edge, w.node, n)
                            /\ after.best_cost[n] = after.best_cost[w.node] + StepCost(w.edge)
      BY DEF WaysHold
    <3>1. \A m \in done : m \in DOMAIN front.best_cost /\ after.best_cost[m] = front.best_cost[m]
      BY <2>1, <2>2, <2>5 DEF StartsRight
    <3>2. CASE n = next
      BY <2>2, <2>3, <2>5, <2>6, <3>1, <3>2 DEF cost
    <3>3. CASE n # next
      <4>1. n \in DOMAIN front.came_from /\ after.came_from[n] = front.came_from[n]
        BY <2>3, <3>3
      <4>2. n \in DOMAIN front.best_cost
        BY <2>5, <4>1 DEF StartsRight
      <4>3. after.best_cost[n] = front.best_cost[n]
        BY <2>2, <3>3, <4>2
      <4>. QED  BY <2>5, <3>1, <4>1, <4>3 DEF WaysHold
    <3>. QED  BY <3>2, <3>3
  <2>11. EntriesFit(after)
    <3> SUFFICES ASSUME NEW c \in after.open
                 PROVE  /\ c = Candidate(c.node, c.g, request.goal)
                        /\ c.node \in DOMAIN after.best_cost /\ after.best_cost[c.node] <= c.g
      BY DEF EntriesFit
    <3>1. CASE c = entry
      BY <1>3, <1>4, <2>2, <3>1
    <3>2. CASE c # entry
      <4>1. /\ c \in front.open
            /\ c = Candidate(c.node, c.g, request.goal)
            /\ c.node \in DOMAIN front.best_cost /\ front.best_cost[c.node] <= c.g
        BY <2>4, <2>5, <3>2 DEF EntriesFit
      <4>2. c.g \in Int
        BY <4>1, FrontParts DEF Expands, Due
      <4>3. CASE c.node = next
        BY <1>2, <1>3, <2>2, <2>7, <4>1, <4>2, <4>3
      <4>4. CASE c.node # next
        BY <2>2, <4>1, <4>4
      <4>. QED  BY <4>1, <4>3, <4>4, <2>2
    <3>. QED  BY <3>1, <3>2
  <2>12. NobodyForgotten(after, done)
    <3> SUFFICES ASSUME NEW n \in DOMAIN after.best_cost \ done
                 PROVE  Candidate(n, after.best_cost[n], request.goal) \in after.open
      BY DEF NobodyForgotten
    <3>1. CASE n = next
      BY <2>2, <2>4, <3>1 DEF entry
    <3>2. CASE n # next
      BY <2>2, <2>4, <2>5, <3>2 DEF NobodyForgotten
    <3>. QED  BY <3>1, <3>2
  <2>13. OnlyBetter(front, after, done)
    <3>1. \A n \in DOMAIN front.best_cost : after.best_cost[n] <= front.best_cost[n]
      BY <1>2, <1>3, <2>2, <2>7
    <3>2. \A n \in done : after.best_cost[n] = front.best_cost[n]
      BY <2>1, <2>2, <2>5 DEF StartsRight
    <3>3. \A n \in done \cap DOMAIN front.came_from :
            after.came_from[n] = front.came_from[n]
      BY <2>1, <2>3
    <3>. QED  BY <2>2, <2>4, <3>1, <3>2, <3>3 DEF OnlyBetter
  <2>14. after.best_cost[current.node] = current.g
    BY <2>5, <2>13 DEF OnlyBetter
  <2>. QED  BY <1>1, <2>9, <2>10, <2>11, <2>12, <2>13, <2>14 DEF Expands, FrontInv, after
<1>7. \/ after = front
      \/ /\ AllowsEdge(Map, request.constraints, id)
         /\ next \notin Seqs!ToSet(settled) /\ next # current.node
         /\ AllowsNode(request.constraints, next)
         /\ Improves(front, next, cost, id)
         /\ after.best_cost = With(front.best_cost, next, cost)
         /\ after.came_from = With(front.came_from, next, way)
         /\ after.open = front.open \cup {entry}
  BY RelaxedMeans
<1>. QED  BY <1>5, <1>6, <1>7

(* Relaxing them all, in whatever order.                                   *)
LEMMA BetterStill ==
  ASSUME NEW a \in Front, NEW b \in Front, NEW c \in Front, NEW done,
         done \subseteq DOMAIN a.best_cost,
         DOMAIN a.came_from = DOMAIN a.best_cost \ {request.start},
         DOMAIN b.came_from = DOMAIN b.best_cost \ {request.start},
         OnlyBetter(a, b, done), OnlyBetter(b, c, done)
  PROVE  OnlyBetter(a, c, done)
<1>1. /\ a.best_cost \in [DOMAIN a.best_cost -> Int]
      /\ b.best_cost \in [DOMAIN b.best_cost -> Int]
      /\ c.best_cost \in [DOMAIN c.best_cost -> Int]
  BY FrontParts
<1>2. \A n \in DOMAIN a.best_cost : c.best_cost[n] <= a.best_cost[n]
  <2> SUFFICES ASSUME NEW n \in DOMAIN a.best_cost
               PROVE  c.best_cost[n] <= a.best_cost[n]
    OBVIOUS
  <2>1. n \in DOMAIN b.best_cost /\ n \in DOMAIN c.best_cost
    BY DEF OnlyBetter
  <2>2. a.best_cost[n] \in Int /\ b.best_cost[n] \in Int /\ c.best_cost[n] \in Int
    BY <1>1, <2>1
  <2>3. b.best_cost[n] <= a.best_cost[n] /\ c.best_cost[n] <= b.best_cost[n]
    BY <2>1 DEF OnlyBetter
  <2>. QED  BY <2>2, <2>3
<1>3. \A n \in done \cap DOMAIN a.came_from : n \in DOMAIN b.came_from
  BY DEF OnlyBetter
<1>. QED  BY <1>2, <1>3 DEF OnlyBetter

LEMMA ExpansionKeeps ==
  ASSUME NEW current, NEW base, NEW done, Expands(current, base, done),
         NEW order \in Seq(EdgesOf(Map)),
         \A k \in 1..Len(order) : IsTraversableFrom(Map.edge[order[k]], current.node),
         NEW fronts, Expansion(fronts, base, current, order)
  PROVE  \A k \in 0..Len(order) :
           Expands(current, fronts[k], done) /\ OnlyBetter(base, fronts[k], done)
<1> DEFINE n == Len(order)
           P == {k \in 0..n : Expands(current, fronts[k], done)
                                /\ OnlyBetter(base, fronts[k], done)}
<1>1. n \in Nat /\ \A k \in 1..n : order[k] \in EdgesOf(Map)
  OBVIOUS
<1>2. 0 \in P
  <2>1. OnlyBetter(base, base, done)
    <3>1. base.best_cost \in [DOMAIN base.best_cost -> Int]
      BY FrontParts DEF Expands
    <3>2. \A m \in DOMAIN base.best_cost : base.best_cost[m] <= base.best_cost[m]
      BY <3>1
    <3>. QED  BY <3>2 DEF OnlyBetter
  <2>2. fronts[0] = base /\ 0 \in 0..n
    BY <1>1 DEF Expansion
  <2>. QED  BY <2>1, <2>2
<1>3. ASSUME NEW k \in 1..n, k - 1 \in P  PROVE k \in P
  <2>1. /\ fronts[k] = Relaxed(fronts[k - 1], current, order[k])
        /\ order[k] \in EdgesOf(Map)
        /\ IsTraversableFrom(Map.edge[order[k]], current.node)
    BY <1>1 DEF Expansion
  <2>2. Expands(current, fronts[k - 1], done) /\ OnlyBetter(base, fronts[k - 1], done)
    BY <1>3
  <2>3. Expands(current, fronts[k], done) /\ OnlyBetter(fronts[k - 1], fronts[k], done)
    BY <2>1, <2>2, RelaxKeeps
  <2>4. OnlyBetter(base, fronts[k], done)
    <3>1. /\ base \in Front /\ fronts[k - 1] \in Front /\ fronts[k] \in Front
          /\ StartsRight(base, done) /\ StartsRight(fronts[k - 1], done)
      BY <2>2, <2>3 DEF Expands, FrontInv
    <3>. QED  BY <2>2, <2>3, <3>1, BetterStill DEF StartsRight
  <2>5. k \in 0..n
    BY <1>1
  <2>. QED  BY <2>3, <2>4, <2>5
<1> HIDE DEF P
<1>4. 0..n \subseteq P
  BY <1>1, <1>2, <1>3, InductionUpTo
<1>. QED  BY <1>4 DEF P
-----------------------------------------------------------------------------
(* A search under way.                                                     *)
SettledInOrder ==
  /\ settled \in Seq(NodesOf(Map))
  /\ \A i, j \in DOMAIN settled : settled[i] = settled[j] => i = j
  /\ settled = << >> => DOMAIN best_cost = {request.start}
  /\ settled # << >> => settled[1] = request.start
  /\ \A i \in DOMAIN settled :
       settled[i] # request.start =>
         \E j \in 1..(i - 1) : came_from[settled[i]].node = settled[j]
  /\ request.goal \notin Seqs!ToSet(settled)

SearchInv ==
  /\ Refusal(request) = None /\ request.start # request.goal
  /\ Frontier \in Front /\ FrontInv(Frontier, Seqs!ToSet(settled))
  /\ SettledInOrder

(* What is not refused can be asked for.                                   *)
LEMMA RefusalMeans ==
  ASSUME NEW req, Refusal(req) = None
  PROVE  /\ req.robot # None /\ req.start \in NodesOf(Map) /\ req.goal \in NodesOf(Map)
         /\ AllowsNode(req.constraints, req.start) /\ AllowsNode(req.constraints, req.goal)
<1>1. None \notin {"invalid_request", "unknown_start", "unknown_goal",
                   "blocked_start", "blocked_goal"}
  BY NoneAssumption DEF PlanningFailure
<1>. QED  BY <1>1 DEF Refusal

(* Of the entries of a node that is not settled, the one at its cost comes *)
(* up first.                                                               *)
LEMMA CheapestComesFirst ==
  ASSUME Composed, SearchInv, NEW current \in open, IsNext(current),
         ~IsSettled(current.node)
  PROVE  /\ current.node \in DOMAIN best_cost /\ current.node \in NodesOf(Map)
         /\ current.g = best_cost[current.node] /\ current.g \in Int
         /\ current = Candidate(current.node, current.g, request.goal)
<1> DEFINE node == current.node
           due == Candidate(node, best_cost[node], request.goal)
<1>1. /\ best_cost \in [DOMAIN best_cost -> Int] /\ DOMAIN best_cost \subseteq NodesOf(Map)
      /\ open \subseteq Due
  <2>1. Frontier \in Front
    BY DEF SearchInv
  <2>. QED  BY <2>1, FrontParts DEF Frontier
<1>2. /\ current = Candidate(node, current.g, request.goal)
      /\ node \in DOMAIN best_cost /\ best_cost[node] <= current.g
  BY DEF SearchInv, FrontInv, EntriesFit, Frontier
<1>3. due \in open
  BY <1>2 DEF SearchInv, FrontInv, NobodyForgotten, Frontier, IsSettled
<1>4. node \in NodesOf(Map) /\ request.goal \in NodesOf(Map)
      /\ best_cost[node] \in Int /\ current.g \in Int
  BY <1>1, <1>2, RefusalMeans DEF SearchInv, Due
<1>5. /\ due.node = node /\ due.g = best_cost[node]
      /\ due.f = best_cost[node] + Estimate(node, request.goal)
      /\ current.f = current.g + Estimate(node, request.goal)
  BY <1>2, <1>4, CandidatesAreDue
<1>6. Estimate(node, request.goal) \in Nat
  BY <1>4, EstimatesAreNumbers
<1>7. current = due
  <2> SUFFICES ASSUME current # due PROVE FALSE
    OBVIOUS
  <2>1. Before(current, due)
    BY <1>3 DEF IsNext
  <2>2. best_cost[node] <= current.g /\ node \in Nat
    BY <1>2, <1>4, MapIsMap
  <2> HIDE DEF due
  <2>3. current.f >= due.f /\ (current.f = due.f => current.g = due.g)
    BY <1>4, <1>5, <1>6, <2>2
  <2>4. current.f \in Int /\ due.f \in Int /\ due.node = current.node
        /\ current.g \in Int /\ due.g \in Int /\ current.node \in Nat
    BY <1>4, <1>5, <1>6, <2>2
  <2>. QED  BY <2>1, <2>3, <2>4 DEF Before
<1>. QED  BY <1>2, <1>4, <1>5, <1>7

(* The node that comes up next leaves the entries and is expanded.         *)
Popped(current) == [Frontier EXCEPT !.open = @ \ {current}]

LEMMA PoppedExpands ==
  ASSUME Composed, SearchInv, NEW current \in open, IsNext(current),
         ~IsSettled(current.node)
  PROVE  Expands(current, Popped(current), Seqs!ToSet(settled) \cup {current.node})
<1> DEFINE done == Seqs!ToSet(settled) \cup {current.node}
           base == Popped(current)
<1>1. /\ current.node \in DOMAIN best_cost /\ current.node \in NodesOf(Map)
      /\ current.g = best_cost[current.node] /\ current.g \in Int
  BY CheapestComesFirst
<1>2. /\ base.best_cost = best_cost /\ base.came_from = came_from
      /\ base.open = open \ {current}
      /\ base = [best_cost |-> best_cost, came_from |-> came_from, open |-> open \ {current}]
  BY DEF Popped, Frontier
<1>3. /\ Frontier.best_cost = best_cost /\ Frontier.came_from = came_from
      /\ Frontier.open = open
  BY DEF Frontier
<1>4. base \in Front
  <2>1. Frontier \in Front
    BY DEF SearchInv
  <2>2. /\ DOMAIN best_cost \subseteq NodesOf(Map) /\ best_cost \in [DOMAIN best_cost -> Int]
        /\ DOMAIN came_from \subseteq NodesOf(Map) /\ came_from \in [DOMAIN came_from -> Step]
        /\ open \ {current} \in SUBSET Due
    BY <1>3, <2>1, FrontParts
  <2>. QED  BY <1>2, <2>2, FrontOfParts
<1>5. request.start \in done
  <2>1. CASE settled = << >>
    BY <1>1, <2>1 DEF SearchInv, SettledInOrder
  <2>2. CASE settled # << >>
    <3>1. settled[1] = request.start /\ 1 \in DOMAIN settled
      BY <2>2 DEF SearchInv, SettledInOrder
    <3>. QED  BY <3>1 DEF Seqs!ToSet
  <2>. QED  BY <2>1, <2>2
<1>6. FrontInv(Frontier, Seqs!ToSet(settled))
  BY DEF SearchInv
<1>7. FrontInv(base, done)
  <2>1. StartsRight(base, done)
    BY <1>1, <1>2, <1>3, <1>6 DEF FrontInv, StartsRight
  <2>2. WaysHold(base, done)
    BY <1>2, <1>3, <1>6 DEF FrontInv, WaysHold
  <2>3. EntriesFit(base)
    BY <1>2, <1>3, <1>6 DEF FrontInv, EntriesFit
  <2>4. NobodyForgotten(base, done)
    <3> SUFFICES ASSUME NEW n \in DOMAIN best_cost \ done
                 PROVE  Candidate(n, best_cost[n], request.goal) \in open \ {current}
      BY <1>2 DEF NobodyForgotten
    <3>1. Candidate(n, best_cost[n], request.goal) \in open
      BY <1>3, <1>6 DEF FrontInv, NobodyForgotten
    <3>2. Candidate(n, best_cost[n], request.goal).node = n /\ n # current.node
      BY DEF Candidate
    <3>. QED  BY <3>1, <3>2
  <2>. QED  BY <2>1, <2>2, <2>3, <2>4 DEF FrontInv
<1>8. Expandable(current)
  BY <1>1, RefusalMeans DEF Expandable, SearchInv
<1>. QED  BY <1>1, <1>2, <1>4, <1>5, <1>7, <1>8 DEF Expands, base

(* What the search is left with after a node.                              *)
LEMMA ExpandedKeeps ==
  ASSUME Composed, SearchInv, NEW current \in open, IsNext(current),
         ~IsSettled(current.node),
         NEW after \in Expanded(Popped(current), current,
                                TraversableEdges(Map, current.node))
  PROVE  LET done == Seqs!ToSet(settled) \cup {current.node}
         IN  Expands(current, after, done) /\ OnlyBetter(Popped(current), after, done)
<1> DEFINE done == Seqs!ToSet(settled) \cup {current.node}
           order == TraversableEdges(Map, current.node)
           base == Popped(current)
<1>1. Expands(current, base, done)
  BY PoppedExpands
<1>2. /\ order \in Seq(EdgesOf(Map))
      /\ Seqs!ToSet(order) = {id \in EdgesOf(Map) :
                                IsTraversableFrom(Map.edge[id], current.node)}
  BY MapIsMap, TraversableAreUsable
<1>3. Expandable(current) /\ base \in Front
  BY <1>1 DEF Expands
<1> HIDE DEF order, base, done
<1>4. PICK fronts : Expansion(fronts, base, current, order)
  BY <1>2, <1>3, ExpandedEdgeByEdge
<1>5. \A k \in 1..Len(order) : IsTraversableFrom(Map.edge[order[k]], current.node)
  <2>1. \A k \in 1..Len(order) : order[k] \in Seqs!ToSet(order)
    BY <1>2 DEF Seqs!ToSet
  <2>. QED  BY <1>2, <2>1
<1>6. Len(order) \in 0..Len(order)
  BY <1>2
<1>7. Expands(current, fronts[Len(order)], done)
      /\ OnlyBetter(base, fronts[Len(order)], done)
  BY <1>1, <1>2, <1>4, <1>5, <1>6, ExpansionKeeps
<1>8. after = fronts[Len(order)]
  BY <1>4 DEF Expansion, base, order
<1>. QED  BY <1>7, <1>8 DEF base, done

(* Settling a node keeps the order nodes are settled in.                   *)
LEMMA SettlingKeeps ==
  ASSUME Composed, SearchInv, UNCHANGED <<planner, surcharge, request>>,
         NEW current \in open, IsNext(current), ~IsSettled(current.node),
         current.node # request.goal,
         NEW after \in Expanded(Popped(current), current,
                                TraversableEdges(Map, current.node)),
         best_cost' = after.best_cost, came_from' = after.came_from, open' = after.open,
         settled' = Append(settled, current.node)
  PROVE  SearchInv'
<1> DEFINE node == current.node
           done == Seqs!ToSet(settled) \cup {node}
<1>1. Expands(current, after, done) /\ OnlyBetter(Popped(current), after, done)
  BY ExpandedKeeps
<1>2. /\ node \in DOMAIN best_cost /\ node \in NodesOf(Map)
      /\ settled \in Seq(NodesOf(Map))
  BY CheapestComesFirst DEF SearchInv, SettledInOrder
<1>3. after \in Front /\ FrontInv(after, done)
  BY <1>1 DEF Expands
<1>4. Frontier' = after
  <2>1. after = [best_cost |-> after.best_cost, came_from |-> after.came_from,
                 open |-> after.open]
    BY <1>3 DEF Front
  <2>. QED  BY <2>1 DEF Frontier
<1>5. /\ Append(settled, node) \in Seq(NodesOf(Map)) /\ Append(settled, node) # << >>
      /\ Len(Append(settled, node)) = Len(settled) + 1 /\ Len(settled) \in Nat
      /\ Append(settled, node)[Len(settled) + 1] = node
      /\ \A i \in 1..Len(settled) : Append(settled, node)[i] = settled[i]
      /\ Seqs!ToSet(Append(settled, node)) = done
  BY <1>2, AppendedTo
<1>6. Seqs!ToSet(settled') = done
  BY <1>5
<1>7. SettledInOrder'
  <2> DEFINE n == Len(settled)
             more == Append(settled, node)
  <2>1. /\ DOMAIN settled = 1..n /\ DOMAIN more = 1..(n + 1)
        /\ 1..(n + 1) = 1..n \cup {n + 1} /\ n \in Nat
    BY <1>2, <1>5
  <2>2. \A i \in 1..n : more[i] = settled[i] /\ settled[i] # node
    BY <1>5, <2>1 DEF IsSettled, Seqs!ToSet
  <2>3. more[n + 1] = node /\ settled' = more
    BY <1>5
  <2>4. /\ \A i, j \in 1..n : settled[i] = settled[j] => i = j
        /\ settled # << >> => settled[1] = request.start
        /\ settled = << >> => DOMAIN best_cost = {request.start}
        /\ \A i \in 1..n : settled[i] # request.start =>
             \E j \in 1..(i - 1) : came_from[settled[i]].node = settled[j]
        /\ request.goal \notin done
    <3>1. request.goal \notin done
      BY DEF SearchInv, SettledInOrder
    <3> HIDE DEF done
    <3>. QED  BY <2>1, <3>1 DEF SearchInv, SettledInOrder
  <2> HIDE DEF more, n
  <2>5. \A i, j \in 1..(n + 1) : more[i] = more[j] => i = j
    BY <2>1, <2>2, <2>3, <2>4
  <2>6. more[1] = request.start
    <3>1. CASE settled = << >>
      <4>1. n = 0
        BY <3>1 DEF n
      <4>. QED  BY <1>2, <2>3, <2>4, <3>1, <4>1
    <3>2. CASE settled # << >>
      <4>1. 1 \in 1..n
        BY <1>2, <3>2 DEF n
      <4>. QED  BY <2>2, <2>4, <3>2, <4>1
    <3>. QED  BY <3>1, <3>2
  <2>7. ASSUME NEW i \in 1..(n + 1), more[i] # request.start
        PROVE  \E j \in 1..(i - 1) : after.came_from[more[i]].node = more[j]
    <3>1. CASE i \in 1..n
      <4>1. settled[i] # request.start /\ more[i] = settled[i]
        BY <2>2, <2>7, <3>1
      <4>2. settled[i] \in Seqs!ToSet(settled)
        BY <2>1, <3>1 DEF Seqs!ToSet
      <4>3. settled[i] \in DOMAIN came_from
        BY <4>1, <4>2 DEF SearchInv, FrontInv, StartsRight, Frontier
      <4>4. after.came_from[settled[i]] = came_from[settled[i]]
        <5>1. Popped(current).came_from = came_from
          BY DEF Popped, Frontier
        <5>. QED  BY <1>1, <4>2, <4>3, <5>1 DEF OnlyBetter
      <4>5. PICK j \in 1..(i - 1) : came_from[settled[i]].node = settled[j]
        BY <2>4, <3>1, <4>1
      <4>6. j \in 1..n
        BY <2>1, <3>1
      <4>. QED  BY <2>2, <4>1, <4>4, <4>5, <4>6
    <3>2. CASE i = n + 1
      <4>1. node # request.start
        BY <2>3, <2>7, <3>2
      <4>2. node \in DOMAIN came_from
        BY <1>2, <4>1 DEF SearchInv, FrontInv, StartsRight, Frontier
      <4>3. came_from[node].node \in Seqs!ToSet(settled)
        BY <4>2 DEF SearchInv, FrontInv, WaysHold, Frontier
      <4>4. PICK j \in 1..n : came_from[node].node = settled[j]
        BY <2>1, <4>3 DEF Seqs!ToSet
      <4>5. after.came_from[node] = came_from[node]
        <5>1. Popped(current).came_from = came_from
          BY DEF Popped, Frontier
        <5>. QED  BY <1>1, <4>2, <5>1 DEF OnlyBetter
      <4>6. j \in 1..(i - 1)
        BY <2>1, <3>2
      <4>. QED  BY <2>2, <2>3, <3>2, <4>4, <4>5, <4>6
    <3>. QED  BY <2>1, <3>1, <3>2
  <2>8. more \in Seq(NodesOf(Map)) /\ more # << >>
    BY <1>5 DEF more
  <2>9. DOMAIN settled' = 1..(n + 1) /\ settled' = more
    BY <2>1, <2>3 DEF more
  <2>10. Map' = Map /\ request' = request /\ came_from' = after.came_from
    BY DEF Map
  <2>11. request.goal \notin Seqs!ToSet(settled')
    BY <1>6, <2>4
  <2>. QED  BY <2>5, <2>6, <2>7, <2>8, <2>9, <2>10, <2>11 DEF SettledInOrder
<1>8. FrontInv(Frontier, Seqs!ToSet(settled))'
  BY <1>3, <1>4, <1>6
     DEF FrontInv, StartsRight, WaysHold, EntriesFit, NobodyForgotten, Map, StepCost,
         Candidate, Estimate
<1>9. Refusal(request)' = Refusal(request)
  BY DEF Refusal, Map
<1>10. (Frontier \in Front)'
  BY <1>3, <1>4 DEF Front, Map, Step, Due
<1>. QED  BY <1>7, <1>8, <1>9, <1>10 DEF SearchInv

(* A search that starts knows how to get to where it starts.               *)
LEMMA StartingFits ==
  ASSUME Composed, NEW req, request' = req, UNCHANGED <<planner, surcharge>>,
         Refusal(req) = None, req.start # req.goal,
         best_cost' = With(Nothing, req.start, 0), came_from' = Nothing,
         settled' = << >>, open' = {Candidate(req.start, 0, req.goal)}
  PROVE  SearchInv'
<1> DEFINE start == req.start
           entry == [f |-> 0 + Estimate(start, req.goal), g |-> 0, node |-> start]
           cost == With(Nothing, start, 0)
           after == [best_cost |-> cost, came_from |-> Nothing, open |-> {entry}]
<1>1. /\ start \in NodesOf(Map) /\ req.goal \in NodesOf(Map)
      /\ AllowsNode(req.constraints, start)
  BY RefusalMeans
<1>2. DOMAIN cost = {start} /\ cost[start] = 0 /\ cost \in [DOMAIN cost -> Int]
  <2> HIDE DEF start
  <2>. QED  BY DEF With, Nothing
<1>3. DOMAIN Nothing = {} /\ Nothing \in [DOMAIN Nothing -> Step]
  BY DEF Nothing
<1>4. entry \in Due
  <2>1. Estimate(start, req.goal) \in Nat
    BY <1>1, EstimatesAreNumbers
  <2>2. 0 + Estimate(start, req.goal) \in Int
    BY <2>1
  <2>. QED  BY <1>1, <2>2 DEF Due
<1>5. /\ best_cost' = cost /\ came_from' = Nothing /\ open' = {entry}
      /\ Frontier' = after
  BY DEF Candidate, Frontier
<1>6. after \in Front
  <2> HIDE DEF entry, cost
  <2>. QED  BY <1>1, <1>2, <1>3, <1>4, FrontOfParts
<1>7. Map' = Map /\ request' = req
  BY DEF Map
<1>8. Seqs!ToSet(<< >>) = {}
  BY DEF Seqs!ToSet
<1>9. FrontInv(Frontier, Seqs!ToSet(settled))'
  <2>1. StartsRight(Frontier, Seqs!ToSet(settled))'
    <3> HIDE DEF cost
    <3>. QED  BY <1>1, <1>2, <1>3, <1>5, <1>7, <1>8 DEF StartsRight
  <2>2. WaysHold(Frontier, Seqs!ToSet(settled))'
    BY <1>3, <1>5 DEF WaysHold
  <2>3. EntriesFit(Frontier)'
    <3> SUFFICES ASSUME NEW c \in {entry}
                 PROVE  /\ c = Candidate(c.node, c.g, request.goal)'
                        /\ c.node \in DOMAIN cost /\ cost[c.node] <= c.g
      BY <1>5 DEF EntriesFit
    <3>1. c.node = start /\ c.g = 0 /\ c = entry
      OBVIOUS
    <3>. QED  BY <1>2, <1>7, <3>1 DEF Candidate, Estimate, Map
  <2>4. NobodyForgotten(Frontier, Seqs!ToSet(settled))'
    <3> SUFFICES ASSUME NEW n \in DOMAIN cost
                 PROVE  Candidate(n, cost[n], request.goal)' \in {entry}
      BY <1>5 DEF NobodyForgotten, Candidate
    <3>1. n = start /\ cost[n] = 0
      BY <1>2
    <3>. QED  BY <1>7, <3>1 DEF Candidate, Estimate, Map
  <2>. QED  BY <2>1, <2>2, <2>3, <2>4 DEF FrontInv
<1>10. SettledInOrder'
  <2> HIDE DEF cost
  <2>. QED  BY <1>2, <1>5, <1>7, <1>8 DEF SettledInOrder
<1>11. Refusal(request)' = Refusal(req)
  BY DEF Refusal, Map
<1>12. (Frontier \in Front)'
  BY <1>5, <1>6, <1>7 DEF Front, Step, Due
<1>. QED  BY <1>9, <1>10, <1>11, <1>12 DEF SearchInv

(* A step that leaves a search alone.                                      *)
LEMMA SearchStays ==
  ASSUME SearchInv, UNCHANGED <<planner, surcharge, request, frontier>>
  PROVE  SearchInv'
<1>. /\ planner' = planner /\ surcharge' = surcharge /\ request' = request
     /\ best_cost' = best_cost /\ came_from' = came_from /\ settled' = settled
     /\ open' = open
  BY DEF frontier
<1>1. Frontier' = Frontier /\ Map' = Map
  BY DEF Frontier, Map
<1>2. FrontInv(Frontier, Seqs!ToSet(settled))'
  BY <1>1 DEF SearchInv, FrontInv, StartsRight, WaysHold, EntriesFit, NobodyForgotten,
              Map, StepCost, Candidate, Estimate
<1>3. Refusal(request)' = Refusal(request)
  BY DEF Refusal, Map
<1>4. (Frontier \in Front)'
  BY <1>1 DEF SearchInv, Front, Map, Step, Due
<1>5. SettledInOrder'
  BY <1>1 DEF SearchInv, SettledInOrder
<1>. QED  BY <1>2, <1>3, <1>4, <1>5 DEF SearchInv

(* The entry of a settled node is nobody's.                                *)
LEMMA DiscardingKeeps ==
  ASSUME SearchInv, NEW current \in open, Discard(current)
  PROVE  SearchInv'
<1>. /\ planner' = planner /\ surcharge' = surcharge /\ request' = request
     /\ best_cost' = best_cost /\ came_from' = came_from /\ settled' = settled
     /\ open' = open \ {current}
  BY DEF Discard
<1> DEFINE after == [best_cost |-> best_cost, came_from |-> came_from,
                     open |-> open \ {current}]
           done == Seqs!ToSet(settled)
<1>1. Map' = Map /\ Frontier' = after
  BY DEF Map, Frontier
<1>2. /\ Frontier.best_cost = best_cost /\ Frontier.came_from = came_from
      /\ Frontier.open = open
  BY DEF Frontier
<1>3. Frontier \in Front /\ FrontInv(Frontier, done)
  BY DEF SearchInv
<1>4. after \in Front
  <2>1. /\ DOMAIN best_cost \subseteq NodesOf(Map) /\ best_cost \in [DOMAIN best_cost -> Int]
        /\ DOMAIN came_from \subseteq NodesOf(Map) /\ came_from \in [DOMAIN came_from -> Step]
        /\ open \ {current} \in SUBSET Due
    BY <1>2, <1>3, FrontParts
  <2>. QED  BY <2>1, FrontOfParts
<1>5. FrontInv(after, done)
  <2>1. StartsRight(after, done) /\ WaysHold(after, done) /\ EntriesFit(after)
    BY <1>2, <1>3 DEF FrontInv, StartsRight, WaysHold, EntriesFit
  <2>2. NobodyForgotten(after, done)
    <3> SUFFICES ASSUME NEW n \in DOMAIN best_cost \ done
                 PROVE  Candidate(n, best_cost[n], request.goal) \in open \ {current}
      BY DEF NobodyForgotten
    <3>1. Candidate(n, best_cost[n], request.goal) \in open
      BY <1>2, <1>3 DEF FrontInv, NobodyForgotten
    <3>2. Candidate(n, best_cost[n], request.goal).node = n /\ n # current.node
      BY DEF Candidate, Discard, IsSettled
    <3>. QED  BY <3>1, <3>2
  <2>. QED  BY <2>1, <2>2 DEF FrontInv
<1> HIDE DEF after
<1>6. FrontInv(Frontier, Seqs!ToSet(settled))'
  BY <1>1, <1>5 DEF FrontInv, StartsRight, WaysHold, EntriesFit, NobodyForgotten,
                    Map, StepCost, Candidate, Estimate
<1>7. Refusal(request)' = Refusal(request)
  BY DEF Refusal, Map
<1>8. (Frontier \in Front)'
  BY <1>1, <1>4 DEF Front, Step, Due
<1>9. SettledInOrder'
  BY <1>1 DEF SearchInv, SettledInOrder
<1>. QED  BY <1>6, <1>7, <1>8, <1>9 DEF SearchInv


-----------------------------------------------------------------------------
(* The way back, a node at a time.                                         *)
OneBack(walk) ==
  IF walk.nodes[1] \notin DOMAIN came_from THEN walk
  ELSE [nodes |-> <<came_from[walk.nodes[1]].node>> \o walk.nodes,
        edges |-> <<came_from[walk.nodes[1]].edge>> \o walk.edges]

WalkedBack ==
  CHOOSE walk :
    walk = [i \in 0..Len(settled) |->
              IF i = 0 THEN [nodes |-> <<request.goal>>, edges |-> << >>]
              ELSE OneBack(walk[i - 1])]

LEMMA WayBackIsWalkedBack == WayBack = WalkedBack[Len(settled)]
BY DEF WayBack, WalkedBack, OneBack

WalkOfMap == [nodes : Seq(NodesOf(Map)), edges : Seq(EdgesOf(Map))]

LEMMA InFront ==
  ASSUME NEW S, NEW s \in Seq(S), NEW x \in S
  PROVE  /\ <<x>> \o s \in Seq(S) /\ Len(<<x>> \o s) = Len(s) + 1
         /\ (<<x>> \o s)[1] = x
         /\ \A i \in 1..Len(s) : (<<x>> \o s)[i + 1] = s[i]
OBVIOUS

(* A walk to the goal that the ways of the search make.                    *)
LeadsToGoal(walk) ==
  /\ walk \in WalkOfMap
  /\ Len(walk.nodes) = Len(walk.edges) + 1
  /\ walk.nodes[Len(walk.nodes)] = request.goal
  /\ \A k \in 1..Len(walk.nodes) : walk.nodes[k] \in DOMAIN best_cost
  /\ \A k \in 1..Len(walk.edges) :
       /\ SegmentIsValid(Map, request.constraints, walk.edges[k],
                         walk.nodes[k], walk.nodes[k + 1])
       /\ best_cost[walk.nodes[k + 1]]
            = best_cost[walk.nodes[k]] + StepCost(walk.edges[k])

LEMMA OneBackLeads ==
  ASSUME Composed, SearchInv, NEW walk, LeadsToGoal(walk)
  PROVE  LET longer == OneBack(walk)
         IN  /\ LeadsToGoal(longer)
             /\ walk.nodes[1] = request.start => longer = walk
             /\ walk.nodes[1] # request.start =>
                  /\ walk.nodes[1] \in DOMAIN came_from
                  /\ longer.nodes[1] = came_from[walk.nodes[1]].node
<1> DEFINE first == walk.nodes[1]
           way == came_from[first]
           longer == [nodes |-> <<way.node>> \o walk.nodes,
                      edges |-> <<way.edge>> \o walk.edges]
<1>1. /\ walk.nodes \in Seq(NodesOf(Map)) /\ walk.edges \in Seq(EdgesOf(Map))
      /\ Len(walk.nodes) = Len(walk.edges) + 1 /\ Len(walk.edges) \in Nat
  BY DEF LeadsToGoal, WalkOfMap
<1>2. first \in DOMAIN best_cost
  BY <1>1 DEF LeadsToGoal
<1>3. /\ StartsRight(Frontier, Seqs!ToSet(settled)) /\ WaysHold(Frontier, Seqs!ToSet(settled))
      /\ Frontier.best_cost = best_cost /\ Frontier.came_from = came_from
      /\ Frontier \in Front
  BY DEF SearchInv, FrontInv, Frontier
<1>4. first \in DOMAIN came_from <=> first # request.start
  BY <1>2, <1>3 DEF StartsRight
<1>5. CASE first = request.start
  BY <1>4, <1>5 DEF OneBack
<1>6. CASE first # request.start
  <2>1. first \in DOMAIN came_from
    BY <1>4, <1>6
  <2>2. OneBack(walk) = longer
    BY <2>1 DEF OneBack
  <2>3. /\ way.node \in Seqs!ToSet(settled)
        /\ SegmentIsValid(Map, request.constraints, way.edge, way.node, first)
        /\ best_cost[first] = best_cost[way.node] + StepCost(way.edge)
    BY <1>3, <2>1 DEF WaysHold
  <2>4. way.node \in DOMAIN best_cost
    BY <1>3, <2>3 DEF StartsRight
  <2>5. way \in Step
    <3>1. came_from \in [DOMAIN came_from -> Step]
      BY <1>3, FrontParts
    <3>. QED  BY <2>1, <3>1
  <2>6. way.node \in NodesOf(Map) /\ way.edge \in EdgesOf(Map)
    BY <2>5 DEF Step
  <2> HIDE DEF first, way
  <2> DEFINE nodes == <<way.node>> \o walk.nodes
             edges == <<way.edge>> \o walk.edges
  <2>7. /\ nodes \in Seq(NodesOf(Map)) /\ Len(nodes) = Len(walk.nodes) + 1
        /\ nodes[1] = way.node
        /\ \A i \in 1..Len(walk.nodes) : nodes[i + 1] = walk.nodes[i]
    BY <1>1, <2>6, InFront
  <2>8. /\ edges \in Seq(EdgesOf(Map)) /\ Len(edges) = Len(walk.edges) + 1
        /\ edges[1] = way.edge
        /\ \A i \in 1..Len(walk.edges) : edges[i + 1] = walk.edges[i]
    BY <1>1, <2>6, InFront
  <2>9. longer.nodes = nodes /\ longer.edges = edges /\ longer \in WalkOfMap
    BY <2>7, <2>8 DEF WalkOfMap
  <2> HIDE DEF nodes, edges, longer
  <2>10. \A k \in 1..Len(nodes) : nodes[k] \in DOMAIN best_cost
    <3> SUFFICES ASSUME NEW k \in 1..Len(nodes) PROVE nodes[k] \in DOMAIN best_cost
      OBVIOUS
    <3>1. CASE k = 1
      BY <2>4, <2>7, <3>1
    <3>2. CASE k # 1
      <4>1. k - 1 \in 1..Len(walk.nodes) /\ (k - 1) + 1 = k
        BY <1>1, <2>7, <3>2
      <4>2. nodes[k] = walk.nodes[k - 1]
        BY <2>7, <4>1
      <4>. QED  BY <4>1, <4>2 DEF LeadsToGoal
    <3>. QED  BY <3>1, <3>2
  <2>11. ASSUME NEW k \in 1..Len(edges)
         PROVE  /\ SegmentIsValid(Map, request.constraints, edges[k], nodes[k], nodes[k + 1])
                /\ best_cost[nodes[k + 1]] = best_cost[nodes[k]] + StepCost(edges[k])
    <3>1. CASE k = 1
      <4>1. nodes[2] = first
        BY <1>1, <2>7 DEF first
      <4>. QED  BY <2>3, <2>7, <2>8, <3>1, <4>1
    <3>2. CASE k # 1
      <4>1. k - 1 \in 1..Len(walk.edges) /\ (k - 1) + 1 = k
            /\ k - 1 \in 1..Len(walk.nodes) /\ k \in 1..Len(walk.nodes)
        BY <1>1, <2>8, <3>2
      <4>2. /\ nodes[k] = walk.nodes[k - 1] /\ nodes[k + 1] = walk.nodes[k]
            /\ edges[k] = walk.edges[k - 1]
        BY <2>7, <2>8, <4>1
      <4>3. /\ SegmentIsValid(Map, request.constraints, walk.edges[k - 1],
                              walk.nodes[k - 1], walk.nodes[(k - 1) + 1])
            /\ best_cost[walk.nodes[(k - 1) + 1]]
                 = best_cost[walk.nodes[k - 1]] + StepCost(walk.edges[k - 1])
        BY <4>1 DEF LeadsToGoal
      <4>. QED  BY <4>1, <4>2, <4>3
    <3>. QED  BY <3>1, <3>2
  <2>12. nodes[Len(nodes)] = request.goal
    <3>1. Len(walk.nodes) \in 1..Len(walk.nodes)
      BY <1>1
    <3>. QED  BY <2>7, <3>1 DEF LeadsToGoal
  <2>13. LeadsToGoal(longer)
    BY <1>1, <2>7, <2>8, <2>9, <2>10, <2>11, <2>12 DEF LeadsToGoal
  <2>14. OneBack(walk).nodes[1] = way.node
    BY <2>2, <2>7, <2>9
  <2>. QED  BY <1>6, <2>1, <2>2, <2>13, <2>14 DEF first, way
<1>. QED  BY <1>5, <1>6

(* It ends where the search started: each step of it leads to a node that  *)
(* was settled before.                                                     *)
LEMMA WayBackLeads ==
  ASSUME Composed, SearchInv, request.goal \in DOMAIN best_cost
  PROVE  LeadsToGoal(WayBack) /\ WayBack.nodes[1] = request.start
<1> DEFINE n == Len(settled)
           walk0 == [nodes |-> <<request.goal>>, edges |-> << >>]
           V == {w \in WalkOfMap : LeadsToGoal(w)}
           step == [x \in V \X (1..n) |-> OneBack(x[1])]
<1>1. /\ settled \in Seq(NodesOf(Map)) /\ n \in Nat
      /\ DOMAIN settled = 1..n
  BY DEF SearchInv, SettledInOrder
<1>2. request.goal \in NodesOf(Map) /\ request.goal # request.start
  BY RefusalMeans DEF SearchInv
<1>3. walk0 \in V
  <2>1. walk0 \in WalkOfMap
    BY <1>2 DEF WalkOfMap
  <2>2. Len(walk0.nodes) = 1 /\ Len(walk0.edges) = 0 /\ walk0.nodes[1] = request.goal
    OBVIOUS
  <2>3. 1..1 = {1} /\ 1..0 = {}
    OBVIOUS
  <2> HIDE DEF walk0
  <2>4. \A k \in 1..Len(walk0.nodes) : walk0.nodes[k] \in DOMAIN best_cost
    BY <2>2, <2>3
  <2>5. LeadsToGoal(walk0)
    BY <2>1, <2>2, <2>3, <2>4 DEF LeadsToGoal
  <2>. QED  BY <2>1, <2>5
<1>4. \A w \in V : OneBack(w) \in V
  <2> SUFFICES ASSUME NEW w \in V PROVE OneBack(w) \in V
    OBVIOUS
  <2>1. LeadsToGoal(OneBack(w))
    BY OneBackLeads
  <2>. QED  BY <2>1 DEF LeadsToGoal
<1>5. step \in [V \X (1..n) -> V] /\ \A w \in V, i \in 1..n : step[<<w, i>>] = OneBack(w)
  BY <1>4
<1> HIDE DEF step, V, n, walk0
<1>6. PICK walk : IsIteration(walk, n, V, walk0, step)
  BY <1>1, <1>3, <1>5, IterationExists
<1>7. /\ walk \in [0..n -> V] /\ walk[0] = walk0
      /\ \A i \in 1..n : walk[i] = OneBack(walk[i - 1])
  <2>1. \A i \in 1..n : i - 1 \in 0..n
    BY <1>1
  <2>. QED  BY <1>5, <1>6, <2>1 DEF IsIteration
<1>8. walk = [i \in 0..n |-> IF i = 0 THEN walk0 ELSE OneBack(walk[i - 1])]
  <2>1. \A i \in 0..n : i # 0 => i \in 1..n
    BY <1>1
  <2>. QED  BY <1>7, <2>1
<1> DEFINE back == WalkedBack
<1>9. back = [i \in 0..n |-> IF i = 0 THEN walk0 ELSE OneBack(back[i - 1])]
  BY <1>8 DEF WalkedBack, n, walk0
<1> HIDE DEF back
<1> DEFINE Near(w, i) == \/ w.nodes[1] = request.start
                         \/ i = 0 /\ w.nodes[1] = request.goal
                         \/ i # 0 /\ \E j \in 1..(n - i + 1) : settled[j] = w.nodes[1]
           P == {i \in 0..n : LeadsToGoal(back[i]) /\ Near(back[i], i)}
<1>10. 0 \in P
  <2>1. back[0] = walk0 /\ 0 \in 0..n
    BY <1>1, <1>9
  <2>2. LeadsToGoal(walk0) /\ walk0.nodes[1] = request.goal
    BY <1>3 DEF V, walk0
  <2>. QED  BY <2>1, <2>2
<1>11. ASSUME NEW i \in 1..n, i - 1 \in P  PROVE i \in P
  <2> DEFINE w == back[i - 1]
  <2>1. back[i] = OneBack(w) /\ i \in 0..n /\ i # 0
    BY <1>1, <1>9
  <2>2. LeadsToGoal(w) /\ Near(w, i - 1)
    BY <1>11
  <2>3. /\ LeadsToGoal(OneBack(w))
        /\ w.nodes[1] = request.start => OneBack(w) = w
        /\ w.nodes[1] # request.start =>
             /\ w.nodes[1] \in DOMAIN came_from
             /\ OneBack(w).nodes[1] = came_from[w.nodes[1]].node
    <3> HIDE DEF w
    <3>. QED  BY <2>2, OneBackLeads
  <2> HIDE DEF w
  <2>4. Near(OneBack(w), i)
    <3>1. CASE w.nodes[1] = request.start
      BY <2>3, <3>1
    <3>2. CASE w.nodes[1] # request.start /\ i = 1
      <4>1. came_from[w.nodes[1]].node \in Seqs!ToSet(settled)
        BY <2>3, <3>2 DEF SearchInv, FrontInv, WaysHold, Frontier
      <4>2. PICK j \in 1..n : settled[j] = came_from[w.nodes[1]].node
        BY <1>1, <4>1 DEF Seqs!ToSet
      <4>3. j \in 1..(n - i + 1)
        BY <1>1, <3>2
      <4>. QED  BY <2>1, <2>3, <3>2, <4>2, <4>3
    <3>3. CASE w.nodes[1] # request.start /\ i # 1
      <4>1. PICK j \in 1..(n - (i - 1) + 1) : settled[j] = w.nodes[1]
        BY <1>1, <2>2, <3>3
      <4>2. j \in 1..n
        BY <1>1, <3>3
      <4>3. PICK l \in 1..(j - 1) : came_from[settled[j]].node = settled[l]
        BY <1>1, <3>3, <4>1, <4>2 DEF SearchInv, SettledInOrder
      <4>4. l \in 1..(n - i + 1)
        BY <1>1, <4>2
      <4>. QED  BY <2>1, <2>3, <3>3, <4>1, <4>3, <4>4
    <3>. QED  BY <3>1, <3>2, <3>3
  <2>. QED  BY <2>1, <2>3, <2>4
<1>12. LeadsToGoal(back[n]) /\ Near(back[n], n)
  <2> HIDE DEF P, Near
  <2>1. 0..n \subseteq P
    BY <1>1, <1>10, <1>11, InductionUpTo
  <2>. QED  BY <1>1, <2>1 DEF P
<1>13. n # 0
  <2> SUFFICES ASSUME n = 0 PROVE FALSE
    OBVIOUS
  <2>1. settled = << >>
    BY <1>1 DEF n
  <2>2. DOMAIN best_cost = {request.start}
    BY <2>1 DEF SearchInv, SettledInOrder
  <2>. QED  BY <1>2, <2>2
<1>14. settled[1] = request.start
  BY <1>1, <1>13 DEF SearchInv, SettledInOrder, n
<1>15. \A j \in 1..(n - n + 1) : j = 1
  BY <1>1
<1>16. back[n].nodes[1] = request.start
  BY <1>12, <1>13, <1>14, <1>15
<1>. QED  BY <1>12, <1>16, WayBackIsWalkedBack DEF back, n


-----------------------------------------------------------------------------
(* What a route costs, edge by edge.                                       *)
Summing(edges, constraints) ==
  CHOOSE iter :
    iter = [s \in SUBSET DOMAIN edges |->
              IF s = {} THEN 0
              ELSE iter[s \ {Greatest(s)}]
                     + EdgeCost(Map, edges[Greatest(s)], constraints, surcharge)]

LEMMA RouteCostIsSumming ==
  ASSUME NEW edges, NEW constraints
  PROVE  RouteCost(Map, edges, constraints, surcharge)
           = Summing(edges, constraints)[DOMAIN edges]
BY DEF RouteCost, Seqs!FoldLeft, Seqs!MapThenFoldSet, Seqs!Max, Summing, Greatest

LEMMA CostEdgeByEdge ==
  ASSUME Composed, NEW constraints, NEW edges \in Seq(EdgesOf(Map))
  PROVE  \E sums \in [0..Len(edges) -> Int] :
           /\ sums[0] = 0
           /\ \A k \in 1..Len(edges) :
                sums[k] = sums[k - 1] + EdgeCost(Map, edges[k], constraints, surcharge)
           /\ RouteCost(Map, edges, constraints, surcharge) = sums[Len(edges)]
<1> DEFINE n == Len(edges)
           V == Int
           Cost(k) == EdgeCost(Map, edges[k], constraints, surcharge)
           step == [x \in V \X (1..n) |-> x[1] + Cost(x[2])]
           iter == Summing(edges, constraints)
<1>1. n \in Nat /\ DOMAIN edges = 1..n /\ \A k \in 1..n : edges[k] \in EdgesOf(Map)
  OBVIOUS
<1>2. \A k \in 1..n : Cost(k) \in Int
  BY <1>1, CostsAreNumbers
<1>3. /\ step \in [V \X (1..n) -> V] /\ 0 \in V
      /\ \A v \in V, k \in 1..n : step[<<v, k>>] = v + Cost(k)
  BY <1>2
<1> HIDE DEF step, n, V
<1>4. PICK f : IsFold(f, n, V, 0, step)
  BY <1>1, <1>3, FoldExists
<1>5. f = [s \in SUBSET DOMAIN edges |->
             IF s = {} THEN 0 ELSE f[s \ {Greatest(s)}] + Cost(Greatest(s))]
  <2>1. ASSUME NEW s \in SUBSET (1..n), s # {}
        PROVE  f[s] = f[s \ {Greatest(s)}] + Cost(Greatest(s))
    <3>1. Greatest(s) \in 1..n
      BY <1>1, <2>1, GreatestOf
    <3>2. f[s \ {Greatest(s)}] \in V
      BY <1>4 DEF IsFold
    <3>3. f[s] = step[<<f[s \ {Greatest(s)}], Greatest(s)>>]
      BY <1>4, <2>1 DEF IsFold
    <3> HIDE DEF Cost
    <3>. QED  BY <1>3, <3>1, <3>2, <3>3
  <2>2. f[{}] = 0 /\ f \in [SUBSET (1..n) -> V]
    BY <1>4 DEF IsFold
  <2> HIDE DEF Cost
  <2>. QED  BY <1>1, <2>1, <2>2
<1>6. iter = [s \in SUBSET DOMAIN edges |->
                IF s = {} THEN 0 ELSE iter[s \ {Greatest(s)}] + Cost(Greatest(s))]
  BY <1>5 DEF Summing
<1> HIDE DEF iter, Cost
<1> DEFINE sums == [k \in 0..n |-> iter[1..k]]
<1>7. sums[0] = 0
  <2>1. 1..0 = {} /\ 0 \in 0..n
    BY <1>1
  <2>. QED  BY <1>6, <2>1
<1>8. ASSUME NEW k \in 1..n  PROVE sums[k] = sums[k - 1] + Cost(k)
  <2>1. /\ 1..k \in SUBSET (1..n) /\ 1..k # {} /\ Greatest(1..k) = k
        /\ (1..k) \ {Greatest(1..k)} = 1..(k - 1)
    BY <1>1, UpToOneMore
  <2>2. iter[1..k] = iter[(1..k) \ {Greatest(1..k)}] + Cost(Greatest(1..k))
    BY <1>1, <1>6, <2>1
  <2>3. k \in 0..n /\ k - 1 \in 0..n
    BY <1>1
  <2>. QED  BY <2>1, <2>2, <2>3
<1>9. sums[n] = iter[DOMAIN edges] /\ DOMAIN sums = 0..n
  BY <1>1
<1> DEFINE P == {k \in 0..n : sums[k] \in Int}
<1>10. \A k \in 0..n : sums[k] \in Int
  <2> HIDE DEF sums
  <2>1. 0 \in P
    BY <1>1, <1>7
  <2>2. \A k \in 1..n : k - 1 \in P => k \in P
    BY <1>1, <1>2, <1>8
  <2> HIDE DEF P
  <2>3. 0..n \subseteq P
    BY <1>1, <2>1, <2>2, InductionUpTo
  <2>. QED  BY <2>3 DEF P
<1>11. sums \in [0..n -> Int]
  <2>1. sums = [k \in 0..n |-> sums[k]]
    OBVIOUS
  <2> HIDE DEF sums
  <2>. QED  BY <1>10, <2>1
<1>12. RouteCost(Map, edges, constraints, surcharge) = iter[DOMAIN edges]
  BY RouteCostIsSumming DEF iter
<1> HIDE DEF sums
<1>. QED  BY <1>7, <1>8, <1>9, <1>11, <1>12 DEF n, Cost

-----------------------------------------------------------------------------
(* The windows of a route, edge by edge.                                   *)
Window == [start : Int, end : Int]

SpanOf(from, id) ==
  [start |-> from,
   end   |-> from + IF TravelTime(Map.edge[id]) > 1
                    THEN TravelTime(Map.edge[id]) ELSE 1]

OneWindowMore(spans, at, id) ==
  Append(spans, SpanOf(IF spans = << >> THEN at ELSE spans[Len(spans)].end, id))

Timing(edges, at) ==
  CHOOSE iter :
    iter = [s \in SUBSET DOMAIN edges |->
              IF s = {} THEN << >>
              ELSE OneWindowMore(iter[s \ {Greatest(s)}], at, edges[Greatest(s)])]

LEMMA WindowsAreTiming ==
  ASSUME NEW edges, NEW at
  PROVE  WindowsFrom(edges, at) = Timing(edges, at)[DOMAIN edges]
BY DEF WindowsFrom, Seqs!FoldLeft, Seqs!MapThenFoldSet, Seqs!Max, Timing, Greatest,
       OneWindowMore, SpanOf

(* None is empty, and each begins when the one before it ends.             *)
BackToBack(windows, at) ==
  /\ windows \in Seq(Window)
  /\ \A i \in DOMAIN windows :
       /\ windows[i].start < windows[i].end
       /\ windows[i].start = IF i = 1 THEN at ELSE windows[i - 1].end

LEMMA OneWindowMoreFits ==
  ASSUME Composed, NEW at \in Int, NEW spans, BackToBack(spans, at),
         NEW id \in EdgesOf(Map)
  PROVE  BackToBack(OneWindowMore(spans, at, id), at)
<1> DEFINE from == IF spans = << >> THEN at ELSE spans[Len(spans)].end
           span == SpanOf(from, id)
           n == Len(spans)
<1>1. spans \in Seq(Window) /\ n \in Nat /\ DOMAIN spans = 1..n
  BY DEF BackToBack
<1>2. from \in Int /\ (n # 0 => from = spans[n].end) /\ (n = 0 => from = at)
  <2>1. CASE spans = << >>
    BY <2>1
  <2>2. CASE spans # << >>
    <3>1. n \in 1..n
      BY <1>1, <2>2
    <3>2. spans[n] \in Window
      BY <1>1, <3>1
    <3>. QED  BY <2>2, <3>1, <3>2 DEF Window
  <2>. QED  BY <2>1, <2>2
<1>3. TravelTime(Map.edge[id]) \in Int
  BY MapIsMap, TimesAreNumbers
<1> HIDE DEF from
<1>4. span \in Window /\ span.start = from /\ span.start < span.end
  BY <1>2, <1>3 DEF SpanOf, Window
<1> HIDE DEF span
<1>5. /\ Append(spans, span) \in Seq(Window) /\ Len(Append(spans, span)) = n + 1
      /\ Append(spans, span)[n + 1] = span
      /\ \A i \in 1..n : Append(spans, span)[i] = spans[i]
  BY <1>1, <1>4, AppendedTo
<1> DEFINE more == Append(spans, span)
<1>6. OneWindowMore(spans, at, id) = more
  BY DEF OneWindowMore, span, from
<1>7. DOMAIN more = 1..(n + 1)
  BY <1>5
<1> HIDE DEF more, n
<1>8. ASSUME NEW i \in 1..(n + 1)
      PROVE  /\ more[i].start < more[i].end
             /\ more[i].start = IF i = 1 THEN at ELSE more[i - 1].end
  <2>1. CASE i \in 1..n
    <3>1. i = 1 \/ i - 1 \in 1..n
      BY <1>1, <2>1
    <3>. QED  BY <1>1, <1>5, <2>1, <3>1 DEF BackToBack, more, n
  <2>2. CASE i = n + 1
    <3>1. n = 0 \/ (n # 0 /\ n \in 1..n)
      BY <1>1
    <3>2. CASE n = 0
      BY <1>2, <1>4, <1>5, <2>2, <3>2 DEF more, n
    <3>3. CASE n # 0
      <4>1. (n + 1) - 1 = n /\ n + 1 # 1 /\ n \in 1..n
        BY <1>1, <3>3
      <4>. QED  BY <1>2, <1>4, <1>5, <2>2, <3>3, <4>1 DEF more, n
    <3>. QED  BY <3>2, <3>3
  <2>. QED  BY <1>1, <2>1, <2>2
<1>9. more \in Seq(Window)
  BY <1>5 DEF more
<1>. QED  BY <1>6, <1>7, <1>8, <1>9 DEF BackToBack

LEMMA WindowsFitTogether ==
  ASSUME Composed, NEW at \in Int, NEW edges \in Seq(EdgesOf(Map))
  PROVE  BackToBack(WindowsFrom(edges, at), at)
<1> DEFINE n == Len(edges)
           V == {spans \in Seq(Window) : BackToBack(spans, at)}
           step == [x \in V \X (1..n) |-> OneWindowMore(x[1], at, edges[x[2]])]
           iter == Timing(edges, at)
<1>1. n \in Nat /\ DOMAIN edges = 1..n /\ \A k \in 1..n : edges[k] \in EdgesOf(Map)
  OBVIOUS
<1>2. \A spans \in V, k \in 1..n : OneWindowMore(spans, at, edges[k]) \in V
  <2> SUFFICES ASSUME NEW spans \in V, NEW k \in 1..n
               PROVE  OneWindowMore(spans, at, edges[k]) \in V
    OBVIOUS
  <2>1. BackToBack(OneWindowMore(spans, at, edges[k]), at)
    BY <1>1, OneWindowMoreFits
  <2>. QED  BY <2>1 DEF BackToBack
<1>3. << >> \in V
  <2>1. << >> \in Seq(Window) /\ DOMAIN << >> = {}
    OBVIOUS
  <2>2. BackToBack(<< >>, at)
    BY <2>1 DEF BackToBack
  <2>. QED  BY <2>1, <2>2
<1>4. step \in [V \X (1..n) -> V]
      /\ \A v \in V, k \in 1..n : step[<<v, k>>] = OneWindowMore(v, at, edges[k])
  BY <1>2
<1> HIDE DEF step, n, V
<1>5. PICK f : IsFold(f, n, V, << >>, step)
  BY <1>1, <1>3, <1>4, FoldExists
<1>6. f = [s \in SUBSET DOMAIN edges |->
             IF s = {} THEN << >>
             ELSE OneWindowMore(f[s \ {Greatest(s)}], at, edges[Greatest(s)])]
  <2>1. ASSUME NEW s \in SUBSET (1..n), s # {}
        PROVE  f[s] = OneWindowMore(f[s \ {Greatest(s)}], at, edges[Greatest(s)])
    <3>1. Greatest(s) \in 1..n
      BY <1>1, <2>1, GreatestOf
    <3>2. f[s \ {Greatest(s)}] \in V
      BY <1>5 DEF IsFold
    <3>3. f[s] = step[<<f[s \ {Greatest(s)}], Greatest(s)>>]
      BY <1>5, <2>1 DEF IsFold
    <3>. QED  BY <1>4, <3>1, <3>2, <3>3
  <2>2. f[{}] = << >> /\ f \in [SUBSET (1..n) -> V]
    BY <1>5 DEF IsFold
  <2>. QED  BY <1>1, <2>1, <2>2
<1>7. iter = [s \in SUBSET DOMAIN edges |->
                IF s = {} THEN << >>
                ELSE OneWindowMore(iter[s \ {Greatest(s)}], at, edges[Greatest(s)])]
  BY <1>6 DEF Timing
<1> HIDE DEF iter
<1> DEFINE P == {k \in 0..n : iter[1..k] \in V}
<1>8. 0 \in P
  <2>1. 1..0 = {} /\ 0 \in 0..n
    BY <1>1
  <2>. QED  BY <1>3, <1>7, <2>1
<1>9. ASSUME NEW k \in 1..n, k - 1 \in P  PROVE k \in P
  <2>1. /\ 1..k \in SUBSET (1..n) /\ 1..k # {} /\ Greatest(1..k) = k
        /\ (1..k) \ {Greatest(1..k)} = 1..(k - 1)
    BY <1>1, UpToOneMore
  <2>2. iter[1..k] = OneWindowMore(iter[1..(k - 1)], at, edges[k])
    BY <1>1, <1>7, <2>1
  <2>3. k \in 0..n
    BY <1>1
  <2>. QED  BY <1>2, <1>9, <2>2, <2>3
<1>10. iter[1..n] \in V
  <2> HIDE DEF P
  <2>1. 0..n \subseteq P
    BY <1>1, <1>8, <1>9, InductionUpTo
  <2>. QED  BY <1>1, <2>1 DEF P
<1>. QED  BY <1>1, <1>10, WindowsAreTiming DEF iter, V


-----------------------------------------------------------------------------
(* A route over the map at hand.                                           *)
OnMap(route) ==
  /\ route \in Route
  /\ route.nodes \in Seq(NodesOf(Map)) /\ route.edges \in Seq(EdgesOf(Map))
  /\ Len(route.nodes) = Len(route.edges) + 1

(* RoutesAreDrivable, of an answer to a request.                           *)
Drives(result, req) ==
  LET route == result.route
  IN  /\ RouteIsValid(Map, route, req.constraints)
      /\ route.nodes[1] = req.start /\ Seqs!Last(route.nodes) = req.goal
      /\ result.cost = RouteCost(Map, route.edges, req.constraints, surcharge)
      /\ \A i \in DOMAIN route.windows :
           /\ route.windows[i].start < route.windows[i].end
           /\ route.windows[i].start = IF i = 1 THEN req.current_time
                                       ELSE route.windows[i - 1].end

(* What an answer to a request amounts to.                                 *)
Answers(result, req) ==
  /\ result \in Answer
  /\ result.failure = None =>
       OnMap(result.route) /\ Drives(result, req) /\ result.route.created_at = called_at

LEMMA DrivableIsDrives ==
  RoutesAreDrivable <=> (answer # None /\ answer.failure = None => Drives(answer, request))
BY DEF RoutesAreDrivable, Drives, CostOf

LEMMA FailureAnswers ==
  ASSUME NEW failure \in PlanningFailure, NEW req
  PROVE  /\ Answers(Failed(failure), req) /\ Failed(failure) \in Answer
         /\ Failed(failure).failure # None
BY NoneAssumption DEF Failed, Answer, Answers

LEMMA RefusalsAreFailures ==
  ASSUME NEW req, Refusal(req) # None
  PROVE  Refusal(req) \in PlanningFailure
BY DEF Refusal, PlanningFailure

LEMMA FoundAnswers ==
  ASSUME Composed, NEW req \in RouteRequest, Refusal(req) = None,
         NEW walk \in WalkOfMap, Len(walk.nodes) = Len(walk.edges) + 1,
         walk.nodes[1] = req.start, walk.nodes[Len(walk.nodes)] = req.goal,
         \A k \in 1..Len(walk.nodes) : AllowsNode(req.constraints, walk.nodes[k]),
         \A k \in 1..Len(walk.edges) :
           SegmentIsValid(Map, req.constraints, walk.edges[k],
                          walk.nodes[k], walk.nodes[k + 1]),
         NEW cost \in Int,
         cost = RouteCost(Map, walk.edges, req.constraints, surcharge),
         route_sequence \in Nat, NEW started \in Int
  PROVE  LET result == Found(req, walk, cost, started)
         IN  /\ result \in Answer /\ result.failure = None
             /\ OnMap(result.route) /\ Drives(result, req)
             /\ result.route.created_at = started
<1> DEFINE result == Found(req, walk, cost, started)
           route == result.route
           windows == WindowsFrom(walk.edges, req.current_time)
<1>1. /\ walk.nodes \in Seq(NodesOf(Map)) /\ walk.edges \in Seq(EdgesOf(Map))
      /\ NodesOf(Map) \subseteq NodeId /\ EdgesOf(Map) \subseteq EdgeId
  BY MapIsMap DEF WalkOfMap
<1>2. req.robot \in Robot /\ req.current_time \in Int
  BY RefusalMeans DEF RouteRequest
<1>3. BackToBack(windows, req.current_time)
  BY <1>1, <1>2, WindowsFitTogether
<1>4. /\ result = [failure |-> None, route |-> route, cost |-> cost]
      /\ route = [id |-> route_sequence + 1, robot |-> req.robot, nodes |-> walk.nodes,
                  edges |-> walk.edges, windows |-> windows, created_at |-> started]
  BY DEF Found
<1> HIDE DEF result, windows
<1>5. route \in Route
  <2>1. route_sequence + 1 \in Nat
    OBVIOUS
  <2>2. walk.nodes \in Seq(NodeId) /\ walk.edges \in Seq(EdgeId)
    BY <1>1
  <2>3. windows \in Seq([start : Int, end : Int])
    BY <1>3 DEF BackToBack, Window
  <2> HIDE DEF route
  <2>. QED  BY <1>2, <1>4, <2>1, <2>2, <2>3 DEF Route
<1> HIDE DEF route
<1>6. result \in Answer /\ result.failure = None /\ result.route = route /\ result.cost = cost
  <2>1. result \in [failure : {None}, route : Route, cost : Int]
    BY <1>4, <1>5
  <2>. QED  BY <1>4, <2>1 DEF Answer
<1>7. /\ route.nodes = walk.nodes /\ route.edges = walk.edges /\ route.windows = windows
      /\ route.created_at = started
  BY <1>4
<1>8. RouteIsValid(Map, route, req.constraints)
  <2>1. route.nodes # << >>
    BY <1>1, <1>7
  <2>2. \A n \in Seqs!ToSet(walk.nodes) : n \in NodesOf(Map) /\ AllowsNode(req.constraints, n)
    BY <1>1 DEF Seqs!ToSet
  <2>3. DOMAIN walk.edges = 1..Len(walk.edges)
    BY <1>1
  <2>. QED  BY <1>7, <2>1, <2>2, <2>3 DEF RouteIsValid
<1>9. Seqs!Last(route.nodes) = req.goal /\ route.nodes[1] = req.start
  BY <1>7 DEF Seqs!Last
<1>10. Drives(result, req)
  BY <1>3, <1>6, <1>7, <1>8, <1>9 DEF Drives, BackToBack
<1>11. OnMap(route)
  BY <1>1, <1>5, <1>7 DEF OnMap
<1>. QED  BY <1>6, <1>7, <1>10, <1>11 DEF result

(* The way back is a route: what it costs is what the goal's entry says.   *)
LEMMA WayBackIsFound ==
  ASSUME Composed, SearchInv, request \in RouteRequest,
         NEW current \in open, IsNext(current), ~IsSettled(current.node),
         current.node = request.goal, route_sequence \in Nat, NEW started \in Int
  PROVE  LET result == Found(request, WayBack, current.g, started)
         IN  /\ result \in Answer /\ result.failure = None
             /\ OnMap(result.route) /\ Drives(result, request)
             /\ result.route.created_at = started
<1> DEFINE walk == WayBack
           n == Len(walk.edges)
<1>1. /\ request.goal \in DOMAIN best_cost /\ current.g = best_cost[request.goal]
      /\ current.g \in Int
  BY CheapestComesFirst
<1>2. LeadsToGoal(walk) /\ walk.nodes[1] = request.start
  BY <1>1, WayBackLeads
<1>3. /\ walk \in WalkOfMap /\ Len(walk.nodes) = n + 1
      /\ walk.edges \in Seq(EdgesOf(Map)) /\ n \in Nat
      /\ walk.nodes[n + 1] = request.goal
      /\ \A k \in 1..(n + 1) : walk.nodes[k] \in DOMAIN best_cost
      /\ \A k \in 1..n :
           best_cost[walk.nodes[k + 1]] = best_cost[walk.nodes[k]] + StepCost(walk.edges[k])
  <2>1. walk \in WalkOfMap
    BY <1>2 DEF LeadsToGoal
  <2>2. walk.edges \in Seq(EdgesOf(Map))
    BY <2>1 DEF WalkOfMap
  <2>. QED  BY <1>2, <2>1, <2>2 DEF LeadsToGoal
<1>4. /\ StartsRight(Frontier, Seqs!ToSet(settled)) /\ Frontier.best_cost = best_cost
      /\ Frontier \in Front
  BY DEF SearchInv, FrontInv, Frontier
<1>5. \A k \in 1..Len(walk.nodes) : AllowsNode(request.constraints, walk.nodes[k])
  BY <1>3, <1>4 DEF StartsRight
<1> HIDE DEF walk, n
<1>6. current.g = RouteCost(Map, walk.edges, request.constraints, surcharge)
  <2>1. PICK sums \in [0..n -> Int] :
          /\ sums[0] = 0
          /\ \A k \in 1..n : sums[k] = sums[k - 1]
                               + EdgeCost(Map, walk.edges[k], request.constraints, surcharge)
          /\ RouteCost(Map, walk.edges, request.constraints, surcharge) = sums[n]
    BY <1>3, CostEdgeByEdge DEF n
  <2> DEFINE P == {k \in 0..n : sums[k] = best_cost[walk.nodes[k + 1]]}
  <2>2. 0 \in P
    BY <1>2, <1>3, <1>4, <2>1 DEF StartsRight
  <2>3. ASSUME NEW k \in 1..n, k - 1 \in P PROVE k \in P
    <3>1. (k - 1) + 1 = k /\ k \in 0..n
      BY <1>3
    <3>2. sums[k - 1] = best_cost[walk.nodes[k]]
      BY <2>3, <3>1
    <3>. QED  BY <1>3, <2>1, <3>1, <3>2 DEF StepCost
  <2> HIDE DEF P
  <2>4. 0..n \subseteq P
    BY <1>3, <2>2, <2>3, InductionUpTo
  <2>5. sums[n] = best_cost[walk.nodes[n + 1]]
    BY <1>3, <2>4 DEF P
  <2>. QED  BY <1>1, <1>3, <2>1, <2>5
<1>7. \A k \in 1..Len(walk.edges) :
        SegmentIsValid(Map, request.constraints, walk.edges[k],
                       walk.nodes[k], walk.nodes[k + 1])
  BY <1>2 DEF LeadsToGoal
<1>8. walk.nodes[Len(walk.nodes)] = request.goal /\ Len(walk.nodes) = Len(walk.edges) + 1
  BY <1>3 DEF n
<1>9. Refusal(request) = None
  BY DEF SearchInv
<1>. QED  BY <1>1, <1>2, <1>3, <1>5, <1>6, <1>7, <1>8, <1>9, FoundAnswers DEF walk

(* A robot that is where it is to go has a route of one node.              *)
LEMMA StayingIsFound ==
  ASSUME Composed, NEW req \in RouteRequest, Refusal(req) = None, req.start = req.goal,
         route_sequence \in Nat, NEW started \in Int
  PROVE  LET result == Found(req, [nodes |-> <<req.start>>, edges |-> << >>], 0, started)
         IN  /\ result \in Answer /\ result.failure = None
             /\ OnMap(result.route) /\ Drives(result, req)
             /\ result.route.created_at = started
<1> DEFINE walk == [nodes |-> <<req.start>>, edges |-> << >>]
<1>1. req.start \in NodesOf(Map) /\ AllowsNode(req.constraints, req.start)
  BY RefusalMeans
<1>2. walk \in WalkOfMap
  BY <1>1 DEF WalkOfMap
<1>3. /\ Len(walk.nodes) = 1 /\ Len(walk.edges) = 0 /\ walk.nodes[1] = req.start
      /\ 1..0 = {} /\ 1..1 = {1} /\ walk.edges \in Seq(EdgesOf(Map))
  OBVIOUS
<1> HIDE DEF walk
<1>4. RouteCost(Map, walk.edges, req.constraints, surcharge) = 0
  <2>1. PICK sums \in [0..Len(walk.edges) -> Int] :
          /\ sums[0] = 0
          /\ RouteCost(Map, walk.edges, req.constraints, surcharge) = sums[Len(walk.edges)]
    BY <1>3, CostEdgeByEdge
  <2>. QED  BY <1>3, <2>1
<1>5. \A k \in 1..Len(walk.nodes) : AllowsNode(req.constraints, walk.nodes[k])
  BY <1>1, <1>3
<1>6. \A k \in 1..Len(walk.edges) :
        SegmentIsValid(Map, req.constraints, walk.edges[k],
                       walk.nodes[k], walk.nodes[k + 1])
  BY <1>3
<1>7. 0 \in Int /\ walk.nodes[Len(walk.nodes)] = req.goal /\ walk.nodes[1] = req.start
      /\ Len(walk.nodes) = Len(walk.edges) + 1
  BY <1>3
<1>8. 0 = RouteCost(Map, walk.edges, req.constraints, surcharge)
  BY <1>4
<1>9. LET result == Found(req, walk, 0, started)
      IN  /\ result \in Answer /\ result.failure = None
          /\ OnMap(result.route) /\ Drives(result, req)
          /\ result.route.created_at = started
  BY <1>2, <1>5, <1>6, <1>7, <1>8, FoundAnswers, ZenonT(60)
<1>. QED  BY <1>9 DEF walk


(* Whoever asks again about the same map, traffic and call is told the     *)
(* same.                                                                   *)
LEMMA AnswersStay ==
  ASSUME UNCHANGED <<planner, surcharge, called_at>>, NEW req, NEW result
  PROVE  /\ Answers(result, req)' <=> Answers(result, req)
         /\ \A route : OnMap(route)' <=> OnMap(route)
<1>1. Map' = Map /\ surcharge' = surcharge /\ called_at' = called_at
  BY DEF Map
<1>. QED  BY <1>1 DEF Answers, OnMap, Drives

(* plan_route is called.                                                   *)
LEMMA PlanRouteFits ==
  ASSUME Composed, route_sequence \in Nat, NEW req \in RouteRequest, NEW at \in Int,
         PlanRoute(req, at)
  PROVE  /\ UNCHANGED <<planner, surcharge>> /\ request' = req /\ called_at' = at
         /\ route_sequence' \in Nat
         /\ \/ answer' = answer /\ SearchInv'
            \/ answer' # None /\ Answers(answer, request)'
<1>1. /\ planner' = planner /\ surcharge' = surcharge /\ request' = req /\ called_at' = at
      /\ Map' = Map
  BY DEF PlanRoute, Map
<1>2. \A result \in Answer : result # None
  BY NoneAssumption
<1>3. ASSUME NEW result \in Answer,
             result.failure = None =>
               OnMap(result.route) /\ Drives(result, req) /\ result.route.created_at = at,
             answer' = result
      PROVE  answer' # None /\ Answers(answer, request)'
  BY <1>1, <1>2, <1>3 DEF Answers, OnMap, Drives
<1>4. CASE Refusal(req) # None /\ Answered(Failed(Refusal(req)))
  <2>1. Refusal(req) \in PlanningFailure
    BY <1>4, RefusalsAreFailures
  <2>2. Failed(Refusal(req)) \in Answer /\ Failed(Refusal(req)).failure # None
    BY <2>1, FailureAnswers
  <2>3. answer' = Failed(Refusal(req)) /\ route_sequence' \in Nat
    BY <1>4 DEF Answered
  <2>. QED  BY <1>1, <1>3, <2>2, <2>3
<1>5. CASE /\ Refusal(req) = None /\ req.start = req.goal
           /\ Answered(Found(req, [nodes |-> <<req.start>>, edges |-> << >>], 0, at))
  <2> DEFINE result == Found(req, [nodes |-> <<req.start>>, edges |-> << >>], 0, at)
  <2>1. /\ result \in Answer /\ result.failure = None
        /\ OnMap(result.route) /\ Drives(result, req)
        /\ result.route.created_at = at
    BY <1>5, StayingIsFound
  <2>2. answer' = result /\ route_sequence' \in Nat
    BY <1>5 DEF Answered
  <2> HIDE DEF result
  <2>. QED  BY <1>1, <1>3, <2>1, <2>2
<1>6. CASE /\ Refusal(req) = None /\ req.start # req.goal
           /\ best_cost' = With(Nothing, req.start, 0)
           /\ came_from' = Nothing /\ settled' = << >>
           /\ open' = {Candidate(req.start, 0, req.goal)}
           /\ UNCHANGED <<route_sequence, answer>>
  <2>1. SearchInv'
    BY <1>1, <1>6, StartingFits
  <2>. QED  BY <1>1, <1>6, <2>1
<1>. QED  BY <1>4, <1>5, <1>6 DEF PlanRoute

(* A turn of the loop.                                                     *)
LEMMA SearchFits ==
  ASSUME Composed, SearchInv, request \in RouteRequest, called_at \in Int,
         route_sequence \in Nat, Search
  PROVE  /\ UNCHANGED <<planner, surcharge, request, called_at>>
         /\ route_sequence' \in Nat
         /\ \/ answer' = answer /\ SearchInv'
            \/ answer' # None /\ Answers(answer, request)'
<1>1. \A result \in Answer : result # None
  BY NoneAssumption
<1>2. ASSUME UNCHANGED <<planner, surcharge, request, called_at>>,
             NEW result, Answers(result, request), answer' = result
      PROVE  answer' # None /\ Answers(answer, request)'
  <2>1. Map' = Map /\ surcharge' = surcharge /\ called_at' = called_at
    BY <1>2 DEF Map
  <2>. QED  BY <1>1, <1>2, <2>1 DEF Answers, OnMap, Drives
<1>3. ASSUME NEW failure \in {"no_route", "search_limit_reached"},
             UNCHANGED <<planner, surcharge, request, called_at>>,
             Answered(Failed(failure))
      PROVE  route_sequence' \in Nat /\ answer' # None /\ Answers(answer, request)'
  <2>1. Answers(Failed(failure), request)
    BY FailureAnswers DEF PlanningFailure
  <2>2. answer' = Failed(failure) /\ route_sequence' \in Nat
    BY <1>3 DEF Answered
  <2>. QED  BY <1>2, <1>3, <2>1, <2>2
<1>4. CASE Exhaust
  BY <1>3, <1>4 DEF Exhaust
<1>5. ASSUME NEW current \in open, Discard(current)
      PROVE  /\ UNCHANGED <<planner, surcharge, request, called_at, route_sequence, answer>>
             /\ SearchInv'
  BY <1>5, DiscardingKeeps DEF Discard
<1>6. ASSUME NEW current \in open, Settle(current)
      PROVE  /\ UNCHANGED <<planner, surcharge, request, called_at>>
             /\ route_sequence' \in Nat
             /\ \/ answer' = answer /\ SearchInv'
                \/ answer' # None /\ Answers(answer, request)'
  <2>1. /\ UNCHANGED <<planner, surcharge, request, called_at>>
        /\ IsNext(current) /\ ~IsSettled(current.node)
    BY <1>6 DEF Settle
  <2>2. CASE /\ current.node = request.goal
             /\ Answered(Found(request, WayBack, current.g, called_at))
    <3> DEFINE result == Found(request, WayBack, current.g, called_at)
    <3>1. /\ result \in Answer /\ result.failure = None
          /\ OnMap(result.route) /\ Drives(result, request)
          /\ result.route.created_at = called_at
      BY <2>1, <2>2, WayBackIsFound
    <3>2. answer' = result /\ route_sequence' \in Nat
      BY <2>2 DEF Answered
    <3> HIDE DEF result
    <3>3. Answers(result, request)
      BY <3>1 DEF Answers
    <3>. QED  BY <1>2, <2>1, <3>2, <3>3
  <2>3. CASE HitsLimit /\ Answered(Failed("search_limit_reached"))
    BY <1>3, <2>1, <2>3
  <2>4. CASE /\ current.node # request.goal /\ ~HitsLimit
             /\ \E after \in Expanded([Frontier EXCEPT !.open = @ \ {current}], current,
                                      TraversableEdges(Map, current.node)) :
                  /\ best_cost' = after.best_cost
                  /\ came_from' = after.came_from
                  /\ open' = after.open
             /\ settled' = Append(settled, current.node)
             /\ UNCHANGED <<route_sequence, answer>>
    <3>1. PICK after \in Expanded(Popped(current), current,
                                  TraversableEdges(Map, current.node)) :
            /\ best_cost' = after.best_cost /\ came_from' = after.came_from
            /\ open' = after.open
      BY <2>4 DEF Popped
    <3>2. SearchInv'
      BY <2>1, <2>4, <3>1, SettlingKeeps
    <3>. QED  BY <2>1, <2>4, <3>2
  <2>. QED  BY <1>6, <2>2, <2>3, <2>4 DEF Settle
<1>. QED  BY <1>4, <1>5, <1>6, <1>3 DEF Search, Exhaust


-----------------------------------------------------------------------------
(* The calls of a planner, one at a time.                                  *)
Outcome ==
  [robot : Robot \cup {None}, route : Route \cup {None},
   failure : PlanningFailure \cup {None}]

(* A route that was planned before now.                                    *)
Known(route) == OnMap(route) /\ route.created_at <= now

BatchTyped ==
  /\ batch.routes \in Seq(RouteRequest) /\ batch.began \in Int
  /\ batch.deadline \in Int \cup {None} /\ batch.timeout \in Int \cup {None}

FleetTyped ==
  /\ Composed /\ now \in Int /\ called_at \in Int /\ called_at <= now
  /\ route_sequence \in Nat /\ request \in RouteRequest \cup {None}
  /\ replanning \in Robot \cup {None} /\ outcomes \in Seq(Outcome)
  /\ batch # None => BatchTyped
  /\ in_force \in [Robot -> Route \cup {None}] /\ place \in [Robot -> Nat \cup {None}]
  /\ \A robot \in Robot : in_force[robot] # None => Known(in_force[robot])
  /\ \A i \in DOMAIN outcomes : outcomes[i].route # None => Known(outcomes[i].route)

(* Who is being worked for.                                                *)
CallsFit ==
  /\ answer # None => request # None /\ Answers(answer, request)
  /\ Searching => SearchInv
  /\ request # None => batch # None \/ replanning # None
  /\ replanning # None =>
       /\ batch = None /\ request # None /\ request.current_time <= now
       /\ in_force[replanning] # None
  /\ batch = None => outcomes = << >> /\ status = None

(* A batch so far: an outcome for each robot up to the one at work.        *)
BatchFits ==
  /\ Len(outcomes) <= Len(batch.routes)
  /\ \A i \in DOMAIN outcomes :
       /\ outcomes[i].robot = batch.routes[i].robot
       /\ (outcomes[i].route = None) # (outcomes[i].failure = None)
  /\ request # None =>
       Len(outcomes) < Len(batch.routes) /\ request = batch.routes[Len(outcomes) + 1]

FleetInv ==
  /\ FleetTyped /\ CallsFit
  /\ batch # None /\ request # None => status = None
  /\ batch # None /\ status = None => BatchFits
  /\ BatchAnswersEveryRobot

(* What was known stays known.                                             *)
LEMMA KnownStays ==
  ASSUME planner' = planner, now \in Int, now' \in Int, now <= now', NEW route, Known(route)
  PROVE  Known(route)'
<1>1. Map' = Map
  BY DEF Map
<1>2. route.created_at \in Int
  BY DEF Known, OnMap, Route
<1>. QED  BY <1>1, <1>2 DEF Known, OnMap

(* What a batch has come to is settled, whatever time it is.               *)
LEMMA BatchAnswersStay ==
  ASSUME FleetTyped, CallsFit, BatchAnswersEveryRobot,
         UNCHANGED <<batch, outcomes, status>>,
         now' \in Int, now <= now'
  PROVE  BatchAnswersEveryRobot'
<1> SUFFICES ASSUME status # None PROVE BatchAnswersEveryRobot'
  BY DEF BatchAnswersEveryRobot
<1>1. batch # None /\ BatchTyped /\ now \in Int
  BY DEF CallsFit, FleetTyped
<1>2. /\ batch.deadline # None /\ batch.deadline <= now => batch.deadline <= now'
      /\ batch.timeout # None /\ batch.began + batch.timeout <= now
           => batch.began + batch.timeout <= now'
  <2>1. batch.deadline # None => batch.deadline \in Int
    BY <1>1 DEF BatchTyped
  <2>2. batch.timeout # None => batch.began + batch.timeout \in Int
    BY <1>1 DEF BatchTyped
  <2>. QED  BY <1>1, <2>1, <2>2
<1>. QED  BY <1>2 DEF BatchAnswersEveryRobot

LEMMA FleetStarts == FleetInit => FleetInv
<1> SUFFICES ASSUME FleetInit PROVE FleetInv
  OBVIOUS
<1>1. 0 \in Int /\ 0 \in Nat /\ 0 <= 0 /\ << >> \in Seq(Outcome) /\ DOMAIN << >> = {}
  OBVIOUS
<1>2. FleetTyped
  BY <1>1 DEF FleetInit, FleetTyped, Composed
<1>3. CallsFit
  BY DEF FleetInit, CallsFit, Searching
<1>4. BatchAnswersEveryRobot
  BY DEF FleetInit, BatchAnswersEveryRobot
<1>. QED  BY <1>2, <1>3, <1>4 DEF FleetInit, FleetInv

(* A batch is submitted.                                                   *)
LEMMA SubmitKeeps ==
  ASSUME FleetInv, NEW b \in Batches, Submit(b)
  PROVE  FleetInv'
<1>1. /\ planner' = planner /\ surcharge' = surcharge /\ request' = request
      /\ called_at' = called_at /\ answer' = answer /\ route_sequence' = route_sequence
      /\ now' = now /\ replanning' = replanning /\ in_force' = in_force /\ place' = place
      /\ outcomes' = << >> /\ status' = None
      /\ request = None /\ batch = None /\ replanning = None
      /\ batch' = [routes |-> b.routes, deadline |-> b.deadline,
                   timeout |-> b.timeout, began |-> now]
  BY DEF Submit, Idle, searchVars, controlVars
<1>2. b \in PlanningRequest
  BY CallAssumption
<1>3. /\ b.routes \in Seq(RouteRequest) /\ b.deadline \in Int \cup {None}
      /\ b.timeout \in Int \cup {None}
  BY <1>2 DEF PlanningRequest
<1>4. now \in Int /\ now <= now
  BY DEF FleetInv, FleetTyped
<1>5. BatchTyped'
  BY <1>1, <1>3, <1>4 DEF BatchTyped
<1>6. \A route : Known(route) => Known(route)'
  BY <1>1, <1>4, KnownStays
<1>7. << >> \in Seq(Outcome) /\ DOMAIN << >> = {} /\ Len(<< >>) = 0
      /\ Len(b.routes) \in Nat
  BY <1>3
<1>8. FleetTyped'
  BY <1>1, <1>4, <1>5, <1>6, <1>7 DEF FleetInv, FleetTyped, Composed
<1>9. answer = None
  BY <1>1 DEF FleetInv, CallsFit
<1>10. CallsFit'
  BY <1>1, <1>9 DEF CallsFit, Searching
<1>11. BatchFits'
  BY <1>1, <1>7 DEF BatchFits
<1>12. BatchAnswersEveryRobot'
  BY <1>1 DEF BatchAnswersEveryRobot
<1>. QED  BY <1>1, <1>8, <1>10, <1>11, <1>12 DEF FleetInv

(* The planner is called for a robot of the batch, or to replan for one.   *)
LEMMA CallKeeps ==
  ASSUME FleetInv, NEW req \in RouteRequest, CallPlanner(req),
         UNCHANGED <<batch, outcomes, status, in_force, place>>,
         replanning' \in Robot \cup {None},
         \/ /\ batch # None /\ status = None /\ replanning' = None
            /\ Len(outcomes) < Len(batch.routes) /\ req = batch.routes[Len(outcomes) + 1]
         \/ /\ batch = None /\ replanning' # None /\ in_force[replanning'] # None
            /\ req.current_time <= now
  PROVE  FleetInv'
<1>0. PlanRoute(req, now') /\ now \in Int /\ now' \in Int /\ now <= now'
  <2>1. PICK at \in {now} \cup {t \in Time : t > now} : PlanRoute(req, at) /\ now' = at
    BY DEF CallPlanner
  <2>. QED  BY <2>1, CallAssumption DEF FleetInv, FleetTyped
<1>1. request = None /\ answer = None
  BY <1>0 DEF PlanRoute, FleetInv, CallsFit
<1>2. /\ Composed /\ now \in Int /\ now' \in Int /\ now <= now' /\ route_sequence \in Nat
  BY <1>0 DEF FleetInv, FleetTyped
<1>3. /\ UNCHANGED <<planner, surcharge>> /\ request' = req /\ called_at' = now'
      /\ route_sequence' \in Nat
      /\ \/ answer' = answer /\ SearchInv'
         \/ answer' # None /\ Answers(answer, request)'
  BY <1>0, <1>2, PlanRouteFits
<1>4. req # None
  BY NoneAssumption
<1>5. \A route : Known(route) => Known(route)'
  BY <1>2, <1>3, KnownStays
<1>6. FleetTyped'
  BY <1>2, <1>3, <1>5 DEF FleetInv, FleetTyped, Composed, BatchTyped
<1>7. CallsFit'
  <2>1. req.current_time <= now => req.current_time <= now'
    BY <1>0 DEF RouteRequest
  <2>. QED  BY <1>1, <1>3, <1>4, <2>1 DEF FleetInv, CallsFit, Searching
<1>8. batch # None /\ status = None => BatchFits'
  BY <1>1, <1>3, <1>4 DEF FleetInv, BatchFits
<1>9. BatchAnswersEveryRobot'
  BY <1>2, BatchAnswersStay DEF FleetInv
<1>. QED  BY <1>3, <1>4, <1>6, <1>7, <1>8, <1>9 DEF FleetInv

LEMMA PlanNextKeeps == FleetInv /\ PlanNext => FleetInv'
<1> SUFFICES ASSUME FleetInv, PlanNext PROVE FleetInv'
  OBVIOUS
<1> DEFINE n == Len(outcomes)
           req == batch.routes[n + 1]
<1>1. /\ batch # None /\ status = None /\ n < Len(batch.routes)
      /\ CallPlanner(req)
      /\ UNCHANGED <<batch, outcomes, status, in_force, place>>
      /\ replanning' = replanning
  BY DEF PlanNext, Working, controlVars
<1>2. replanning = None /\ BatchTyped /\ n \in Nat
  BY <1>1 DEF FleetInv, CallsFit, FleetTyped
<1>3. req \in RouteRequest
  <2>1. n + 1 \in 1..Len(batch.routes) /\ batch.routes \in Seq(RouteRequest)
    BY <1>1, <1>2 DEF BatchTyped
  <2>. QED  BY <2>1
<1>. QED  BY <1>1, <1>2, <1>3, CallKeeps

LEMMA ReplanKeeps ==
  ASSUME FleetInv, NEW robot \in Robot, NEW constraints \in Closures,
         Replan(robot, constraints)
  PROVE  FleetInv'
<1> DEFINE req == [robot        |-> robot,
                   start        |-> place[robot],
                   goal         |-> Seqs!Last(in_force[robot].nodes),
                   current_time |-> now,
                   constraints  |-> constraints]
<1>1. /\ request = None /\ batch = None /\ in_force[robot] # None
      /\ CallPlanner(req) /\ replanning' = robot
      /\ UNCHANGED <<batch, outcomes, status, in_force, place>>
  BY DEF Replan, Idle, controlVars
<1>2. /\ now \in Int /\ now <= now /\ place[robot] \in Nat \cup {None}
      /\ OnMap(in_force[robot]) /\ Composed
  BY <1>1 DEF FleetInv, FleetTyped, Known
<1>3. Seqs!Last(in_force[robot].nodes) \in Nat
  <2> DEFINE nodes == in_force[robot].nodes
  <2>1. nodes \in Seq(NodesOf(Map)) /\ Len(nodes) \in 1..Len(nodes)
    BY <1>2 DEF OnMap
  <2>2. nodes[Len(nodes)] \in NodesOf(Map) /\ NodesOf(Map) \subseteq Nat
    BY <1>2, <2>1, MapIsMap
  <2>. QED  BY <2>2 DEF Seqs!Last
<1>4. constraints \in Constraints
  BY CallAssumption
<1>5. req \in RouteRequest
  BY <1>2, <1>3, <1>4 DEF RouteRequest
<1>6. req.current_time <= now /\ robot # None
  BY <1>2, NoneAssumption
<1> HIDE DEF req
<1>. QED  BY <1>1, <1>5, <1>6, CallKeeps

LEMMA SearchOnKeeps == FleetInv /\ SearchOn => FleetInv'
<1> SUFFICES ASSUME FleetInv, SearchOn PROVE FleetInv'
  OBVIOUS
<1>1. /\ Search
      /\ UNCHANGED <<now, batch, outcomes, status, replanning, in_force, place>>
  BY DEF SearchOn, controlVars
<1>2. Searching
  BY <1>1 DEF Search, Exhaust, Discard, Settle
<1>3. /\ Composed /\ now \in Int /\ now <= now /\ route_sequence \in Nat
      /\ called_at \in Int /\ request \in RouteRequest /\ SearchInv
  BY <1>2 DEF FleetInv, FleetTyped, CallsFit, Searching
<1>4. /\ UNCHANGED <<planner, surcharge, request, called_at>>
      /\ route_sequence' \in Nat
      /\ \/ answer' = answer /\ SearchInv'
         \/ answer' # None /\ Answers(answer, request)'
  BY <1>1, <1>3, SearchFits
<1>5. \A route : Known(route) => Known(route)'
  BY <1>1, <1>3, <1>4, KnownStays
<1>6. FleetTyped'
  BY <1>1, <1>3, <1>4, <1>5 DEF FleetInv, FleetTyped, Composed, BatchTyped
<1>7. CallsFit'
  BY <1>1, <1>2, <1>3, <1>4 DEF FleetInv, CallsFit, Searching
<1>8. batch # None /\ status = None => BatchFits'
  BY <1>1, <1>4 DEF FleetInv, BatchFits
<1>9. BatchAnswersEveryRobot'
  BY <1>1, <1>3, BatchAnswersStay DEF FleetInv
<1>. QED  BY <1>1, <1>4, <1>6, <1>7, <1>8, <1>9 DEF FleetInv


(* Nobody asks, and nothing is planned.                                    *)
LEMMA QuietKeeps ==
  ASSUME FleetInv, now' \in Int, now <= now', planner' = planner,
         \/ surcharge' = surcharge
         \/ request = None /\ surcharge' \in Surcharges,
         \/ Searching /\ now' = now
         \/ ~Searching,
         UNCHANGED <<request, called_at, frontier, route_sequence, answer,
                     batch, outcomes, status, replanning, in_force>>,
         place' \in [Robot -> Nat \cup {None}]
  PROVE  FleetInv'
<1>1. /\ request' = request /\ called_at' = called_at /\ answer' = answer
      /\ route_sequence' = route_sequence /\ batch' = batch /\ outcomes' = outcomes
      /\ status' = status /\ replanning' = replanning /\ in_force' = in_force
  OBVIOUS
<1>2. now \in Int /\ called_at \in Int /\ called_at <= now'
  BY DEF FleetInv, FleetTyped
<1>3. \A route : Known(route) => Known(route)'
  BY <1>2, KnownStays
<1>4. FleetTyped'
  <2>1. Composed'
    BY DEF FleetInv, FleetTyped, Composed
  <2>. QED  BY <1>1, <1>2, <1>3, <2>1 DEF FleetInv, FleetTyped, BatchTyped
<1>5. CallsFit'
  <2>1. Searching => SearchInv'
    <3> SUFFICES ASSUME Searching PROVE SearchInv'
      OBVIOUS
    <3>1. SearchInv /\ surcharge' = surcharge
      BY DEF FleetInv, CallsFit, Searching
    <3>. QED  BY <3>1, SearchStays
  <2>2. answer # None => request # None /\ Answers(answer, request)'
    <3> SUFFICES ASSUME answer # None PROVE request # None /\ Answers(answer, request)'
      OBVIOUS
    <3>1. /\ request # None /\ Answers(answer, request)
          /\ surcharge' = surcharge /\ Map' = Map
      BY DEF FleetInv, CallsFit, Map
    <3>. QED  BY <1>1, <3>1 DEF Answers, OnMap, Drives
  <2>3. replanning # None => request.current_time <= now'
    <3> SUFFICES ASSUME replanning # None PROVE request.current_time <= now'
      OBVIOUS
    <3>1. request.current_time <= now /\ request \in RouteRequest
      BY DEF FleetInv, CallsFit, FleetTyped
    <3>2. request.current_time \in Int
      BY <3>1 DEF RouteRequest
    <3>. QED  BY <1>2, <3>1, <3>2
  <2>. QED  BY <1>1, <2>1, <2>2, <2>3 DEF FleetInv, CallsFit, Searching
<1>6. batch # None /\ status = None => BatchFits'
  BY <1>1 DEF FleetInv, BatchFits
<1>7. BatchAnswersEveryRobot'
  BY <1>1, BatchAnswersStay DEF FleetInv
<1>. QED  BY <1>1, <1>4, <1>5, <1>6, <1>7 DEF FleetInv

LEMMA DriveKeeps ==
  ASSUME FleetInv, NEW robot \in Robot, Drive(robot)
  PROVE  FleetInv'
<1> DEFINE route == in_force[robot]
<1>1. PICK i \in DOMAIN route.edges :
        place' = [place EXCEPT ![robot] = route.nodes[i + 1]]
  BY DEF Drive
<1>2. /\ UNCHANGED <<searchVars, now, batch, outcomes, status, replanning, in_force>>
      /\ request = None /\ route # None
  BY DEF Drive, Idle
<1>3. /\ Known(route) /\ Composed /\ now \in Int /\ now <= now
      /\ place \in [Robot -> Nat \cup {None}]
  BY <1>2 DEF FleetInv, FleetTyped
<1>4. route.nodes[i + 1] \in Nat
  <2>1. /\ route.nodes \in Seq(NodesOf(Map)) /\ route.edges \in Seq(EdgesOf(Map))
        /\ Len(route.nodes) = Len(route.edges) + 1
    BY <1>3 DEF Known, OnMap
  <2> HIDE DEF route
  <2>2. i + 1 \in 1..Len(route.nodes)
    BY <2>1
  <2>3. route.nodes[i + 1] \in NodesOf(Map) /\ NodesOf(Map) \subseteq Nat
    BY <1>3, <2>1, <2>2, MapIsMap
  <2>. QED  BY <2>3
<1> HIDE DEF route
<1>5. place' \in [Robot -> Nat \cup {None}]
  BY <1>1, <1>3, <1>4
<1>6. /\ UNCHANGED <<request, called_at, frontier, route_sequence, answer,
                     batch, outcomes, status, replanning, in_force>>
      /\ planner' = planner /\ surcharge' = surcharge /\ now' = now /\ ~Searching
  BY <1>2 DEF searchVars, Searching
<1>. QED  BY <1>3, <1>5, <1>6, QuietKeeps

LEMMA TrafficKeeps == FleetInv /\ TrafficChanges => FleetInv'
<1> SUFFICES ASSUME FleetInv, TrafficChanges PROVE FleetInv'
  OBVIOUS
<1>1. /\ UNCHANGED <<request, called_at, frontier, route_sequence, answer,
                     batch, outcomes, status, replanning, in_force>>
      /\ planner' = planner /\ surcharge' \in Surcharges /\ now' = now /\ place' = place
      /\ request = None /\ ~Searching
  BY DEF TrafficChanges, Idle, Searching, controlVars
<1>2. now \in Int /\ now <= now /\ place \in [Robot -> Nat \cup {None}]
  BY DEF FleetInv, FleetTyped
<1>. QED  BY <1>1, <1>2, QuietKeeps

LEMMA TickKeeps == FleetInv /\ Tick => FleetInv'
<1> SUFFICES ASSUME FleetInv, Tick PROVE FleetInv'
  OBVIOUS
<1>1. /\ UNCHANGED <<request, called_at, frontier, route_sequence, answer,
                     batch, outcomes, status, replanning, in_force>>
      /\ planner' = planner /\ surcharge' = surcharge /\ now' = now + 1 /\ place' = place
      /\ ~Searching
  BY DEF Tick, searchVars, controlVars
<1>2. /\ now' \in Int /\ now <= now' /\ place \in [Robot -> Nat \cup {None}]
  BY <1>1 DEF FleetInv, FleetTyped
<1>. QED  BY <1>1, <1>2, QuietKeeps

LEMMA StutteringKeeps == FleetInv /\ UNCHANGED fleetVars => FleetInv'
<1> SUFFICES ASSUME FleetInv, UNCHANGED fleetVars PROVE FleetInv'
  OBVIOUS
<1>1. /\ UNCHANGED <<request, called_at, frontier, route_sequence, answer,
                     batch, outcomes, status, replanning, in_force>>
      /\ planner' = planner /\ surcharge' = surcharge /\ now' = now /\ place' = place
  BY DEF fleetVars, searchVars
<1>2. now \in Int /\ now <= now /\ place \in [Robot -> Nat \cup {None}]
  BY DEF FleetInv, FleetTyped
<1>. QED  BY <1>1, <1>2, QuietKeeps

(* An outcome is recorded.                                                 *)
LEMMA RecordKeeps == FleetInv /\ RecordOutcome => FleetInv'
<1> SUFFICES ASSUME FleetInv, RecordOutcome PROVE FleetInv'
  OBVIOUS
<1> DEFINE n == Len(outcomes)
           outcome == [robot |-> request.robot, route |-> answer.route,
                       failure |-> answer.failure]
<1>1. /\ batch # None /\ answer # None
      /\ request' = None /\ answer' = None /\ outcomes' = Append(outcomes, outcome)
      /\ planner' = planner /\ surcharge' = surcharge /\ called_at' = called_at
      /\ route_sequence' = route_sequence
      /\ now' = now /\ batch' = batch /\ status' = status /\ replanning' = replanning
      /\ in_force' = in_force /\ place' = place
  BY DEF RecordOutcome, Return, controlVars
<1>2. request # None /\ Answers(answer, request) /\ status = None /\ replanning = None
  BY <1>1 DEF FleetInv, CallsFit
<1>3. /\ BatchFits /\ n < Len(batch.routes) /\ request = batch.routes[n + 1]
      /\ request \in RouteRequest /\ outcomes \in Seq(Outcome) /\ n \in Nat
      /\ now \in Int /\ now <= now /\ called_at <= now /\ DOMAIN outcomes = 1..n
  BY <1>1, <1>2 DEF FleetInv, BatchFits, FleetTyped
<1>4. /\ outcome.robot = request.robot /\ outcome.route = answer.route
      /\ outcome.failure = answer.failure
  OBVIOUS
<1>5. /\ answer \in Answer
      /\ answer.failure = None => OnMap(answer.route) /\ answer.route.created_at = called_at
  BY <1>2 DEF Answers
<1>6. /\ (answer.route = None) # (answer.failure = None)
      /\ answer.route \in Route \cup {None} /\ answer.failure \in PlanningFailure \cup {None}
  BY <1>5, NoneAssumption DEF Answer
<1>7. outcome \in Outcome
  BY <1>3, <1>6 DEF Outcome, RouteRequest
<1>8. answer.route # None => Known(answer.route)
  BY <1>3, <1>5, <1>6 DEF Known
<1> HIDE DEF outcome
<1> DEFINE more == Append(outcomes, outcome)
<1>9. /\ more \in Seq(Outcome) /\ Len(more) = n + 1 /\ more[n + 1] = outcome
      /\ \A i \in 1..n : more[i] = outcomes[i]
  BY <1>3, <1>7, AppendedTo
<1>10. DOMAIN more = 1..n \cup {n + 1}
  <2>1. DOMAIN more = 1..(n + 1)
    BY <1>9
  <2>. QED  BY <1>3, <2>1
<1> HIDE DEF more
<1>11. \A route : Known(route) => Known(route)'
  BY <1>1, <1>3, KnownStays
<1>12. \A i \in DOMAIN more : more[i].route # None => Known(more[i].route)
  BY <1>3, <1>4, <1>8, <1>9, <1>10 DEF FleetInv, FleetTyped
<1>13. outcomes' = more
  BY <1>1 DEF more
<1>14. FleetTyped'
  BY <1>1, <1>9, <1>11, <1>12, <1>13 DEF FleetInv, FleetTyped, Composed, BatchTyped
<1>15. CallsFit'
  BY <1>1, <1>2 DEF CallsFit, Searching
<1>16. BatchFits'
  <2>1. Len(more) <= Len(batch.routes)
    <3>1. Len(batch.routes) \in Nat
      BY <1>1 DEF FleetInv, FleetTyped, BatchTyped
    <3>. QED  BY <1>3, <1>9, <3>1
  <2>2. \A i \in DOMAIN more : /\ more[i].robot = batch.routes[i].robot
                               /\ (more[i].route = None) # (more[i].failure = None)
    BY <1>3, <1>4, <1>6, <1>9, <1>10 DEF BatchFits
  <2>. QED  BY <1>1, <1>13, <2>1, <2>2 DEF BatchFits
<1>17. BatchAnswersEveryRobot'
  BY <1>1, <1>2 DEF BatchAnswersEveryRobot
<1>. QED  BY <1>1, <1>14, <1>15, <1>16, <1>17 DEF FleetInv

(* A batch is over: what it has come to is what it was to come to.         *)
LEMMA BatchEndKeeps ==
  ASSUME FleetInv, batch # None, request = None,
         UNCHANGED <<searchVars, now, batch, replanning, in_force, place>>,
         outcomes' \in Seq(Outcome),
         \A i \in DOMAIN outcomes' : outcomes'[i].route # None => Known(outcomes'[i].route),
         status' # None, BatchAnswersEveryRobot'
  PROVE  FleetInv'
<1>1. /\ planner' = planner /\ surcharge' = surcharge /\ request' = None
      /\ called_at' = called_at /\ answer' = answer /\ route_sequence' = route_sequence
      /\ now' = now /\ batch' = batch /\ replanning' = replanning
      /\ in_force' = in_force /\ place' = place
  BY DEF searchVars
<1>2. answer = None /\ replanning = None /\ now \in Int /\ now <= now
  BY DEF FleetInv, CallsFit, FleetTyped
<1>3. \A route : Known(route) => Known(route)'
  BY <1>1, <1>2, KnownStays
<1>4. FleetTyped'
  BY <1>1, <1>3 DEF FleetInv, FleetTyped, Composed, BatchTyped
<1>5. CallsFit'
  BY <1>1, <1>2 DEF CallsFit, Searching
<1>. QED  BY <1>1, <1>4, <1>5 DEF FleetInv

LEMMA GiveUpKeeps == FleetInv /\ GiveUp => FleetInv'
<1> SUFFICES ASSUME FleetInv, GiveUp PROVE FleetInv'
  OBVIOUS
<1> DEFINE n == Len(outcomes)
           routes == batch.routes
           all == [i \in DOMAIN routes |->
                     IF i \in DOMAIN outcomes THEN outcomes[i] ELSE Skipped(routes[i])]
<1>1. /\ batch # None /\ status = None /\ request = None /\ n < Len(routes) /\ OutOfTime
      /\ outcomes' = all /\ status' = "timeout" /\ batch' = batch /\ now' = now
      /\ UNCHANGED <<searchVars, now, batch, replanning, in_force, place>>
  BY DEF GiveUp, Working, controlVars
<1>2. /\ BatchFits /\ BatchTyped /\ outcomes \in Seq(Outcome) /\ now \in Int
      /\ \A i \in DOMAIN outcomes : outcomes[i].route # None => Known(outcomes[i].route)
  BY <1>1 DEF FleetInv, FleetTyped
<1>3. /\ routes \in Seq(RouteRequest) /\ n \in Nat /\ Len(routes) \in Nat
      /\ DOMAIN outcomes = 1..n /\ DOMAIN routes = 1..Len(routes)
      /\ \A i \in 1..n : outcomes[i] \in Outcome
  BY <1>2 DEF BatchTyped
<1>4. /\ \A i \in 1..n : all[i] = outcomes[i]
      /\ \A i \in (n + 1)..Len(routes) : all[i] = Skipped(routes[i])
      /\ DOMAIN all = 1..Len(routes)
      /\ all = [i \in 1..Len(routes) |-> all[i]]
  BY <1>1, <1>3
<1>5. 1..Len(routes) = 1..n \cup (n + 1)..Len(routes)
  BY <1>1, <1>3
<1>6. \A i \in (n + 1)..Len(routes) :
        /\ Skipped(routes[i]) \in Outcome
        /\ Skipped(routes[i]).robot = routes[i].robot
        /\ Skipped(routes[i]).route = None /\ Skipped(routes[i]).failure = None
  <2> SUFFICES ASSUME NEW i \in (n + 1)..Len(routes)
               PROVE  /\ Skipped(routes[i]) \in Outcome
                      /\ Skipped(routes[i]).robot = routes[i].robot
                      /\ Skipped(routes[i]).route = None /\ Skipped(routes[i]).failure = None
    OBVIOUS
  <2>1. i \in 1..Len(routes)
    BY <1>5
  <2>2. routes[i] \in RouteRequest
    BY <1>3, <2>1
  <2> HIDE DEF routes
  <2>3. routes[i].robot \in Robot \cup {None}
    BY <2>2 DEF RouteRequest
  <2>. QED  BY <2>3 DEF Skipped, Outcome
<1> HIDE DEF all, routes, n
<1>7. all \in Seq(Outcome) /\ Len(all) = Len(routes)
  <2>1. \A i \in 1..n : all[i] \in Outcome
    BY <1>3, <1>4
  <2>2. \A i \in 1..Len(routes) : all[i] \in Outcome
    BY <1>4, <1>5, <1>6, <2>1
  <2>3. all \in [1..Len(routes) -> Outcome]
    BY <1>4, <2>2
  <2>. QED  BY <1>3, <2>3
<1>8. \A i \in DOMAIN all : all[i].route # None => Known(all[i].route)
  BY <1>2, <1>3, <1>4, <1>5, <1>6
<1>9. BatchAnswersEveryRobot'
  <2> DEFINE failed == {i \in DOMAIN all : all[i].failure # None}
             routed == {i \in DOMAIN all : all[i].route # None}
  <2>1. \A i \in DOMAIN all : all[i].robot = routes[i].robot
    BY <1>2, <1>3, <1>4, <1>5, <1>6 DEF BatchFits, routes
  <2>2. routed \cup failed = 1..n /\ routed \cap failed = {}
    <3>1. \A i \in 1..n : (all[i].route = None) # (all[i].failure = None)
      BY <1>2, <1>3, <1>4 DEF BatchFits
    <3>2. \A i \in (n + 1)..Len(routes) : all[i].route = None /\ all[i].failure = None
      BY <1>4, <1>6
    <3>3. DOMAIN all = 1..n \cup (n + 1)..Len(routes)
      BY <1>4, <1>5
    <3>. QED  BY <3>1, <3>2, <3>3
  <2>3. n \in 0..Len(all) - 1
    BY <1>1, <1>3, <1>7 DEF n, routes
  <2>4. \/ batch.deadline # None /\ batch.deadline <= now
        \/ batch.timeout # None /\ batch.began + batch.timeout <= now
    <3>1. batch.deadline # None => batch.deadline \in Int
      BY <1>2 DEF BatchTyped
    <3>2. batch.timeout # None => batch.timeout \in Int /\ batch.began \in Int
      BY <1>2 DEF BatchTyped
    <3>. QED  BY <1>1, <1>2, <3>1, <3>2 DEF OutOfTime
  <2>. QED  BY <1>1, <1>7, <2>1, <2>2, <2>3, <2>4 DEF BatchAnswersEveryRobot, routes
<1>10. status' # None
  BY <1>1, CallAssumption DEF BatchStatus
<1>. QED  BY <1>1, <1>7, <1>8, <1>9, <1>10, BatchEndKeeps

LEMMA FinishKeeps == FleetInv /\ Finish => FleetInv'
<1> SUFFICES ASSUME FleetInv, Finish PROVE FleetInv'
  OBVIOUS
<1>1. /\ batch # None /\ status = None /\ request = None
      /\ Len(outcomes) = Len(batch.routes) /\ outcomes' = outcomes
      /\ status' = StatusFor(outcomes) /\ batch' = batch /\ now' = now
      /\ UNCHANGED <<searchVars, now, batch, replanning, in_force, place>>
  BY DEF Finish, Working, controlVars
<1>2. /\ BatchFits /\ outcomes \in Seq(Outcome)
      /\ \A i \in DOMAIN outcomes : outcomes[i].route # None => Known(outcomes[i].route)
  BY <1>1 DEF FleetInv, FleetTyped
<1> DEFINE failed == {i \in DOMAIN outcomes : outcomes[i].failure # None}
           routed == {i \in DOMAIN outcomes : outcomes[i].route # None}
           failures == {outcome.failure : outcome \in
                          {o \in Seqs!ToSet(outcomes) : o.route = None}}
<1>3. routed \cap failed = {} /\ routed \cup failed = DOMAIN outcomes
  BY <1>2 DEF BatchFits
<1>4. /\ \A i \in failed : outcomes[i].failure \in failures
      /\ \A f \in failures : f # None /\ \E i \in failed : outcomes[i].failure = f
  BY <1>2 DEF BatchFits, Seqs!ToSet
<1>5. StatusFor(outcomes) =
        IF failures = {} THEN "success"
        ELSE IF failures \subseteq Retryable \cup {None} THEN "no_path" ELSE "failed"
  BY DEF StatusFor
<1> HIDE DEF failures, failed
<1>6. StatusFor(outcomes) \in BatchStatus \ {"timeout"}
  BY <1>5 DEF BatchStatus
<1>7. /\ StatusFor(outcomes) = "success" <=> failed = {}
      /\ StatusFor(outcomes) = "no_path" =>
           \A i \in failed : outcomes[i].failure \in Retryable
      /\ StatusFor(outcomes) = "failed" =>
           \E i \in failed : outcomes[i].failure \notin Retryable
  <2>1. failures = {} <=> failed = {}
    BY <1>4
  <2>2. failures \subseteq Retryable \cup {None} => \A i \in failed : outcomes[i].failure \in Retryable
    BY <1>4
  <2>3. ~(failures \subseteq Retryable \cup {None}) =>
           \E i \in failed : outcomes[i].failure \notin Retryable
    BY <1>4
  <2>. QED  BY <1>5, <2>1, <2>2, <2>3
<1>8. status' # None /\ status' # "timeout"
  BY <1>1, <1>6, CallAssumption
<1>9. BatchAnswersEveryRobot'
  BY <1>1, <1>2, <1>3, <1>7, <1>8 DEF BatchAnswersEveryRobot, BatchFits, failed
<1>. QED  BY <1>1, <1>2, <1>8, <1>9, BatchEndKeeps

(* The controller adopts what was planned.                                 *)
LEMMA AdoptKeeps == FleetInv /\ Adopt => FleetInv'
<1> SUFFICES ASSUME FleetInv, Adopt PROVE FleetInv'
  OBVIOUS
<1> DEFINE planned == {outcome \in Seqs!ToSet(outcomes) : outcome.route # None}
<1>1. /\ status # None /\ batch' = None /\ outcomes' = << >> /\ status' = None
      /\ planner' = planner /\ surcharge' = surcharge /\ request' = request
      /\ called_at' = called_at /\ answer' = answer /\ route_sequence' = route_sequence
      /\ now' = now /\ replanning' = replanning
  BY DEF Adopt, searchVars
<1>2. batch # None /\ request = None /\ replanning = None /\ answer = None
  BY <1>1 DEF FleetInv, CallsFit
<1>3. /\ now \in Int /\ now <= now /\ outcomes \in Seq(Outcome) /\ Composed
      /\ in_force \in [Robot -> Route \cup {None}] /\ place \in [Robot -> Nat \cup {None}]
  BY DEF FleetInv, FleetTyped
<1>4. PICK chosen \in [{outcome.robot : outcome \in planned} -> planned] :
        /\ in_force' = [robot \in Robot |->
             IF robot \in DOMAIN chosen THEN chosen[robot].route ELSE in_force[robot]]
        /\ place' = [robot \in Robot |->
             IF robot \in DOMAIN chosen THEN chosen[robot].route.nodes[1] ELSE place[robot]]
  BY DEF Adopt
<1>5. ASSUME NEW outcome \in planned
      PROVE  /\ Known(outcome.route) /\ outcome.route \in Route
             /\ outcome.route.nodes[1] \in Nat
  <2>1. PICK i \in DOMAIN outcomes : outcomes[i] = outcome
    BY DEF Seqs!ToSet
  <2>2. Known(outcome.route)
    BY <2>1 DEF FleetInv, FleetTyped
  <2>3. /\ outcome.route \in Route /\ outcome.route.nodes \in Seq(NodesOf(Map))
        /\ Len(outcome.route.nodes) = Len(outcome.route.edges) + 1
        /\ outcome.route.edges \in Seq(EdgesOf(Map))
    BY <2>2 DEF Known, OnMap
  <2>4. 1 \in 1..Len(outcome.route.nodes)
    BY <2>3
  <2>5. outcome.route.nodes[1] \in NodesOf(Map) /\ NodesOf(Map) \subseteq Nat
    BY <1>3, <2>3, <2>4, MapIsMap
  <2>. QED  BY <2>2, <2>3, <2>5
<1>6. \A robot \in DOMAIN chosen : chosen[robot] \in planned
  OBVIOUS
<1> HIDE DEF planned
<1>7. /\ in_force' \in [Robot -> Route \cup {None}] /\ place' \in [Robot -> Nat \cup {None}]
      /\ \A robot \in Robot : in_force'[robot] # None => Known(in_force'[robot])
  BY <1>3, <1>4, <1>5, <1>6 DEF FleetInv, FleetTyped
<1>8. \A route : Known(route) => Known(route)'
  BY <1>1, <1>3, KnownStays
<1>9. << >> \in Seq(Outcome) /\ DOMAIN << >> = {}
  OBVIOUS
<1>10. FleetTyped'
  BY <1>1, <1>7, <1>8, <1>9 DEF FleetInv, FleetTyped, Composed
<1>11. CallsFit'
  BY <1>1, <1>2 DEF CallsFit, Searching
<1>12. BatchAnswersEveryRobot'
  BY <1>1 DEF BatchAnswersEveryRobot
<1>. QED  BY <1>1, <1>10, <1>11, <1>12 DEF FleetInv

(* A replan is decided on.                                                 *)
LEMMA DecideKeeps == FleetInv /\ Decide => FleetInv'
<1> SUFFICES ASSUME FleetInv, Decide PROVE FleetInv'
  OBVIOUS
<1>1. /\ replanning # None /\ answer # None
      /\ request' = None /\ answer' = None /\ replanning' = None
      /\ planner' = planner /\ surcharge' = surcharge /\ called_at' = called_at
      /\ route_sequence' = route_sequence
      /\ now' = now /\ batch' = batch /\ status' = status /\ outcomes' = outcomes
      /\ place' = place
  BY DEF Decide, Return
<1>2. /\ batch = None /\ request # None /\ Answers(answer, request)
      /\ outcomes = << >> /\ status = None /\ in_force[replanning] # None
  BY <1>1 DEF FleetInv, CallsFit
<1>3. /\ now \in Int /\ now <= now /\ called_at <= now /\ replanning \in Robot
      /\ in_force \in [Robot -> Route \cup {None}]
      /\ \A robot \in Robot : in_force[robot] # None => Known(in_force[robot])
  BY <1>1 DEF FleetInv, FleetTyped
<1>4. \E route : /\ in_force' = [in_force EXCEPT ![replanning] = route]
                 /\ \/ answer.failure = None /\ route = answer.route
                    \/ route = in_force[replanning]
  BY DEF Decide
<1>5. PICK new : /\ in_force' = [in_force EXCEPT ![replanning] = new]
                 /\ \/ answer.failure = None /\ new = answer.route
                    \/ new = in_force[replanning]
  BY <1>4
<1>6. new \in Route /\ Known(new)
  <2>1. CASE answer.failure = None /\ new = answer.route
    BY <1>2, <1>3, <2>1 DEF Answers, Known, OnMap
  <2>2. CASE new = in_force[replanning]
    BY <1>2, <1>3, <2>2
  <2>. QED  BY <1>5, <2>1, <2>2
<1>7. /\ in_force' \in [Robot -> Route \cup {None}]
      /\ \A robot \in Robot : in_force'[robot] # None => Known(in_force'[robot])
  BY <1>3, <1>5, <1>6
<1>8. \A route : Known(route) => Known(route)'
  BY <1>1, <1>3, KnownStays
<1>9. FleetTyped'
  BY <1>1, <1>2, <1>7, <1>8 DEF FleetInv, FleetTyped, Composed
<1>10. CallsFit'
  BY <1>1, <1>2 DEF CallsFit, Searching
<1>11. BatchAnswersEveryRobot'
  BY <1>1, <1>2 DEF BatchAnswersEveryRobot
<1>. QED  BY <1>1, <1>2, <1>9, <1>10, <1>11 DEF FleetInv

LEMMA FleetInvHolds == FleetSpec => []FleetInv
<1>1. FleetInit => FleetInv
  BY FleetStarts
<1>2. FleetInv /\ [FleetNext]_fleetVars => FleetInv'
  <2> SUFFICES ASSUME FleetInv, [FleetNext]_fleetVars PROVE FleetInv'
    OBVIOUS
  <2>1. CASE Plan
    BY <2>1, PlanNextKeeps, SearchOnKeeps, RecordKeeps, GiveUpKeeps, FinishKeeps,
       DecideKeeps DEF Plan
  <2>2. ASSUME NEW b \in Batches, Submit(b) PROVE FleetInv'
    BY <2>2, SubmitKeeps
  <2>3. CASE Adopt
    BY <2>3, AdoptKeeps
  <2>4. ASSUME NEW robot \in Robot, Drive(robot) PROVE FleetInv'
    BY <2>4, DriveKeeps
  <2>5. ASSUME NEW robot \in Robot, NEW constraints \in Closures,
               Replan(robot, constraints)
        PROVE  FleetInv'
    BY <2>5, ReplanKeeps
  <2>6. CASE TrafficChanges
    BY <2>6, TrafficKeeps
  <2>7. CASE Tick
    BY <2>7, TickKeeps
  <2>8. CASE UNCHANGED fleetVars
    BY <2>8, StutteringKeeps
  <2>. QED  BY <2>1, <2>2, <2>3, <2>4, <2>5, <2>6, <2>7, <2>8 DEF FleetNext
<1>. QED  BY <1>1, <1>2, PTL DEF FleetSpec

(* Every route the planner answers with can be driven under the request's  *)
(* constraints, leads from its start to its goal without a gap, takes its  *)
(* time edge by edge and costs what estimate_route_cost says (plan_route,  *)
(* reconstruct, assemble), on any map and under any traffic.               *)
THEOREM RoutesCanBeDriven == FleetSpec => []RoutesAreDrivable
<1>1. FleetInv => RoutesAreDrivable
  BY DrivableIsDrives DEF FleetInv, CallsFit, Answers
<1>. QED  BY <1>1, FleetInvHolds, PTL

(* A batch answers every robot it was asked for, in order, once it is      *)
(* over, and its status sums the outcomes up (SequentialFleetPlanner).     *)
THEOREM BatchesAnswerEveryRobot == FleetSpec => []BatchAnswersEveryRobot
<1>1. FleetInv => BatchAnswersEveryRobot
  BY DEF FleetInv
<1>. QED  BY <1>1, FleetInvHolds, PTL


-----------------------------------------------------------------------------
(* Less than a part of it is less.                                         *)
LEMMA LessThanAPart ==
  ASSUME NEW c \in Int, NEW d \in Nat, NEW h \in Nat, NEW m \in 0..h - 1,
         c * h < d * (h - m)
  PROVE  c < d
<1> SUFFICES ASSUME c >= d PROVE FALSE
  OBVIOUS
<1> DEFINE e == c - d
<1>1. e \in Nat /\ c = d + e /\ m \in Nat /\ h - m \in Nat
  OBVIOUS
<1> HIDE DEF e
<1>2. c * h = d * h + e * h
  BY <1>1
<1>3. d * (h - m) = d * h - d * m
  BY <1>1
<1>4. d * h \in Nat /\ e * h \in Nat /\ d * m \in Nat
  BY <1>1
<1>5. c * h >= d * (h - m)
  BY <1>2, <1>3, <1>4
<1>6. c * h \in Nat /\ d * (h - m) \in Nat
  BY <1>1
<1>. QED  BY <1>5, <1>6

(* A route over the map costs a number.                                    *)
LEMMA RoutesCostNumbers ==
  ASSUME Composed, NEW route, OnMap(route)
  PROVE  CostOf(route) \in Int
<1> DEFINE n == Len(route.edges)
<1>1. route.edges \in Seq(EdgesOf(Map)) /\ n \in 0..n
  BY DEF OnMap
<1>2. PICK sums \in [0..n -> Int] :
        RouteCost(Map, route.edges, request.constraints, surcharge) = sums[n]
  BY <1>1, CostEdgeByEdge
<1>. QED  BY <1>1, <1>2 DEF CostOf

LEMMA DecisionIsJustified ==
  ASSUME FleetInv, Decide, answer.failure = None
  PROVE  LET old == in_force[replanning]
             new == in_force'[replanning]
         IN  /\ RouteIsValid(Map, new, request.constraints)
             /\ new # old /\ RouteIsValid(Map, old, request.constraints) =>
                  /\ old.created_at + MinimumHold <= now
                  /\ CostOf(old) >= 0 => CostOf(new) < CostOf(old)
<1> DEFINE old == in_force[replanning]
           verdict == DecideReplan(old, answer)
           adopted == verdict \in {"adopted_current_invalid", "adopted_improved"}
           valid == RouteIsValid(Map, old, request.constraints)
           better == answer.cost * Hundred < CostOf(old) * (Hundred - MinimumImprovement)
<1>1. /\ replanning # None /\ answer # None
      /\ in_force' = [in_force EXCEPT ![replanning] =
                        IF adopted THEN answer.route ELSE old]
  BY DEF Decide, Return
<1>2. /\ Answers(answer, request) /\ old # None /\ request # None
      /\ request.current_time <= now
  BY <1>1 DEF FleetInv, CallsFit
<1>3. /\ replanning \in Robot /\ in_force \in [Robot -> Route \cup {None}]
      /\ Known(old) /\ now \in Int /\ Composed /\ request \in RouteRequest
  BY <1>1, <1>2 DEF FleetInv, FleetTyped
<1>4. in_force'[replanning] = IF adopted THEN answer.route ELSE old
  BY <1>1, <1>3
<1>5. /\ Drives(answer, request) /\ OnMap(answer.route)
      /\ RouteIsValid(Map, answer.route, request.constraints)
      /\ answer.cost = CostOf(answer.route)
  BY <1>2 DEF Answers, Drives, CostOf
<1>6. verdict = IF ~valid THEN "adopted_current_invalid"
                ELSE IF Age(old) < MinimumHold THEN "kept_within_hold_time"
                ELSE IF better THEN "adopted_improved"
                ELSE "kept_insufficient_improvement"
  BY DEF DecideReplan
<1>7. ~adopted => valid
  BY <1>6
<1>8. valid /\ adopted => ~(Age(old) < MinimumHold) /\ better
  BY <1>6
<1>9. ~(Age(old) < MinimumHold) => old.created_at + MinimumHold <= now
  <2>1. /\ old.created_at \in Int /\ request.current_time \in Int /\ MinimumHold \in Nat
        /\ old.created_at <= now
    BY <1>3, StabilityAssumption DEF Known, OnMap, Route, RouteRequest
  <2> HIDE DEF old
  <2>. QED  BY <1>2, <1>3, <2>1 DEF Age
<1>10. better /\ CostOf(old) >= 0 => CostOf(answer.route) < CostOf(old)
  <2>1. CostOf(answer.route) \in Int /\ CostOf(old) \in Int
    BY <1>3, <1>5, RoutesCostNumbers DEF Known
  <2>2. Hundred \in Nat /\ MinimumImprovement \in 0..Hundred - 1
    BY StabilityAssumption
  <2>3. CostOf(old) >= 0 => CostOf(old) \in Nat
    BY <2>1
  <2>. QED  BY <1>5, <2>1, <2>2, <2>3, LessThanAPart
<1> HIDE DEF adopted, valid, better, verdict
<1>. QED  BY <1>4, <1>5, <1>7, <1>8, <1>9, <1>10 DEF valid

(* A replan that finds an alternative leaves the robot with a route it can *)
(* drive, and takes one that could still be driven from it only after the  *)
(* hold time and for one that costs less, unless the map's negative times  *)
(* made it cost less than nothing (replan_route, decide_replan).           *)
THEOREM ReplansAreJustified == FleetSpec => RouteChangesAreJustified
<1> DEFINE Justified ==
             replanning # None /\ replanning' = None /\ answer.failure = None =>
               LET old == in_force[replanning]
                   new == in_force'[replanning]
               IN  /\ RouteIsValid(Map, new, request.constraints)
                   /\ new # old /\ RouteIsValid(Map, old, request.constraints) =>
                        /\ old.created_at + MinimumHold <= now
                        /\ CostOf(old) >= 0 => CostOf(new) < CostOf(old)
<1>1. ASSUME FleetInv, [FleetNext]_fleetVars  PROVE [Justified]_fleetVars
  <2>1. ASSUME replanning # None, replanning' = None PROVE Decide \/ UNCHANGED fleetVars
    <3>1. /\ ~(PlanNext \/ SearchOn \/ RecordOutcome \/ GiveUp \/ Finish)
          /\ ~Adopt /\ ~TrafficChanges /\ ~Tick
          /\ \A b \in Batches : ~Submit(b)
          /\ \A robot \in Robot :
               ~Drive(robot) /\ \A constraints \in Closures : ~Replan(robot, constraints)
      BY <2>1 DEF PlanNext, SearchOn, RecordOutcome, GiveUp, Finish, Adopt,
                  TrafficChanges, Tick, Submit, Drive, Replan, Idle
    <3>. QED  BY <1>1, <3>1 DEF FleetNext, Plan
  <2>2. CASE UNCHANGED fleetVars
    BY <2>2
  <2>3. CASE Decide
    BY <1>1, <2>3, DecisionIsJustified
  <2>. QED  BY <2>1, <2>2, <2>3
<1>2. FleetInv /\ [FleetNext]_fleetVars => [Justified]_fleetVars
  BY <1>1
<1>3. FleetSpec => [][Justified]_fleetVars
  BY <1>2, FleetInvHolds, PTL DEF FleetSpec
<1>. QED  BY <1>3 DEF RouteChangesAreJustified

-----------------------------------------------------------------------------
(* What the edges of a node leave of a frontier, in whatever order: each   *)
(* far end has the best way among what it had and the edges looked at.     *)

(* An edge that may be taken to a node, whatever the frontier.             *)
LeadsTo(current, done, id, v) ==
  /\ AllowsEdge(Map, request.constraints, id)
  /\ v = Opposite(Map.edge[id], current.node) /\ v \notin done
  /\ AllowsNode(request.constraints, v)

CostOver(current, id) == current.g + StepCost(id)

(* The way to v is the one it was.                                         *)
Kept(base, front, v) ==
  /\ v \in DOMAIN base.best_cost /\ front.best_cost[v] = base.best_cost[v]
  /\ v # request.start => front.came_from[v] = base.came_from[v]

(* The way to v is over the edge, which is better than what there was.     *)
Taken(base, front, current, id, v) ==
  /\ front.best_cost[v] = CostOver(current, id)
  /\ front.came_from[v] = [node |-> current.node, edge |-> id]
  /\ Improves(base, v, CostOver(current, id), id)

BestOver(base, front, current, done, edges) ==
  /\ \A v \in DOMAIN front.best_cost :
       \/ Kept(base, front, v)
       \/ \E id \in edges : LeadsTo(current, done, id, v) /\ Taken(base, front, current, id, v)
  /\ \A id \in edges, v \in NodesOf(Map) :
       LeadsTo(current, done, id, v) => ~Improves(front, v, CostOver(current, id), id)
  /\ \A c \in front.open :
       \/ c \in base.open
       \/ \E id \in edges : /\ LeadsTo(current, done, id, c.node)
                            /\ c = Candidate(c.node, CostOver(current, id), request.goal)

(* What a front knows of a node that is not where the search started.      *)
LEMMA WayKnown ==
  ASSUME NEW front \in Front, NEW done, StartsRight(front, done), Composed,
         NEW v \in DOMAIN front.best_cost
  PROVE  /\ front.best_cost[v] \in Int
         /\ v # request.start =>
              /\ front.came_from[v].edge \in Nat /\ front.came_from[v] \in Step
<1>1. /\ front.best_cost \in [DOMAIN front.best_cost -> Int]
      /\ front.came_from \in [DOMAIN front.came_from -> Step]
  BY FrontParts
<1>2. DOMAIN front.came_from = DOMAIN front.best_cost \ {request.start}
  BY DEF StartsRight
<1>3. EdgesOf(Map) \subseteq Nat
  BY MapIsMap
<1>. QED  BY <1>1, <1>2, <1>3 DEF Step

LEMMA BestOverOneMore ==
  ASSUME NEW current, NEW base, NEW front, NEW done,
         Expands(current, base, done), Expands(current, front, done),
         NEW edges \in SUBSET EdgesOf(Map), NEW id \in EdgesOf(Map),
         IsTraversableFrom(Map.edge[id], current.node),
         OnlyBetter(base, front, done), BestOver(base, front, current, done, edges)
  PROVE  BestOver(base, Relaxed(front, current, id), current, done, edges \cup {id})
<1> DEFINE next == Opposite(Map.edge[id], current.node)
           cost == CostOver(current, id)
           way == [node |-> current.node, edge |-> id]
           after == Relaxed(front, current, id)
           takes == /\ AllowsEdge(Map, request.constraints, id)
                    /\ next \notin Seqs!ToSet(settled) /\ next # current.node
                    /\ AllowsNode(request.constraints, next)
                    /\ Improves(front, next, cost, id)
<1>1. /\ done = Seqs!ToSet(settled) \cup {current.node} /\ request.start \in done
      /\ Composed /\ base \in Front /\ front \in Front /\ StartsRight(base, done)
      /\ StartsRight(front, done) /\ current.g \in Int /\ request.goal \in NodesOf(Map)
  BY DEF Expands, Expandable, FrontInv
<1>2. EdgesOf(Map) \subseteq Nat /\ \A e \in EdgesOf(Map) : CostOver(current, e) \in Int
  <2>1. \A e \in EdgesOf(Map) : StepCost(e) \in Int
    BY <1>1, CostsAreNumbers DEF StepCost
  <2>. QED  BY <1>1, <2>1, MapIsMap DEF CostOver
<1>3. /\ ~takes => after = front
      /\ takes => /\ after.best_cost = With(front.best_cost, next, cost)
                  /\ after.came_from = With(front.came_from, next, way)
                  /\ after.open = front.open \cup {Candidate(next, cost, request.goal)}
  BY RelaxedMeans DEF CostOver
<1>4. takes <=> LeadsTo(current, done, id, next) /\ Improves(front, next, cost, id)
  BY <1>1 DEF LeadsTo
<1>5. next \in NodesOf(Map)
  BY <1>1, FarEnd
<1>6. \A v : LeadsTo(current, done, id, v) => v = next
  BY DEF LeadsTo
<1> HIDE DEF next, cost, after, takes, way
<1>7. CASE ~takes
  <2>1. after = front
    BY <1>3, <1>7
  <2>2. \A v \in NodesOf(Map) : LeadsTo(current, done, id, v) => ~Improves(front, v, cost, id)
    BY <1>4, <1>6, <1>7
  <2>. QED  BY <2>1, <2>2 DEF BestOver, after, cost
<1>8. CASE takes
  <2>1. /\ LeadsTo(current, done, id, next) /\ Improves(front, next, cost, id)
        /\ next \notin done /\ next # request.start
    BY <1>1, <1>4, <1>8 DEF LeadsTo
  <2>2. /\ DOMAIN after.best_cost = DOMAIN front.best_cost \cup {next}
        /\ after.best_cost[next] = cost
        /\ \A n \in DOMAIN front.best_cost : n # next => after.best_cost[n] = front.best_cost[n]
    BY <1>3, <1>8 DEF With
  <2>3. /\ DOMAIN after.came_from = DOMAIN front.came_from \cup {next}
        /\ after.came_from[next] = way
        /\ \A n \in DOMAIN front.came_from : n # next => after.came_from[n] = front.came_from[n]
    BY <1>3, <1>8 DEF With
  <2>4. after.open = front.open \cup {Candidate(next, cost, request.goal)}
    BY <1>3, <1>8
  <2>5. DOMAIN front.came_from = DOMAIN front.best_cost \ {request.start}
    BY <1>1 DEF StartsRight
  <2>6. cost \in Int /\ id \in Nat
    BY <1>2 DEF cost
  <2>7. Improves(base, next, cost, id)
    <3> SUFFICES ASSUME next \in DOMAIN base.best_cost
                 PROVE  \/ cost < base.best_cost[next]
                        \/ cost = base.best_cost[next] /\ id < base.came_from[next].edge
      BY DEF Improves
    <3>1. base.best_cost[next] \in Int /\ base.came_from[next].edge \in Nat
      BY <1>1, <2>1, WayKnown
    <3>2. CASE next \notin DOMAIN front.best_cost
      BY <3>2 DEF OnlyBetter
    <3>3. CASE next \in DOMAIN front.best_cost
      <4>1. /\ front.best_cost[next] \in Int /\ front.came_from[next].edge \in Nat
            /\ \/ cost < front.best_cost[next]
               \/ cost = front.best_cost[next] /\ id < front.came_from[next].edge
        BY <1>1, <2>1, <3>3, WayKnown DEF Improves
      <4>2. CASE Kept(base, front, next)
        BY <2>1, <4>1, <4>2 DEF Kept
      <4>3. ASSUME NEW e \in edges, Taken(base, front, current, e, next)
            PROVE  \/ cost < base.best_cost[next]
                   \/ cost = base.best_cost[next] /\ id < base.came_from[next].edge
        <5>1. /\ front.best_cost[next] = CostOver(current, e) /\ front.came_from[next].edge = e
              /\ \/ CostOver(current, e) < base.best_cost[next]
                 \/ /\ CostOver(current, e) = base.best_cost[next]
                    /\ e < base.came_from[next].edge
          BY <4>3 DEF Taken, Improves
        <5>. QED  BY <2>6, <3>1, <4>1, <5>1
      <4>. QED  BY <3>3, <4>2, <4>3 DEF BestOver
    <3>. QED  BY <3>2, <3>3
  <2>8. Taken(base, after, current, id, next)
    BY <2>2, <2>3, <2>7 DEF Taken, cost, way
  <2>9. ASSUME NEW v \in DOMAIN after.best_cost
        PROVE  \/ Kept(base, after, v)
               \/ \E e \in edges \cup {id} : LeadsTo(current, done, e, v)
                                                /\ Taken(base, after, current, e, v)
    <3>1. CASE v = next
      BY <2>1, <2>8, <3>1
    <3>2. CASE v # next
      <4>1. v \in DOMAIN front.best_cost /\ after.best_cost[v] = front.best_cost[v]
        BY <2>2, <3>2
      <4>2. CASE Kept(base, front, v)
        <5>1. v # request.start => after.came_from[v] = front.came_from[v]
          BY <2>3, <2>5, <3>2, <4>1
        <5>. QED  BY <4>1, <4>2, <5>1 DEF Kept
      <4>3. ASSUME NEW e \in edges, LeadsTo(current, done, e, v),
                   Taken(base, front, current, e, v)
            PROVE  Taken(base, after, current, e, v)
        <5>1. v # request.start
          BY <1>1, <4>3 DEF LeadsTo
        <5>2. after.came_from[v] = front.came_from[v]
          BY <2>3, <2>5, <3>2, <4>1, <5>1
        <5>. QED  BY <4>1, <4>3, <5>2 DEF Taken
      <4>. QED  BY <4>1, <4>2, <4>3 DEF BestOver
    <3>. QED  BY <3>1, <3>2
  <2>10. ASSUME NEW e \in edges \cup {id}, NEW v \in NodesOf(Map),
                LeadsTo(current, done, e, v)
         PROVE  ~Improves(after, v, CostOver(current, e), e)
    <3>0. e \in EdgesOf(Map) /\ e \in Nat /\ CostOver(current, e) \in Int
      BY <1>2
    <3>1. CASE v # next
      <4>1. e \in edges /\ v # request.start
        BY <1>1, <1>6, <2>10, <3>1 DEF LeadsTo
      <4>2. ~Improves(front, v, CostOver(current, e), e)
        BY <2>10, <4>1 DEF BestOver
      <4>3. v \in DOMAIN front.best_cost
        BY <4>2 DEF Improves
      <4>4. /\ after.best_cost[v] = front.best_cost[v] /\ v \in DOMAIN after.best_cost
            /\ after.came_from[v] = front.came_from[v]
        BY <2>2, <2>3, <2>5, <3>1, <4>1, <4>3
      <4>. QED  BY <4>2, <4>3, <4>4 DEF Improves
    <3>2. CASE v = next /\ e = id
      <4>1. after.came_from[next].edge = id
        BY <2>3 DEF way
      <4>. QED  BY <2>2, <2>6, <3>2, <4>1 DEF Improves, cost
    <3>3. CASE v = next /\ e # id
      <4>1. e \in edges
        BY <3>3
      <4>2. ~Improves(front, next, CostOver(current, e), e)
        BY <2>10, <3>3, <4>1 DEF BestOver
      <4>3. /\ next \in DOMAIN front.best_cost
            /\ ~(\/ CostOver(current, e) < front.best_cost[next]
                 \/ /\ CostOver(current, e) = front.best_cost[next]
                    /\ e < front.came_from[next].edge)
        BY <4>2 DEF Improves
      <4>4. /\ \/ cost < front.best_cost[next]
               \/ cost = front.best_cost[next] /\ id < front.came_from[next].edge
            /\ front.best_cost[next] \in Int /\ front.came_from[next].edge \in Nat
        BY <1>1, <2>1, <4>3, WayKnown DEF Improves
      <4>5. after.came_from[next].edge = id
        BY <2>3 DEF way
      <4>6. ~(\/ CostOver(current, e) < cost \/ (CostOver(current, e) = cost /\ e < id))
        BY <2>6, <3>0, <4>3, <4>4
      <4>. QED  BY <2>2, <3>3, <4>5, <4>6 DEF Improves
    <3>. QED  BY <3>1, <3>2, <3>3
  <2>11. ASSUME NEW c \in after.open
         PROVE  \/ c \in base.open
                \/ \E e \in edges \cup {id} :
                     /\ LeadsTo(current, done, e, c.node)
                     /\ c = Candidate(c.node, CostOver(current, e), request.goal)
    <3>1. CASE c = Candidate(next, cost, request.goal)
      <4>1. c.node = next
        BY <3>1 DEF Candidate
      <4>. QED  BY <2>1, <3>1, <4>1 DEF cost
    <3>2. CASE c \in front.open
      BY <3>2 DEF BestOver
    <3>. QED  BY <2>4, <3>1, <3>2
  <2>. QED  BY <2>9, <2>10, <2>11 DEF BestOver, after
<1>. QED  BY <1>7, <1>8

(* It is the best of all of them in the end.                               *)
LEMMA ExpandedIsBest ==
  ASSUME NEW current, NEW base, NEW done, Expands(current, base, done),
         NEW order \in Seq(EdgesOf(Map)),
         \A k \in 1..Len(order) : IsTraversableFrom(Map.edge[order[k]], current.node)
  PROVE  \E front :
           /\ Expanded(base, current, order) = {front}
           /\ Expands(current, front, done) /\ OnlyBetter(base, front, done)
           /\ BestOver(base, front, current, done, Seqs!ToSet(order))
<1> DEFINE n == Len(order)
           Upto(k) == {order[i] : i \in 1..k}
<1>1. n \in Nat /\ DOMAIN order = 1..n /\ \A k \in 1..n : order[k] \in EdgesOf(Map)
  OBVIOUS
<1>2. Expandable(current) /\ base \in Front
  BY DEF Expands
<1>3. PICK fronts : Expansion(fronts, base, current, order)
  BY <1>2, ExpandedEdgeByEdge
<1>4. \A k \in 0..n : Expands(current, fronts[k], done) /\ OnlyBetter(base, fronts[k], done)
  BY <1>3, ExpansionKeeps
<1> DEFINE P == {k \in 0..n : BestOver(base, fronts[k], current, done, Upto(k))}
<1>5. 0 \in P
  <2>1. fronts[0] = base /\ Upto(0) = {} /\ 0 \in 0..n
    BY <1>1, <1>3 DEF Expansion
  <2>2. \A v \in DOMAIN base.best_cost : Kept(base, base, v)
    BY DEF Kept
  <2> HIDE DEF Upto
  <2>3. BestOver(base, base, current, done, {})
    BY <2>2 DEF BestOver
  <2>. QED  BY <2>1, <2>3
<1>6. ASSUME NEW k \in 1..n, k - 1 \in P  PROVE k \in P
  <2>1. k \in 0..n /\ k - 1 \in 0..n
    BY <1>1
  <2>2. Upto(k) = Upto(k - 1) \cup {order[k]} /\ Upto(k - 1) \in SUBSET EdgesOf(Map)
    <3>1. 1..k = 1..(k - 1) \cup {k} /\ \A i \in 1..(k - 1) : i \in 1..n
      BY <1>1
    <3>. QED  BY <1>1, <3>1
  <2>3. fronts[k] = Relaxed(fronts[k - 1], current, order[k])
    BY <1>3 DEF Expansion
  <2>4. BestOver(base, fronts[k - 1], current, done, Upto(k - 1))
    BY <1>6
  <2> HIDE DEF Upto
  <2>5. BestOver(base, Relaxed(fronts[k - 1], current, order[k]), current, done,
                 Upto(k - 1) \cup {order[k]})
    BY <1>1, <1>4, <2>1, <2>2, <2>4, BestOverOneMore
  <2>. QED  BY <2>1, <2>2, <2>3, <2>5
<1>7. n \in P
  <2> HIDE DEF P
  <2>1. 0..n \subseteq P
    BY <1>1, <1>5, <1>6, InductionUpTo
  <2>. QED  BY <1>1, <2>1
<1>8. Upto(n) = Seqs!ToSet(order)
  BY <1>1 DEF Seqs!ToSet
<1>9. n \in 0..n /\ Expanded(base, current, order) = {fronts[n]}
  BY <1>1, <1>3 DEF Expansion
<1> HIDE DEF Upto
<1>. QED  BY <1>4, <1>7, <1>8, <1>9

(* There is one best, so two orders that leave a best leave the same.      *)
LEMMA BestIsOne ==
  ASSUME NEW current, NEW base, NEW done, Expands(current, base, done),
         NEW edges \in SUBSET EdgesOf(Map),
         NEW f, NEW g, Expands(current, f, done), Expands(current, g, done),
         OnlyBetter(base, f, done), OnlyBetter(base, g, done),
         BestOver(base, f, current, done, edges), BestOver(base, g, current, done, edges)
  PROVE  f.best_cost = g.best_cost /\ f.came_from = g.came_from
<1>1. /\ request.start \in done /\ Composed /\ base \in Front /\ f \in Front /\ g \in Front
      /\ StartsRight(base, done) /\ StartsRight(f, done) /\ StartsRight(g, done)
  BY DEF Expands, Expandable, FrontInv
<1>2. /\ f.best_cost \in [DOMAIN f.best_cost -> Int] /\ g.best_cost \in [DOMAIN g.best_cost -> Int]
      /\ f.came_from \in [DOMAIN f.came_from -> Step]
      /\ g.came_from \in [DOMAIN g.came_from -> Step]
      /\ DOMAIN f.best_cost \subseteq NodesOf(Map) /\ DOMAIN g.best_cost \subseteq NodesOf(Map)
      /\ DOMAIN f.came_from = DOMAIN f.best_cost \ {request.start}
      /\ DOMAIN g.came_from = DOMAIN g.best_cost \ {request.start}
  BY <1>1, FrontParts DEF StartsRight
<1>3. EdgesOf(Map) \subseteq Nat /\ \A e \in EdgesOf(Map) : CostOver(current, e) \in Int
  <2>1. \A e \in EdgesOf(Map) : StepCost(e) \in Int
    BY <1>1, CostsAreNumbers DEF StepCost
  <2>2. current.g \in Int
    BY DEF Expands, Expandable
  <2>. QED  BY <1>1, <2>1, <2>2, MapIsMap DEF CostOver
<1>4. ASSUME NEW a, NEW b, OnlyBetter(base, a, done), OnlyBetter(base, b, done),
             Expands(current, a, done),
             BestOver(base, a, current, done, edges), BestOver(base, b, current, done, edges)
      PROVE  DOMAIN a.best_cost \subseteq DOMAIN b.best_cost
  <2> SUFFICES ASSUME NEW v \in DOMAIN a.best_cost PROVE v \in DOMAIN b.best_cost
    OBVIOUS
  <2>1. v \in NodesOf(Map)
    BY <1>4, FrontParts DEF Expands
  <2>2. CASE Kept(base, a, v)
    BY <1>4, <2>2 DEF Kept, OnlyBetter
  <2>3. ASSUME NEW id \in edges, LeadsTo(current, done, id, v) PROVE v \in DOMAIN b.best_cost
    <3>1. ~Improves(b, v, CostOver(current, id), id)
      BY <1>4, <2>1, <2>3 DEF BestOver
    <3>. QED  BY <3>1 DEF Improves
  <2>. QED  BY <1>4, <2>2, <2>3 DEF BestOver
<1>5. DOMAIN f.best_cost = DOMAIN g.best_cost
  BY <1>4
<1>6. ASSUME NEW a, NEW b, NEW v, Expands(current, b, done),
             Kept(base, a, v), NEW id \in edges, LeadsTo(current, done, id, v),
             Taken(base, b, current, id, v), v \in NodesOf(Map),
             BestOver(base, a, current, done, edges)
      PROVE  FALSE
  <2>1. v # request.start
    BY <1>1, <1>6 DEF LeadsTo
  <2>2. ~Improves(a, v, CostOver(current, id), id) /\ Improves(base, v, CostOver(current, id), id)
    BY <1>6 DEF BestOver, Taken
  <2>. QED  BY <1>6, <2>1, <2>2 DEF Kept, Improves
<1>7. ASSUME NEW v \in DOMAIN f.best_cost
      PROVE  /\ f.best_cost[v] = g.best_cost[v]
             /\ v # request.start => f.came_from[v] = g.came_from[v]
  <2>1. v \in NodesOf(Map) /\ v \in DOMAIN g.best_cost
    BY <1>2, <1>5
  <2>2. CASE Kept(base, f, v) /\ Kept(base, g, v)
    BY <2>2 DEF Kept
  <2>3. ASSUME NEW i \in edges, LeadsTo(current, done, i, v), Taken(base, f, current, i, v),
               NEW j \in edges, LeadsTo(current, done, j, v), Taken(base, g, current, j, v)
        PROVE  f.best_cost[v] = g.best_cost[v] /\ f.came_from[v] = g.came_from[v]
    <3>1. ~Improves(f, v, CostOver(current, j), j) /\ ~Improves(g, v, CostOver(current, i), i)
      BY <2>1, <2>3 DEF BestOver
    <3>2. /\ f.best_cost[v] = CostOver(current, i) /\ g.best_cost[v] = CostOver(current, j)
          /\ f.came_from[v] = [node |-> current.node, edge |-> i]
          /\ g.came_from[v] = [node |-> current.node, edge |-> j]
      BY <2>3 DEF Taken
    <3>3. f.came_from[v].edge = i /\ g.came_from[v].edge = j
      BY <3>2
    <3>4. /\ ~(CostOver(current, j) < CostOver(current, i))
          /\ ~(CostOver(current, i) < CostOver(current, j))
          /\ CostOver(current, j) = CostOver(current, i) => ~(j < i) /\ ~(i < j)
      BY <2>1, <3>1, <3>2, <3>3 DEF Improves
    <3>5. /\ i \in Nat /\ j \in Nat /\ CostOver(current, i) \in Int /\ CostOver(current, j) \in Int
      BY <1>3
    <3>6. i = j
      BY <3>4, <3>5
    <3>. QED  BY <3>2, <3>6
  <2>4. ASSUME NEW i \in edges, LeadsTo(current, done, i, v), Taken(base, f, current, i, v),
               Kept(base, g, v)
        PROVE  FALSE
    BY <1>6, <2>1, <2>4
  <2>5. ASSUME NEW j \in edges, LeadsTo(current, done, j, v), Taken(base, g, current, j, v),
               Kept(base, f, v)
        PROVE  FALSE
    BY <1>6, <2>1, <2>5
  <2>. QED  BY <2>1, <2>2, <2>3, <2>4, <2>5 DEF BestOver
<1>. QED  BY <1>2, <1>5, <1>7

(* The entries that decide are those at the best costs.                    *)
LEMMA BestDecides ==
  ASSUME NEW current, NEW base, NEW done, Expands(current, base, done),
         NEW edges, NEW f, NEW g, Expands(current, f, done), Expands(current, g, done),
         OnlyBetter(base, f, done), OnlyBetter(base, g, done),
         BestOver(base, f, current, done, edges), BestOver(base, g, current, done, edges),
         f.best_cost = g.best_cost
  PROVE  {c \in f.open : c.g = f.best_cost[c.node]} \subseteq g.open
<1> SUFFICES ASSUME NEW c \in f.open, c.g = f.best_cost[c.node] PROVE c \in g.open
  OBVIOUS
<1>1. /\ EntriesFit(f) /\ NobodyForgotten(g, done)
  BY DEF Expands, FrontInv
<1>2. c = Candidate(c.node, c.g, request.goal) /\ c.node \in DOMAIN f.best_cost
  BY <1>1 DEF EntriesFit
<1>3. CASE c.node \in done
  BY <1>3 DEF BestOver, OnlyBetter, LeadsTo
<1>4. CASE c.node \notin done
  <2>1. Candidate(c.node, g.best_cost[c.node], request.goal) \in g.open
    BY <1>1, <1>2, <1>4 DEF NobodyForgotten
  <2>. QED  BY <1>2, <2>1
<1>. QED  BY <1>3, <1>4

LEMMA OrderDecidesNothingHere ==
  ASSUME Composed, SearchInv, NEW current \in open, IsNext(current),
         ~IsSettled(current.node),
         NEW order \in Seqs!SetToSeqs(Seqs!ToSet(TraversableEdges(Map, current.node)))
  PROVE  Decisive(Expanded(Popped(current), current, order))
           = Decisive(Expanded(Popped(current), current, TraversableEdges(Map, current.node)))
<1> DEFINE edges == TraversableEdges(Map, current.node)
           S == Seqs!ToSet(edges)
           base == Popped(current)
           done == Seqs!ToSet(settled) \cup {current.node}
           D == 1..Cardinality(S)
<1>1. Expands(current, base, done)
  BY PoppedExpands
<1>2. /\ edges \in Seq(EdgesOf(Map))
      /\ S = {id \in EdgesOf(Map) : IsTraversableFrom(Map.edge[id], current.node)}
  BY MapIsMap, TraversableAreUsable
<1>3. IsFiniteSet(S) /\ Cardinality(S) \in Nat
  <2>1. IsFiniteSet(EdgesOf(Map)) /\ S \subseteq EdgesOf(Map)
    BY <1>2, MapIsMap
  <2>. QED  BY <2>1, FS_Subset, FS_CardinalityType
<1> HIDE DEF edges, S, base, done
<1>4. order \in [D -> S] /\ \A i, j \in D : i # j => order[i] # order[j]
  <2>1. order \in Seqs!SetToSeqs(S)
    BY DEF S, edges
  <2>2. Seqs!SetToSeqs(S) = {f \in [D -> S] : \A i, j \in D : i # j => f[i] # f[j]}
    BY Zenon DEF Seqs!SetToSeqs, Cardinality, Seqs!Cardinality
  <2>. QED  BY <2>1, <2>2
<1>5. Seqs!ToSet(order) = S
  <2>1. order \in Injection(D, S)
    <3>1. \A i, j \in D : order[i] = order[j] => i = j
      BY <1>4
    <3>. QED  BY <1>4, <3>1 DEF Injection, IsInjective
  <2>2. IsFiniteSet(D) /\ Cardinality(D) = Cardinality(S)
    BY <1>3, FS_Interval
  <2>3. order \in Surjection(D, S)
    BY <1>3, <2>1, <2>2, FS_Injection
  <2>4. \A id \in S : \E i \in D : order[i] = id
    BY <2>3 DEF Surjection
  <2>. QED  BY <1>4, <2>4 DEF Seqs!ToSet
<1>6. order \in Seq(EdgesOf(Map)) /\ DOMAIN order = 1..Len(order)
  <2>1. order \in [1..Cardinality(S) -> EdgesOf(Map)]
    BY <1>2, <1>4
  <2>2. order \in Seq(EdgesOf(Map))
    BY <1>3, <2>1
  <2>. QED  BY <2>2
<1>7. ASSUME NEW list \in Seq(EdgesOf(Map)), Seqs!ToSet(list) = S
      PROVE  \E front :
               /\ Expanded(base, current, list) = {front}
               /\ Expands(current, front, done) /\ OnlyBetter(base, front, done)
               /\ BestOver(base, front, current, done, S)
  <2>1. \A k \in 1..Len(list) : IsTraversableFrom(Map.edge[list[k]], current.node)
    <3>1. \A k \in 1..Len(list) : list[k] \in Seqs!ToSet(list)
      BY DEF Seqs!ToSet
    <3>. QED  BY <1>2, <1>7, <3>1
  <2>2. \E front :
          /\ Expanded(base, current, list) = {front}
          /\ Expands(current, front, done) /\ OnlyBetter(base, front, done)
          /\ BestOver(base, front, current, done, Seqs!ToSet(list))
    BY <1>1, <2>1, ExpandedIsBest
  <2>. QED  BY <1>7, <2>2
<1>8. PICK f : /\ Expanded(base, current, order) = {f}
               /\ Expands(current, f, done) /\ OnlyBetter(base, f, done)
               /\ BestOver(base, f, current, done, S)
  BY <1>5, <1>6, <1>7
<1>9. PICK g : /\ Expanded(base, current, edges) = {g}
               /\ Expands(current, g, done) /\ OnlyBetter(base, g, done)
               /\ BestOver(base, g, current, done, S)
  BY <1>2, <1>7 DEF S
<1>10. f.best_cost = g.best_cost /\ f.came_from = g.came_from
  <2>1. S \in SUBSET EdgesOf(Map)
    BY <1>2
  <2>. QED  BY <1>1, <1>8, <1>9, <2>1, BestIsOne
<1>11. {c \in f.open : c.g = f.best_cost[c.node]} = {c \in g.open : c.g = g.best_cost[c.node]}
  <2>1. {c \in f.open : c.g = f.best_cost[c.node]} \subseteq g.open
    BY <1>1, <1>8, <1>9, <1>10, BestDecides
  <2>2. {c \in g.open : c.g = g.best_cost[c.node]} \subseteq f.open
    <3>1. g.best_cost = f.best_cost
      BY <1>10
    <3>. QED  BY <1>1, <1>8, <1>9, <3>1, BestDecides
  <2>. QED  BY <1>10, <2>1, <2>2
<1>12. [f EXCEPT !.open = {c \in @ : c.g = f.best_cost[c.node]}]
         = [g EXCEPT !.open = {c \in @ : c.g = g.best_cost[c.node]}]
  <2>1. f \in Front /\ g \in Front
    BY <1>8, <1>9 DEF Expands
  <2>2. /\ f = [best_cost |-> f.best_cost, came_from |-> f.came_from, open |-> f.open]
        /\ g = [best_cost |-> g.best_cost, came_from |-> g.came_from, open |-> g.open]
    BY <2>1 DEF Front
  <2>. QED  BY <1>10, <1>11, <2>2
<1>13. Decisive({f}) = Decisive({g})
  BY <1>12 DEF Decisive
<1>. QED  BY <1>8, <1>9, <1>13 DEF base, edges

(* In whatever order the file lists the edges of a node, the frontier that *)
(* its expansion leaves is the same: parallel and equally good edges       *)
(* included (relax, WorseFirst).                                           *)
THEOREM OrderOfEdgesDecidesNothing == FleetSpec => []EdgeOrderIsIrrelevant
<1>1. FleetInv => EdgeOrderIsIrrelevant
  <2> SUFFICES ASSUME FleetInv, NEW current \in open,
                      Searching, IsNext(current), ~IsSettled(current.node),
                      NEW order \in Seqs!SetToSeqs(Seqs!ToSet(TraversableEdges(Map, current.node)))
               PROVE  Decisive(Expanded(Popped(current), current, order))
                        = Decisive(Expanded(Popped(current), current,
                                            TraversableEdges(Map, current.node)))
    BY DEF EdgeOrderIsIrrelevant, Popped
  <2>1. Composed /\ SearchInv
    BY DEF FleetInv, FleetTyped, CallsFit
  <2>. QED  BY <2>1, OrderDecidesNothingHere
<1>. QED  BY <1>1, FleetInvHolds, PTL

-----------------------------------------------------------------------------
(* How cheap a way can be.                                                 *)

(* An edge may be driven from one node to another under the constraints.   *)
Allowed(id, u, v) ==
  /\ SegmentIsValid(Map, request.constraints, id, u, v)
  /\ AllowsNode(request.constraints, v)

(* No edge brings the goal nearer than it costs.                           *)
Consistent ==
  \A u, v \in NodesOf(Map), id \in EdgesOf(Map) :
    Allowed(id, u, v) =>
      Estimate(u, request.goal) <= StepCost(id) + Estimate(v, request.goal)

LEMMA TimesAtMost ==
  ASSUME NEW a \in Nat, NEW b \in Nat, a <= b, NEW c \in Nat
  PROVE  /\ c * a \in Nat /\ c * b \in Nat /\ c * a <= c * b
         /\ a * c \in Nat /\ b * c \in Nat /\ a * c <= b * c
<1> DEFINE d == b - a
<1>1. d \in Nat /\ b = a + d
  OBVIOUS
<1> HIDE DEF d
<1>2. c * b = c * a + c * d /\ b * c = a * c + d * c
  BY <1>1
<1>3. c * a \in Nat /\ c * d \in Nat /\ a * c \in Nat /\ d * c \in Nat
  BY <1>1
<1>. QED  BY <1>2, <1>3

(* An edge that is no faster than the fastest lane takes some time.        *)
LEMMA TimesAreSomeTime ==
  ASSUME Composed, NoneTakesNegativeTime(Map) \/ NoneOutrunsTheLimit(Map),
         NEW id \in EdgesOf(Map)
  PROVE  TravelTime(Map.edge[id]) \in Nat
<1> DEFINE time == TravelTime(Map.edge[id])
           len == Map.edge[id].length
           pace == LeastPace(Map)
<1>1. time \in Int /\ len \in Nat /\ pace \in Nat
  BY MapIsMap, TimesAreNumbers, LeastPaceIsLeast
<1>2. time >= 0 \/ time >= len * pace
  BY DEF NoneTakesNegativeTime, NoneOutrunsTheLimit
<1> HIDE DEF time, len, pace
<1>3. len * pace \in Nat
  BY <1>1
<1>4. time \in Nat
  BY <1>1, <1>2, <1>3
<1>. QED  BY <1>4 DEF time

(* Where no edge takes less than no time, none costs less than nothing.    *)
LEMMA StepsCostNoLessThanNothing ==
  ASSUME Composed, NoneTakesNegativeTime(Map) \/ NoneOutrunsTheLimit(Map),
         NEW id \in EdgesOf(Map)
  PROVE  StepCost(id) >= 0
<1> DEFINE edge == Map.edge[id]
           time == TravelTime(edge)
           resource == ResourceOf(Map, id)
           extra == IF resource \in DOMAIN surcharge THEN surcharge[resource] ELSE 0
           factor == IF resource \in request.constraints.preferred
                     THEN PreferredFactor ELSE FactorUnit
           base == DistanceWeight * edge.length + TimeWeight * time + extra
<1>1. /\ edge.length \in Nat /\ time \in Int /\ edge.pace \in Nat
      /\ extra \in Nat /\ factor \in Nat
      /\ DistanceWeight \in Nat /\ TimeWeight \in Nat
  BY MapIsMap, TimesAreNumbers, CallAssumption, WeightAssumption DEF Composed
<1>2. time \in Nat
  BY TimesAreSomeTime
<1>3. StepCost(id) = base * factor
  BY DEF StepCost, EdgeCost
<1> DEFINE far == DistanceWeight * edge.length
           long == TimeWeight * time
<1>4. base = far + long + extra
  OBVIOUS
<1> HIDE DEF edge, time, extra, factor, base
<1>5. base \in Nat
  <2>1. far \in Nat /\ long \in Nat
    BY <1>1, <1>2
  <2> HIDE DEF far, long
  <2>. QED  BY <1>1, <1>4, <2>1
<1>6. base * factor \in Nat
  BY <1>1, <1>5
<1>. QED  BY <1>3, <1>6

(* What a straight line costs at least, an edge costs.                     *)
LEMMA LinesAreCheap ==
  ASSUME Composed, GeometrySupportsHeuristic(Map), NoneOutrunsTheLimit(Map),
         NEW id \in EdgesOf(Map)
  PROVE  MinCostPerMetre(Map) * Distance(Map, Map.edge[id].from, Map.edge[id].to)
           <= StepCost(id)
<1> DEFINE edge == Map.edge[id]
           line == Distance(Map, edge.from, edge.to)
           len == edge.length
           time == TravelTime(edge)
           pace == LeastPace(Map)
           resource == ResourceOf(Map, id)
           extra == IF resource \in DOMAIN surcharge THEN surcharge[resource] ELSE 0
           factor == IF resource \in request.constraints.preferred
                     THEN PreferredFactor ELSE FactorUnit
           D == DistanceWeight
           T == TimeWeight
           P == PreferredFactor
           perMetre == D + T * pace
           base == D * len + T * time
<1>1. /\ line \in Nat /\ len \in Nat /\ time \in Nat /\ pace \in Nat /\ extra \in Nat
      /\ D \in Nat /\ T \in Nat /\ P \in Nat /\ factor \in Nat /\ P <= factor
  <2>1. edge.from \in NodesOf(Map) /\ edge.to \in NodesOf(Map) /\ edge \in Edge
    BY MapIsMap
  <2>2. line \in Nat
    BY <2>1, EstimatesAreNumbers
  <2>3. extra \in Nat
    BY CallAssumption DEF Composed
  <2>4. pace \in Nat
    BY LeastPaceIsLeast
  <2>5. time \in Nat
    BY TimesAreSomeTime
  <2>. QED  BY <2>1, <2>2, <2>3, <2>4, <2>5, TimesAreNumbers, WeightAssumption
<1>2. line <= len /\ len * pace <= time
  BY DEF GeometrySupportsHeuristic, NoneOutrunsTheLimit
<1>3. StepCost(id) = (base + extra) * factor
  BY DEF StepCost, EdgeCost
<1>4. MinCostPerMetre(Map) = P * perMetre
  BY DEF MinCostPerMetre
<1> HIDE DEF edge, line, len, time, pace, extra, factor, D, T, P
<1>5. /\ T * pace \in Nat /\ D * len \in Nat /\ T * time \in Nat /\ len * pace \in Nat
      /\ T * (len * pace) \in Nat
  BY <1>1
<1>6. perMetre \in Nat /\ base \in Nat
  BY <1>1, <1>5
<1>7. perMetre * line <= perMetre * len /\ perMetre * line \in Nat
  <2> HIDE DEF perMetre
  <2>. QED  BY <1>1, <1>2, <1>6, TimesAtMost
<1>8. perMetre * len <= base
  <2>1. T * (len * pace) <= T * time
    BY <1>1, <1>2, <1>5, TimesAtMost
  <2>2. perMetre * len = D * len + (T * pace) * len
    BY <1>1, <1>5
  <2>3. (T * pace) * len = T * (len * pace)
    BY <1>1
  <2>. QED  BY <1>5, <2>1, <2>2, <2>3
<1> HIDE DEF perMetre, base
<1>9. perMetre * line <= base + extra /\ base + extra \in Nat
  <2>1. perMetre * len \in Nat
    BY <1>1, <1>6
  <2>. QED  BY <1>1, <1>6, <1>7, <1>8, <2>1
<1>10. P * (perMetre * line) <= P * (base + extra) /\ P * (perMetre * line) \in Nat
       /\ P * (base + extra) \in Nat
  BY <1>1, <1>7, <1>9, TimesAtMost
<1>11. P * (base + extra) <= factor * (base + extra) /\ factor * (base + extra) \in Nat
  BY <1>1, <1>9, TimesAtMost
<1>12. /\ (P * perMetre) * line = P * (perMetre * line)
       /\ (base + extra) * factor = factor * (base + extra)
  BY <1>1, <1>6, <1>9
<1>13. (P * perMetre) * line <= (base + extra) * factor
  BY <1>10, <1>11, <1>12
<1>. QED  BY <1>3, <1>4, <1>13 DEF line, edge

(* When the planner's promise of cheapest routes applies, its estimate is  *)
(* consistent (make_admissible_heuristic, ZeroHeuristic).                  *)
LEMMA EstimatesAreConsistent ==
  ASSUME Composed, request.goal \in NodesOf(Map),
         \/ planner.heuristic = "dijkstra" /\ NoneTakesNegativeTime(Map)
         \/ GeometrySupportsHeuristic(Map) /\ NoneOutrunsTheLimit(Map)
  PROVE  Consistent
<1> SUFFICES ASSUME NEW u \in NodesOf(Map), NEW v \in NodesOf(Map), NEW id \in EdgesOf(Map),
                    Allowed(id, u, v)
             PROVE  Estimate(u, request.goal) <= StepCost(id) + Estimate(v, request.goal)
  BY DEF Consistent
<1>1. StepCost(id) \in Int
  BY CostsAreNumbers DEF StepCost
<1>2. CASE planner.heuristic = "dijkstra"
  <2>1. NoneTakesNegativeTime(Map) \/ NoneOutrunsTheLimit(Map)
    OBVIOUS
  <2>2. StepCost(id) >= 0
    BY <2>1, StepsCostNoLessThanNothing
  <2>. QED  BY <1>1, <1>2, <2>2 DEF Estimate
<1>3. CASE planner.heuristic # "dijkstra"
  <2> DEFINE goal == request.goal
             m == MinCostPerMetre(Map)
             near == Distance(Map, v, goal)
             far == Distance(Map, u, goal)
             line == Distance(Map, u, v)
  <2>1. m \in Nat /\ near \in Nat /\ far \in Nat /\ line \in Nat
    BY EstimatesAreNumbers
  <2>2. far <= line + near
    BY MapIsMap DEF Distance, Abs
  <2>3. line = Distance(Map, Map.edge[id].from, Map.edge[id].to)
    <3>1. \/ u = Map.edge[id].from /\ v = Map.edge[id].to
          \/ u = Map.edge[id].to /\ v = Map.edge[id].from
      BY DEF Allowed, SegmentIsValid
    <3>2. Distance(Map, u, v) = Distance(Map, v, u)
      BY MapIsMap DEF Distance, Abs
    <3>. QED  BY <3>1, <3>2
  <2>4. m * line <= StepCost(id)
    <3>1. m * Distance(Map, Map.edge[id].from, Map.edge[id].to) <= StepCost(id)
      BY <1>3, LinesAreCheap
    <3>. QED  BY <2>3, <3>1
  <2>5. Estimate(u, goal) = m * far /\ Estimate(v, goal) = m * near
    BY <1>3 DEF Estimate
  <2> HIDE DEF m, near, far, line
  <2>6. /\ m * far \in Nat /\ m * (line + near) \in Nat
        /\ m * far <= m * (line + near)
    <3>1. line + near \in Nat
      BY <2>1
    <3>. QED  BY <2>1, <2>2, <3>1, TimesAtMost
  <2>7. m * (line + near) = m * line + m * near /\ m * line \in Nat /\ m * near \in Nat
    BY <2>1
  <2>8. m * far <= StepCost(id) + m * near
    BY <1>1, <2>4, <2>6, <2>7
  <2>. QED  BY <2>5, <2>8
<1>. QED  BY <1>2, <1>3

-----------------------------------------------------------------------------
(* What a search has looked at: whatever can be driven to from a node that *)
(* is done is known, at no more than it costs from there, and what is done *)
(* was due no later than what is open.                                     *)
LeadsOn(front, done) ==
  \A u \in done, id \in EdgesOf(Map), v \in NodesOf(Map) :
    Allowed(id, u, v) =>
      /\ v \in DOMAIN front.best_cost
      /\ Consistent => front.best_cost[v] <= front.best_cost[u] + StepCost(id)

InTurn(front, done) ==
  Consistent =>
    \A u \in done, c \in front.open :
      front.best_cost[u] + Estimate(u, request.goal) <= c.f

BestInv ==
  LeadsOn(Frontier, Seqs!ToSet(settled)) /\ InTurn(Frontier, Seqs!ToSet(settled))

LEMMA ExpandedLeadsOn ==
  ASSUME Composed, SearchInv, BestInv, NEW current \in open, IsNext(current),
         ~IsSettled(current.node),
         NEW after \in Expanded(Popped(current), current,
                                TraversableEdges(Map, current.node))
  PROVE  LET done == Seqs!ToSet(settled) \cup {current.node}
         IN  LeadsOn(after, done) /\ InTurn(after, done)
<1> DEFINE node == current.node
           past == Seqs!ToSet(settled)
           done == past \cup {node}
           base == Popped(current)
           edges == TraversableEdges(Map, node)
           h(n) == Estimate(n, request.goal)
<1>1. Expands(current, base, done)
  BY PoppedExpands
<1>2. /\ edges \in Seq(EdgesOf(Map))
      /\ Seqs!ToSet(edges) = {id \in EdgesOf(Map) : IsTraversableFrom(Map.edge[id], node)}
  BY MapIsMap, TraversableAreUsable
<1>3. \A k \in 1..Len(edges) : IsTraversableFrom(Map.edge[edges[k]], node)
  <2>1. \A k \in 1..Len(edges) : edges[k] \in Seqs!ToSet(edges)
    BY <1>2 DEF Seqs!ToSet
  <2>. QED  BY <1>2, <2>1
<1>4. /\ base.best_cost = best_cost /\ base.came_from = came_from
      /\ base.open = open \ {current}
      /\ Frontier.best_cost = best_cost /\ Frontier.open = open
  BY DEF Popped, Frontier
<1>5. /\ node \in DOMAIN best_cost /\ node \in NodesOf(Map)
      /\ current.g = best_cost[node] /\ current.g \in Int
      /\ current = Candidate(node, current.g, request.goal)
      /\ request.goal \in NodesOf(Map)
  BY CheapestComesFirst, RefusalMeans DEF SearchInv
<1>6. \A n \in NodesOf(Map) : h(n) \in Nat
  BY <1>5, EstimatesAreNumbers
<1>7. \A id \in EdgesOf(Map) : StepCost(id) \in Int
  BY CostsAreNumbers DEF StepCost
<1> HIDE DEF base, edges, done
<1>8. /\ Expands(current, after, done) /\ OnlyBetter(base, after, done)
      /\ BestOver(base, after, current, done, Seqs!ToSet(edges))
  <2>1. PICK front :
          /\ Expanded(base, current, edges) = {front}
          /\ Expands(current, front, done) /\ OnlyBetter(base, front, done)
          /\ BestOver(base, front, current, done, Seqs!ToSet(edges))
    BY <1>1, <1>2, <1>3, ExpandedIsBest
  <2>2. after = front
    BY <2>1 DEF base, edges
  <2>. QED  BY <2>1, <2>2
<1>9. /\ after.best_cost \in [DOMAIN after.best_cost -> Int]
      /\ best_cost \in [DOMAIN best_cost -> Int] /\ DOMAIN best_cost \subseteq NodesOf(Map)
      /\ open \subseteq Due /\ after.open \subseteq Due
      /\ past \subseteq DOMAIN best_cost /\ done \subseteq DOMAIN after.best_cost
      /\ done = past \cup {node}
  <2>1. Frontier \in Front /\ after \in Front
    BY <1>8 DEF SearchInv, Expands
  <2>2. past \subseteq DOMAIN best_cost
    BY <1>4 DEF SearchInv, FrontInv, StartsRight
  <2>3. done \subseteq DOMAIN after.best_cost
    BY <1>8 DEF Expands, FrontInv, StartsRight
  <2>. QED  BY <1>4, <2>1, <2>2, <2>3, FrontParts DEF done
<1>10. /\ \A n \in done : after.best_cost[n] = best_cost[n]
       /\ \A n \in DOMAIN best_cost : n \in DOMAIN after.best_cost
                                       /\ after.best_cost[n] <= best_cost[n]
  BY <1>4, <1>8 DEF OnlyBetter
<1>11. current.f = best_cost[node] + h(node)
  <2>1. Candidate(node, current.g, request.goal).f = current.g + h(node)
    BY DEF Candidate
  <2>. QED  BY <1>5, <2>1
<1>12. ASSUME Consistent, NEW u \in done
       PROVE  best_cost[u] + h(u) <= current.f
  <2>1. CASE u = node
    <3>1. best_cost[node] + h(node) \in Int
      BY <1>5, <1>6
    <3>. QED  BY <1>11, <2>1, <3>1
  <2>2. CASE u \in past
    BY <1>4, <1>12, <2>2 DEF BestInv, InTurn
  <2>. QED  BY <1>9, <2>1, <2>2
<1>13. ASSUME NEW id \in EdgesOf(Map), NEW v \in NodesOf(Map), Allowed(id, node, v)
       PROVE  id \in Seqs!ToSet(edges) /\ (v \notin done => LeadsTo(current, done, id, v))
  <2>1. v = Opposite(Map.edge[id], node)
    BY <1>13, FarEnd DEF Allowed
  <2>2. IsTraversableFrom(Map.edge[id], node) /\ AllowsEdge(Map, request.constraints, id)
    BY <1>13 DEF Allowed, SegmentIsValid
  <2>. QED  BY <1>2, <1>13, <2>1, <2>2 DEF Allowed, LeadsTo
<1> HIDE DEF h, past, node
<1>14. LeadsOn(after, done)
  <2> SUFFICES ASSUME NEW u \in done, NEW id \in EdgesOf(Map), NEW v \in NodesOf(Map),
                      Allowed(id, u, v)
               PROVE  /\ v \in DOMAIN after.best_cost
                      /\ Consistent => after.best_cost[v] <= after.best_cost[u] + StepCost(id)
    BY DEF LeadsOn
  <2>1. StepCost(id) \in Int /\ u \in DOMAIN best_cost /\ best_cost[u] \in Int
        /\ after.best_cost[u] = best_cost[u]
    BY <1>5, <1>7, <1>9, <1>10
  <2>2. CASE u \in past
    <3>1. /\ v \in DOMAIN best_cost
          /\ Consistent => best_cost[v] <= best_cost[u] + StepCost(id)
      BY <1>4, <2>2 DEF BestInv, LeadsOn, past
    <3>2. v \in DOMAIN after.best_cost /\ after.best_cost[v] <= best_cost[v]
          /\ after.best_cost[v] \in Int /\ best_cost[v] \in Int
      BY <1>9, <1>10, <3>1
    <3>. QED  BY <2>1, <3>1, <3>2
  <2>3. CASE u = node /\ v \in done
    <3>1. v \in DOMAIN after.best_cost /\ v \in DOMAIN best_cost
          /\ after.best_cost[v] = best_cost[v] /\ best_cost[v] \in Int
      BY <1>5, <1>9, <1>10, <2>3
    <3>2. ASSUME Consistent PROVE best_cost[v] <= best_cost[node] + StepCost(id)
      <4>1. best_cost[v] + h(v) <= best_cost[node] + h(node)
        BY <1>11, <1>12, <2>3, <3>2
      <4>2. h(node) <= StepCost(id) + h(v)
        BY <1>5, <2>3, <3>2 DEF Consistent, h
      <4>3. h(v) \in Nat /\ h(node) \in Nat /\ best_cost[node] \in Int
        BY <1>5, <1>6
      <4>. QED  BY <2>1, <3>1, <4>1, <4>2, <4>3
    <3>. QED  BY <2>1, <2>3, <3>1, <3>2
  <2>4. CASE u = node /\ v \notin done
    <3>1. id \in Seqs!ToSet(edges) /\ LeadsTo(current, done, id, v)
      BY <1>13, <2>4
    <3>2. ~Improves(after, v, CostOver(current, id), id)
      BY <1>8, <3>1 DEF BestOver
    <3>3. /\ v \in DOMAIN after.best_cost
          /\ ~(CostOver(current, id) < after.best_cost[v])
      BY <3>2 DEF Improves
    <3>4. after.best_cost[v] \in Int /\ CostOver(current, id) = best_cost[node] + StepCost(id)
      BY <1>5, <1>9, <3>3 DEF CostOver
    <3>5. best_cost[node] + StepCost(id) \in Int
      BY <2>1, <2>4
    <3>. QED  BY <2>1, <2>4, <3>3, <3>4, <3>5
  <2>. QED  BY <1>9, <2>2, <2>3, <2>4
<1>15. InTurn(after, done)
  <2> SUFFICES ASSUME Consistent, NEW u \in done, NEW c \in after.open
               PROVE  after.best_cost[u] + h(u) <= c.f
    BY DEF InTurn, h
  <2>1. /\ after.best_cost[u] = best_cost[u] /\ best_cost[u] \in Int /\ h(u) \in Nat
        /\ current.f \in Int /\ c.f \in Int /\ best_cost[u] + h(u) <= current.f
    BY <1>5, <1>6, <1>9, <1>10, <1>12 DEF Due
  <2>2. current.f <= c.f
    <3>1. CASE c \in base.open
      <4>1. Before(current, c)
        BY <1>4, <3>1 DEF IsNext
      <4>. QED  BY <2>1, <4>1 DEF Before
    <3>2. ASSUME NEW id \in Seqs!ToSet(edges), LeadsTo(current, done, id, c.node),
                 c = Candidate(c.node, CostOver(current, id), request.goal)
          PROVE  current.f <= c.f
      <4>1. id \in EdgesOf(Map) /\ IsTraversableFrom(Map.edge[id], node)
        BY <1>2
      <4>2. SegmentIsValid(Map, request.constraints, id, node, c.node)
            /\ c.node \in NodesOf(Map)
        BY <3>2, <4>1, FarEnd DEF LeadsTo, node
      <4>3. Allowed(id, node, c.node)
        BY <3>2, <4>2 DEF LeadsTo, Allowed
      <4>4. h(node) <= StepCost(id) + h(c.node)
        BY <1>5, <2>1, <4>1, <4>2, <4>3 DEF Consistent, h
      <4>5. Candidate(c.node, CostOver(current, id), request.goal).f
              = CostOver(current, id) + h(c.node)
        BY DEF Candidate, h
      <4>6. c.f = best_cost[node] + StepCost(id) + h(c.node)
        BY <1>5, <3>2, <4>5 DEF CostOver
      <4>7. StepCost(id) \in Int /\ h(c.node) \in Nat /\ h(node) \in Nat
            /\ best_cost[node] \in Int
        BY <1>5, <1>6, <1>7, <4>1, <4>2
      <4>. QED  BY <1>11, <4>4, <4>6, <4>7
    <3>. QED  BY <1>8, <3>1, <3>2 DEF BestOver
  <2>. QED  BY <2>1, <2>2
<1>. QED  BY <1>14, <1>15 DEF done, past, node

(* A consistent estimate stays one while the call goes on.                 *)
LEMMA BestStays ==
  ASSUME UNCHANGED <<planner, surcharge, request>>, NEW front, NEW done,
         LeadsOn(front, done), InTurn(front, done),
         Frontier' = front, Seqs!ToSet(settled') = done
  PROVE  BestInv'
<1>1. /\ Map' = Map /\ request' = request
      /\ \A id : StepCost(id)' = StepCost(id)
      /\ \A n, goal : Estimate(n, goal)' = Estimate(n, goal)
  BY DEF Map, StepCost, Estimate
<1>2. \A id, u, v : Allowed(id, u, v)' <=> Allowed(id, u, v)
  BY <1>1 DEF Allowed
<1>3. Consistent' <=> Consistent
  BY <1>1, <1>2 DEF Consistent
<1>4. LeadsOn(Frontier, Seqs!ToSet(settled))'
  BY <1>1, <1>2, <1>3 DEF LeadsOn
<1>5. InTurn(Frontier, Seqs!ToSet(settled))'
  BY <1>1, <1>3 DEF InTurn
<1>. QED  BY <1>4, <1>5 DEF BestInv

-----------------------------------------------------------------------------
(* The allowed walks there are.                                            *)
WalksUpTo(map, traffic, start, constraints) ==
  CHOOSE walks :
    walks = [k \in 0..Cardinality(NodesOf(map)) |->
               IF k = 0 THEN {[end |-> start, cost |-> 0]}
               ELSE LET shorter == walks[k - 1]
                    IN  shorter \cup
                          {[end  |-> step[3],
                            cost |-> step[1].cost
                                       + EdgeCost(map, step[2], constraints, traffic)] :
                             step \in {s \in shorter \X EdgesOf(map)
                                             \X (NodesOf(map) \ constraints.nodes) :
                                       SegmentIsValid(map, constraints, s[2], s[1].end, s[3])}}]

AllWalks(map, traffic, start, constraints) ==
  WalksUpTo(map, traffic, start, constraints)[Cardinality(NodesOf(map))]

LEMMA WalksAreAllWalks ==
  \A start, constraints :
    Walks(start, constraints) = AllWalks(Map, surcharge, start, constraints)
BY DEF Walks, AllWalks, WalksUpTo

(* A walk that ends at a node of the map, and walks an edge longer.        *)
Walk == [end : NodesOf(Map), cost : Int]

Longer(walk, id, v) == [end |-> v, cost |-> walk.cost + StepCost(id)]

Goes(walk, id, v) ==
  v \notin request.constraints.nodes
    /\ SegmentIsValid(Map, request.constraints, id, walk.end, v)

Farther(walks) ==
  walks \cup {Longer(step[1], step[2], step[3]) :
                step \in {s \in walks \X EdgesOf(Map)
                                \X (NodesOf(Map) \ request.constraints.nodes) :
                          SegmentIsValid(Map, request.constraints, s[2], s[1].end, s[3])}}

LEMMA FartherMeans ==
  ASSUME NEW walks
  PROVE  /\ walks \subseteq Farther(walks)
         /\ \A walk \in walks, id \in EdgesOf(Map), v \in NodesOf(Map) :
              Goes(walk, id, v) => Longer(walk, id, v) \in Farther(walks)
         /\ \A w \in Farther(walks) :
              \/ w \in walks
              \/ \E walk \in walks, id \in EdgesOf(Map), v \in NodesOf(Map) :
                   Goes(walk, id, v) /\ w = Longer(walk, id, v)
<1> DEFINE steps == {s \in walks \X EdgesOf(Map) \X (NodesOf(Map) \ request.constraints.nodes) :
                       SegmentIsValid(Map, request.constraints, s[2], s[1].end, s[3])}
<1>1. Farther(walks) = walks \cup {Longer(s[1], s[2], s[3]) : s \in steps}
  BY DEF Farther
<1>2. ASSUME NEW walk \in walks, NEW id \in EdgesOf(Map), NEW v \in NodesOf(Map),
             Goes(walk, id, v)
      PROVE  <<walk, id, v>> \in steps
  BY <1>2 DEF Goes
<1>3. ASSUME NEW s \in steps
      PROVE  s[1] \in walks /\ s[2] \in EdgesOf(Map) /\ s[3] \in NodesOf(Map)
             /\ Goes(s[1], s[2], s[3])
  BY DEF Goes
<1> HIDE DEF steps
<1>4. ASSUME NEW walk \in walks, NEW id \in EdgesOf(Map), NEW v \in NodesOf(Map),
             Goes(walk, id, v)
      PROVE  Longer(walk, id, v) \in Farther(walks)
  <2> DEFINE s == <<walk, id, v>>
  <2>1. s \in steps /\ Longer(s[1], s[2], s[3]) = Longer(walk, id, v)
    BY <1>2, <1>4
  <2>. QED  BY <1>1, <2>1
<1>. QED  BY <1>1, <1>3, <1>4

(* They come a length at a time.                                           *)
Lengths(walks, n) ==
  /\ walks \in [0..n -> SUBSET Walk]
  /\ walks[0] = {[end |-> request.start, cost |-> 0]}
  /\ \A k \in 1..n : walks[k] = Farther(walks[k - 1])
  /\ AllWalks(Map, surcharge, request.start, request.constraints) = walks[n]

LEMMA WalksLengthByLength ==
  ASSUME Composed, request.start \in NodesOf(Map)
  PROVE  \E walks : Lengths(walks, Cardinality(NodesOf(Map)))
<1> DEFINE n == Cardinality(NodesOf(Map))
           V == SUBSET Walk
           base == {[end |-> request.start, cost |-> 0]}
           step == [x \in V \X (1..n) |-> Farther(x[1])]
           all == WalksUpTo(Map, surcharge, request.start, request.constraints)
<1>1. n \in Nat
  BY MapIsMap, FS_CardinalityType
<1>2. base \in V
  BY DEF Walk
<1>3. \A walks \in V : Farther(walks) \in V
  <2> SUFFICES ASSUME NEW walks \in V, NEW w \in Farther(walks) PROVE w \in Walk
    OBVIOUS
  <2>1. CASE w \in walks
    BY <2>1
  <2>2. ASSUME NEW walk \in walks, NEW id \in EdgesOf(Map), NEW v \in NodesOf(Map),
               w = Longer(walk, id, v)
        PROVE  w \in Walk
    <3>1. walk.cost \in Int /\ StepCost(id) \in Int
      BY CostsAreNumbers DEF StepCost, Walk
    <3>2. walk.cost + StepCost(id) \in Int
      BY <3>1
    <3>. QED  BY <2>2, <3>2 DEF Longer, Walk
  <2>. QED  BY <2>1, <2>2, FartherMeans
<1>4. step \in [V \X (1..n) -> V] /\ \A w \in V, i \in 1..n : step[<<w, i>>] = Farther(w)
  BY <1>3
<1> HIDE DEF step, V, n
<1>5. PICK walks : IsIteration(walks, n, V, base, step)
  BY <1>1, <1>2, <1>4, IterationExists
<1>6. /\ walks \in [0..n -> V] /\ walks[0] = base
      /\ \A k \in 1..n : walks[k] = Farther(walks[k - 1])
  <2>1. \A k \in 1..n : k - 1 \in 0..n
    BY <1>1
  <2>. QED  BY <1>4, <1>5, <2>1 DEF IsIteration
<1>7. walks = [k \in 0..n |-> IF k = 0 THEN base ELSE Farther(walks[k - 1])]
  <2>1. \A k \in 0..n : k # 0 => k \in 1..n
    BY <1>1
  <2>. QED  BY <1>6, <2>1
<1>8. all = CHOOSE w : w = [k \in 0..n |-> IF k = 0 THEN base ELSE Farther(w[k - 1])]
  BY DEF WalksUpTo, Farther, Longer, StepCost, n
<1> HIDE DEF all, base
<1>9. all = [k \in 0..n |-> IF k = 0 THEN base ELSE Farther(all[k - 1])]
  BY <1>7, <1>8
<1> DEFINE P == {k \in 0..n : all[k] = walks[k]}
<1>10. 0 \in P
  BY <1>1, <1>6, <1>9
<1>11. ASSUME NEW k \in 1..n, k - 1 \in P PROVE k \in P
  <2>1. k \in 0..n /\ k # 0 /\ k - 1 \in 0..n
    BY <1>1
  <2>. QED  BY <1>6, <1>9, <1>11, <2>1
<1>12. all[n] = walks[n]
  <2> HIDE DEF P
  <2>1. 0..n \subseteq P
    BY <1>1, <1>10, <1>11, InductionUpTo
  <2>. QED  BY <1>1, <2>1 DEF P
<1>. QED  BY <1>6, <1>12 DEF Lengths, AllWalks, V, n, all, base

LEMMA WalksOverTheMap ==
  ASSUME Composed, request.start \in NodesOf(Map)
  PROVE  AllWalks(Map, surcharge, request.start, request.constraints) \subseteq Walk
<1> DEFINE n == Cardinality(NodesOf(Map))
<1>1. n \in Nat
  BY MapIsMap, FS_CardinalityType
<1>2. PICK walks : Lengths(walks, n)
  BY WalksLengthByLength
<1> HIDE DEF n
<1>. QED  BY <1>1, <1>2 DEF Lengths

(* What holds where walks start, and of a walk that goes on, holds of all  *)
(* walks: a set of walks stands for the property.                          *)
LEMMA WalksWithin ==
  ASSUME Composed, request.start \in NodesOf(Map), NEW Q,
         [end |-> request.start, cost |-> 0] \in Q,
         \A walk \in Q, id \in EdgesOf(Map), v \in NodesOf(Map) :
           Goes(walk, id, v) => Longer(walk, id, v) \in Q
  PROVE  AllWalks(Map, surcharge, request.start, request.constraints) \subseteq Q
<1> DEFINE n == Cardinality(NodesOf(Map))
<1>1. n \in Nat
  BY MapIsMap, FS_CardinalityType
<1>2. PICK walks : Lengths(walks, n)
  BY WalksLengthByLength
<1> HIDE DEF n
<1> DEFINE P == {k \in 0..n : walks[k] \subseteq Q}
<1>3. 0 \in P
  BY <1>1, <1>2 DEF Lengths
<1>4. ASSUME NEW k \in 1..n, k - 1 \in P PROVE k \in P
  <2>1. k \in 0..n /\ walks[k] = Farther(walks[k - 1]) /\ walks[k - 1] \subseteq Q
    BY <1>1, <1>2, <1>4 DEF Lengths
  <2>2. \A w \in Farther(walks[k - 1]) : w \in Q
    BY <2>1, FartherMeans
  <2>. QED  BY <2>1, <2>2
<1>5. walks[n] \subseteq Q
  <2> HIDE DEF P
  <2>1. 0..n \subseteq P
    BY <1>1, <1>3, <1>4, InductionUpTo
  <2>. QED  BY <1>1, <2>1 DEF P
<1>. QED  BY <1>2, <1>5 DEF Lengths

(* A walk of a length is one of any greater length.                        *)
LEMMA WalksStay ==
  ASSUME NEW n \in Nat, NEW walks, Lengths(walks, n), NEW m \in 0..n
  PROVE  walks[m] \subseteq walks[n]
<1> DEFINE P == {k \in 0..n : m <= k => walks[m] \subseteq walks[k]}
<1>1. 0 \in P
  OBVIOUS
<1>2. ASSUME NEW k \in 1..n, k - 1 \in P PROVE k \in P
  <2>1. k \in 0..n /\ walks[k] = Farther(walks[k - 1])
    BY DEF Lengths
  <2>2. walks[k - 1] \subseteq Farther(walks[k - 1])
    BY FartherMeans
  <2>. QED  BY <1>2, <2>1, <2>2
<1>3. 0..n \subseteq P
  <2> HIDE DEF P
  <2>. QED  BY <1>1, <1>2, InductionUpTo
<1>. QED  BY <1>3

(* So many different nodes there are at least.                             *)
LEMMA DistinctFit ==
  ASSUME NEW S, IsFiniteSet(S), NEW s \in Seq(S),
         \A i, j \in DOMAIN s : s[i] = s[j] => i = j
  PROVE  Len(s) <= Cardinality(S) /\ Len(s) \in Nat /\ Cardinality(S) \in Nat
<1> DEFINE n == Len(s)
<1>1. n \in Nat /\ s \in [1..n -> S] /\ DOMAIN s = 1..n
  OBVIOUS
<1> HIDE DEF n
<1>2. s \in Injection(1..n, S)
  BY <1>1 DEF Injection, IsInjective
<1>3. Cardinality(1..n) = n
  <2>1. Cardinality(1..n) = IF 1 > n THEN 0 ELSE n - 1 + 1
    BY <1>1, FS_Interval
  <2>. QED  BY <1>1, <2>1
<1>4. Cardinality(1..n) <= Cardinality(S) /\ Cardinality(S) \in Nat
  BY <1>2, FS_Injection, FS_CardinalityType
<1>. QED  BY <1>1, <1>3, <1>4 DEF n

(* The nodes that are settled, and one more.                               *)
LEMMA OneMoreThanSettled ==
  ASSUME Composed, SearchInv, NEW v \in NodesOf(Map), v \notin Seqs!ToSet(settled),
         NEW S, S \subseteq NodesOf(Map), Seqs!ToSet(settled) \cup {v} \subseteq S
  PROVE  Len(settled) + 1 <= Cardinality(S) /\ Len(settled) \in Nat /\ Cardinality(S) \in Nat
<1> DEFINE past == settled
           n == Len(past)
           more == Append(past, v)
<1>1. /\ past \in Seq(NodesOf(Map))
      /\ \A i, j \in DOMAIN past : past[i] = past[j] => i = j
  BY DEF SearchInv, SettledInOrder
<1>2. /\ past \in Seq(S) /\ v \in S /\ n \in Nat
      /\ DOMAIN past = 1..n
  <2>1. n \in Nat /\ past \in [1..n -> NodesOf(Map)] /\ DOMAIN past = 1..n
    BY <1>1
  <2>2. \A i \in 1..n : past[i] \in S
    BY <2>1 DEF Seqs!ToSet
  <2>3. past \in [1..n -> S]
    BY <2>1, <2>2
  <2>. QED  BY <2>1, <2>3
<1>3. \A i \in 1..n : past[i] # v
  BY <1>2 DEF Seqs!ToSet
<1>4. /\ more \in Seq(S) /\ Len(more) = n + 1 /\ more[n + 1] = v
      /\ \A i \in 1..n : more[i] = past[i]
  BY <1>2, AppendedTo
<1>5. DOMAIN more = 1..(n + 1) /\ 1..(n + 1) = 1..n \cup {n + 1}
  BY <1>2, <1>4
<1> HIDE DEF more, n, past
<1>6. \A i, j \in DOMAIN more : more[i] = more[j] => i = j
  BY <1>1, <1>2, <1>3, <1>4, <1>5
<1>7. IsFiniteSet(S)
  BY MapIsMap, FS_Subset
<1>8. Len(more) <= Cardinality(S) /\ Cardinality(S) \in Nat
  BY <1>4, <1>6, <1>7, DistinctFit
<1>. QED  BY <1>2, <1>4, <1>8 DEF n, past

(* Every way the search keeps is a walk.                                   *)
LEMMA WaysAreWalks ==
  ASSUME Composed, SearchInv, NEW v \in DOMAIN best_cost
  PROVE  [end |-> v, cost |-> best_cost[v]]
           \in AllWalks(Map, surcharge, request.start, request.constraints)
<1> DEFINE max == Cardinality(NodesOf(Map))
           past == settled
           n == Len(past)
           way(u) == [end |-> u, cost |-> best_cost[u]]
<1>1. /\ request.start \in NodesOf(Map) /\ max \in Nat
  BY RefusalMeans, MapIsMap, FS_CardinalityType DEF SearchInv
<1>2. /\ past \in Seq(NodesOf(Map)) /\ n \in Nat /\ DOMAIN past = 1..n
      /\ \A i, j \in 1..n : past[i] = past[j] => i = j
      /\ past = << >> => DOMAIN best_cost = {request.start}
      /\ past # << >> => past[1] = request.start
      /\ \A i \in 1..n : past[i] # request.start =>
           \E j \in 1..(i - 1) : came_from[past[i]].node = past[j]
  BY DEF SearchInv, SettledInOrder
<1>3. PICK walks : Lengths(walks, max)
  BY <1>1, WalksLengthByLength
<1>10. AllWalks(Map, surcharge, request.start, request.constraints) = walks[max]
  BY <1>3 DEF Lengths
<1>4. /\ Frontier \in Front /\ Frontier.best_cost = best_cost /\ Frontier.came_from = came_from
      /\ StartsRight(Frontier, Seqs!ToSet(past)) /\ WaysHold(Frontier, Seqs!ToSet(past))
  BY DEF SearchInv, FrontInv, Frontier
<1>5. /\ best_cost[request.start] = 0 /\ DOMAIN best_cost \subseteq NodesOf(Map)
      /\ came_from \in [DOMAIN came_from -> Step]
      /\ DOMAIN came_from = DOMAIN best_cost \ {request.start}
      /\ \A i \in 1..n : past[i] \in DOMAIN best_cost
      /\ \A u \in DOMAIN best_cost : AllowsNode(request.constraints, u)
  <2>1. \A i \in 1..n : past[i] \in Seqs!ToSet(past)
    BY <1>2 DEF Seqs!ToSet
  <2>. QED  BY <1>4, <2>1, FrontParts DEF StartsRight
<1>6. ASSUME NEW u \in DOMAIN best_cost, u # request.start
      PROVE  /\ came_from[u].node \in Seqs!ToSet(past)
             /\ \A some : way(came_from[u].node) \in some => way(u) \in Farther(some)
  <2> DEFINE from == came_from[u].node
             id == came_from[u].edge
  <2>1. /\ from \in Seqs!ToSet(past)
        /\ SegmentIsValid(Map, request.constraints, id, from, u)
        /\ best_cost[u] = best_cost[from] + StepCost(id)
    BY <1>4, <1>5, <1>6 DEF WaysHold
  <2>2. id \in EdgesOf(Map) /\ u \in NodesOf(Map) /\ AllowsNode(request.constraints, u)
    BY <1>5, <1>6 DEF Step
  <2> HIDE DEF id, from
  <2>3. Goes(way(from), id, u) /\ Longer(way(from), id, u) = way(u)
    BY <2>1, <2>2 DEF Goes, Longer, AllowsNode
  <2>4. ASSUME NEW some, way(from) \in some PROVE way(u) \in Farther(some)
    <3>1. Longer(way(from), id, u) \in Farther(some)
      BY <2>2, <2>3, <2>4, FartherMeans
    <3>. QED  BY <2>3, <3>1
  <2>. QED  BY <2>1, <2>4 DEF from
<1>7. CASE past = << >>
  <2>1. v = request.start /\ way(v) \in walks[0]
    BY <1>2, <1>3, <1>5, <1>7 DEF Lengths
  <2>2. 0 \in 0..max
    BY <1>1
  <2> HIDE DEF max
  <2>. QED  BY <1>1, <1>3, <2>1, <2>2, WalksStay DEF Lengths
<1>8. CASE past # << >> /\ n <= max /\ (v \notin Seqs!ToSet(past) => n + 1 <= max)
  <2> DEFINE P == {k \in 0..n : \A i \in 1..k : way(past[i]) \in walks[k]}
  <2> HIDE DEF way, past, n, max
  <2>1. 0 \in P
    BY <1>2
  <2>2. ASSUME NEW k \in 1..n, k - 1 \in P PROVE k \in P
    <3>1. k \in 0..n /\ walks[k] = Farther(walks[k - 1]) /\ k - 1 \in 0..max /\ k \in 0..max
      BY <1>1, <1>2, <1>3, <1>8 DEF Lengths
    <3>2. walks[k - 1] \subseteq walks[k]
      BY <3>1, FartherMeans
    <3>3. ASSUME NEW i \in 1..k PROVE way(past[i]) \in walks[k]
      <4>1. i \in 1..n /\ (i \in 1..(k - 1) \/ i = k)
        BY <1>2
      <4>2. CASE past[i] = request.start
        <5>1. way(request.start) = [end |-> request.start, cost |-> 0]
          BY <1>5 DEF way
        <5>2. k = 1 \/ 1 \in 1..(k - 1)
          BY <1>2
        <5>3. past[1] = request.start
          BY <1>2, <1>8
        <5>4. CASE k = 1
          <6>1. way(past[i]) \in walks[0]
            BY <1>3, <4>2, <5>1 DEF Lengths
          <6>2. walks[k - 1] = walks[0]
            BY <5>4
          <6>. QED  BY <3>2, <6>1, <6>2
        <5>5. CASE 1 \in 1..(k - 1)
          BY <2>2, <3>2, <4>2, <5>3, <5>5
        <5>. QED  BY <5>2, <5>4, <5>5
      <4>3. CASE past[i] # request.start /\ i \in 1..(k - 1)
        BY <2>2, <3>2, <4>3
      <4>4. CASE past[i] # request.start /\ i = k
        <5>1. PICK j \in 1..(k - 1) : came_from[past[i]].node = past[j]
          BY <1>2, <4>1, <4>4
        <5>2. way(came_from[past[i]].node) \in walks[k - 1]
          BY <2>2, <5>1
        <5>. QED  BY <1>5, <1>6, <3>1, <4>1, <4>4, <5>2
      <4>. QED  BY <4>1, <4>2, <4>3, <4>4
    <3>. QED  BY <3>1, <3>3
  <2>3. \A i \in 1..n : way(past[i]) \in walks[n]
    <3>1. 0..n \subseteq P
      <4> HIDE DEF P
      <4>. QED  BY <1>2, <2>1, <2>2, InductionUpTo
    <3>. QED  BY <1>2, <3>1
  <2>4. n \in 0..max
    BY <1>1, <1>2, <1>8
  <2>5. CASE v \in Seqs!ToSet(past)
    <3>1. way(v) \in walks[n]
      BY <1>2, <2>3, <2>5 DEF Seqs!ToSet
    <3>2. walks[n] \subseteq walks[max]
      BY <1>1, <1>3, <2>4, WalksStay
    <3>. QED  BY <1>10, <3>1, <3>2 DEF way
  <2>6. CASE v \notin Seqs!ToSet(past)
    <3>1. v # request.start
      <4>1. 1 \in 1..n
        BY <1>2, <1>8 DEF past, n
      <4>. QED  BY <1>2, <1>8, <2>6, <4>1 DEF Seqs!ToSet
    <3>2. way(came_from[v].node) \in walks[n]
      <4>1. came_from[v].node \in Seqs!ToSet(past)
        BY <1>6, <3>1
      <4>. QED  BY <1>2, <2>3, <4>1 DEF Seqs!ToSet
    <3>3. n + 1 \in 1..max /\ n + 1 \in 0..max /\ (n + 1) - 1 = n
      BY <1>1, <1>2, <1>8, <2>6
    <3>4. walks[n + 1] = Farther(walks[n])
      BY <1>3, <3>3 DEF Lengths
    <3>5. way(v) \in walks[n + 1]
      BY <1>6, <3>1, <3>2, <3>4
    <3>6. walks[n + 1] \subseteq walks[max]
      BY <1>1, <1>3, <3>3, WalksStay
    <3>. QED  BY <1>10, <3>5, <3>6 DEF way
  <2>. QED  BY <2>5, <2>6
<1>9. n <= max /\ (v \notin Seqs!ToSet(past) => n + 1 <= max)
  <2>1. n <= max
    BY <1>2, MapIsMap, DistinctFit
  <2>2. ASSUME v \notin Seqs!ToSet(past) PROVE n + 1 <= max
    <3>1. Seqs!ToSet(past) \subseteq NodesOf(Map) /\ v \in NodesOf(Map)
      BY <1>2, <1>5 DEF Seqs!ToSet
    <3>. QED  BY <2>2, <3>1, OneMoreThanSettled
  <2>. QED  BY <2>1, <2>2
<1>. QED  BY <1>7, <1>8, <1>9

-----------------------------------------------------------------------------
(* What an answer is worth, to whoever asks the same composition about the *)
(* same traffic.                                                           *)
BestAnswer(composition, traffic, req, result) ==
  LET walks == AllWalks(composition.map, traffic, req.start, req.constraints)
      costs == {walk.cost : walk \in {w \in walks : w.end = req.goal}}
      reached == {walk.end : walk \in walks}
  IN  /\ result.failure = None => result.cost \in costs
      /\ /\ result.failure = None
         /\ \/ /\ composition.heuristic = "dijkstra"
               /\ NoneTakesNegativeTime(composition.map)
            \/ /\ GeometrySupportsHeuristic(composition.map)
               /\ NoneOutrunsTheLimit(composition.map)
         => \A cost \in costs : result.cost <= cost
      /\ result.failure = "no_route" => costs = {}
      /\ result.failure = "search_limit_reached" =>
           composition.max_expansions \in 1..Cardinality(reached)

LEMMA AnswersAreBestMeans ==
  AnswersAreBest <=>
    (answer # None /\ Refusal(request) = None =>
       BestAnswer(planner, surcharge, request, answer))
BY WalksAreAllWalks DEF AnswersAreBest, BestAnswer, Map

(* The robot is there already.                                             *)
LEMMA StayingIsBest ==
  ASSUME Composed, Refusal(request) = None, request.start = request.goal, NEW result,
         result.failure = None, result.cost = 0
  PROVE  BestAnswer(planner, surcharge, request, result)
<1> DEFINE walks == AllWalks(Map, surcharge, request.start, request.constraints)
           here == [end |-> request.start, cost |-> 0]
           costs == {walk.cost : walk \in {w \in walks : w.end = request.goal}}
<1>1. request.start \in NodesOf(Map)
  BY RefusalMeans
<1>2. here \in walks
  <2> DEFINE n == Cardinality(NodesOf(Map))
  <2>1. n \in Nat /\ 0 \in 0..n
    BY MapIsMap, FS_CardinalityType
  <2>2. PICK all : Lengths(all, n)
    BY <1>1, WalksLengthByLength
  <2> HIDE DEF n
  <2>3. all[0] \subseteq all[n] /\ here \in all[0] /\ walks = all[n]
    BY <2>1, <2>2, WalksStay DEF Lengths
  <2>. QED  BY <2>3
<1>3. walks \subseteq Walk
  BY <1>1, WalksOverTheMap
<1>4. 0 \in costs
  BY <1>2
<1>5. ASSUME NoneTakesNegativeTime(Map) \/ NoneOutrunsTheLimit(Map)
      PROVE  \A cost \in costs : 0 <= cost
  <2> DEFINE Q == {w \in Walk : w.cost >= 0}
  <2>1. here \in Q
    BY <1>1 DEF Walk
  <2>2. ASSUME NEW w \in Q, NEW id \in EdgesOf(Map), NEW v \in NodesOf(Map), Goes(w, id, v)
        PROVE  Longer(w, id, v) \in Q
    <3>1. w.cost \in Int /\ w.cost >= 0 /\ StepCost(id) \in Int
      BY CostsAreNumbers DEF Walk, StepCost
    <3>2. StepCost(id) >= 0
      BY <1>5, StepsCostNoLessThanNothing
    <3>3. w.cost + StepCost(id) \in Int /\ w.cost + StepCost(id) >= 0
      BY <3>1, <3>2
    <3>. QED  BY <3>3 DEF Longer, Walk
  <2>3. walks \subseteq Q
    <3> HIDE DEF Q
    <3>. QED  BY <1>1, <2>1, <2>2, WalksWithin
  <2>. QED  BY <2>3
<1>6. None # "no_route" /\ None # "search_limit_reached"
  BY NoneAssumption DEF PlanningFailure
<1>. QED  BY <1>4, <1>5, <1>6 DEF BestAnswer, Map

(* The entry that is due next is due no later than what any walk comes to  *)
(* where it leaves what is settled.                                        *)
LEMMA NoWalkIsCheaper ==
  ASSUME Composed, SearchInv, BestInv, Consistent, NEW current \in open, IsNext(current),
         ~IsSettled(current.node), current.node = request.goal,
         NEW walk \in AllWalks(Map, surcharge, request.start, request.constraints),
         walk.end = request.goal
  PROVE  current.g <= walk.cost
<1> DEFINE h(n) == Estimate(n, request.goal)
           past == Seqs!ToSet(settled)
           Q == {w \in Walk : \/ current.f <= w.cost + h(w.end)
                              \/ w.end \in past /\ best_cost[w.end] <= w.cost}
<1>1. request.start \in NodesOf(Map) /\ request.goal \in NodesOf(Map)
  BY RefusalMeans DEF SearchInv
<1>2. /\ current.g = best_cost[request.goal] /\ current.g \in Int
      /\ current = Candidate(request.goal, current.g, request.goal)
  BY CheapestComesFirst
<1>3. /\ current.f = current.g + h(request.goal)
      /\ \A n \in NodesOf(Map) : h(n) \in Nat
      /\ h(request.goal) = 0 /\ current.f \in Int
  <2>1. \A n \in NodesOf(Map) : h(n) \in Nat
    BY <1>1, EstimatesAreNumbers
  <2>2. h(request.goal) = 0
    <3>1. Distance(Map, request.goal, request.goal) = 0 /\ MinCostPerMetre(Map) \in Nat
      BY <1>1, MapIsMap, EstimatesAreNumbers DEF Distance, Abs
    <3>. QED  BY <3>1 DEF Estimate
  <2>3. Candidate(request.goal, current.g, request.goal).f = current.g + h(request.goal)
    BY DEF Candidate
  <2>. QED  BY <1>2, <2>1, <2>2, <2>3
<1>4. /\ Frontier.best_cost = best_cost /\ Frontier.open = open
      /\ StartsRight(Frontier, past) /\ NobodyForgotten(Frontier, past)
      /\ LeadsOn(Frontier, past) /\ Frontier \in Front
  BY DEF SearchInv, FrontInv, BestInv, Frontier
<1>5. best_cost \in [DOMAIN best_cost -> Int] /\ open \subseteq Due
      /\ past \subseteq DOMAIN best_cost
  BY <1>4, FrontParts DEF StartsRight
<1> HIDE DEF h, past
<1>6. ASSUME NEW v \in DOMAIN best_cost, v \in NodesOf(Map), v \notin past
      PROVE  current.f <= best_cost[v] + h(v)
  <2> DEFINE c == Candidate(v, best_cost[v], request.goal)
  <2>1. c \in open /\ c.f = best_cost[v] + h(v)
    BY <1>4, <1>6 DEF NobodyForgotten, Candidate, h
  <2>2. best_cost[v] + h(v) \in Int
    BY <1>3, <1>5, <1>6
  <2> HIDE DEF c
  <2>3. CASE c = current
    BY <1>3, <2>1, <2>3
  <2>4. CASE c # current
    <3>1. Before(current, c)
      BY <2>1, <2>4 DEF IsNext
    <3>. QED  BY <1>3, <2>1, <2>2, <3>1 DEF Before
  <2>. QED  BY <2>3, <2>4
<1>7. [end |-> request.start, cost |-> 0] \in Q
  <2>1. request.start \in DOMAIN best_cost /\ best_cost[request.start] = 0
    BY <1>4 DEF StartsRight
  <2>2. request.start \in past \/ current.f <= 0 + h(request.start)
    BY <1>1, <1>6, <2>1
  <2>. QED  BY <1>1, <2>1, <2>2 DEF Walk
<1>8. ASSUME NEW w \in Q, NEW id \in EdgesOf(Map), NEW v \in NodesOf(Map), Goes(w, id, v)
      PROVE  Longer(w, id, v) \in Q
  <2>1. /\ w.end \in NodesOf(Map) /\ w.cost \in Int /\ StepCost(id) \in Int
        /\ h(v) \in Nat /\ h(w.end) \in Nat
    BY <1>3, CostsAreNumbers DEF Walk, StepCost
  <2>2. /\ Longer(w, id, v).end = v /\ Longer(w, id, v).cost = w.cost + StepCost(id)
        /\ w.cost + StepCost(id) \in Int /\ Longer(w, id, v) \in Walk
    <3>1. w.cost + StepCost(id) \in Int
      BY <2>1
    <3>. QED  BY <3>1 DEF Longer, Walk
  <2>3. Allowed(id, w.end, v)
    BY <1>8 DEF Goes, Allowed, AllowsNode
  <2>4. CASE current.f <= w.cost + h(w.end)
    <3>1. h(w.end) <= StepCost(id) + h(v)
      BY <2>1, <2>3 DEF Consistent, h
    <3>2. current.f <= (w.cost + StepCost(id)) + h(v)
      BY <1>3, <2>1, <2>4, <3>1
    <3>. QED  BY <2>2, <3>2
  <2>5. CASE w.end \in past /\ best_cost[w.end] <= w.cost
    <3>1. v \in DOMAIN best_cost /\ best_cost[v] <= best_cost[w.end] + StepCost(id)
      BY <1>4, <2>3, <2>5 DEF LeadsOn
    <3>2. best_cost[v] \in Int /\ best_cost[w.end] \in Int
      BY <1>5, <2>5, <3>1
    <3>3. best_cost[v] <= w.cost + StepCost(id)
      BY <2>1, <2>5, <3>1, <3>2
    <3>4. CASE v \in past
      BY <2>2, <3>3, <3>4
    <3>5. CASE v \notin past
      <4>1. current.f <= best_cost[v] + h(v)
        BY <1>6, <3>1, <3>5
      <4>2. current.f <= (w.cost + StepCost(id)) + h(v)
        BY <1>3, <2>1, <3>2, <3>3, <4>1
      <4>. QED  BY <2>2, <4>2
    <3>. QED  BY <3>4, <3>5
  <2>. QED  BY <2>4, <2>5
<1>9. walk \in Q
  <2> HIDE DEF Q
  <2>. QED  BY <1>1, <1>7, <1>8, WalksWithin
<1>10. walk.end \notin past
  BY DEF IsSettled, past
<1>. QED  BY <1>2, <1>3, <1>9, <1>10 DEF Walk

(* What is found is best.                                                  *)
LEMMA FoundIsBest ==
  ASSUME Composed, SearchInv, BestInv, NEW current \in open, IsNext(current),
         ~IsSettled(current.node), current.node = request.goal, NEW result,
         result.failure = None, result.cost = current.g
  PROVE  BestAnswer(planner, surcharge, request, result)
<1> DEFINE walks == AllWalks(Map, surcharge, request.start, request.constraints)
           costs == {walk.cost : walk \in {w \in walks : w.end = request.goal}}
<1>1. current.g = best_cost[request.goal] /\ request.goal \in DOMAIN best_cost
  BY CheapestComesFirst
<1>2. [end |-> request.goal, cost |-> current.g] \in walks
  BY <1>1, WaysAreWalks
<1>3. current.g \in costs
  BY <1>2
<1>4. ASSUME \/ planner.heuristic = "dijkstra" /\ NoneTakesNegativeTime(Map)
             \/ GeometrySupportsHeuristic(Map) /\ NoneOutrunsTheLimit(Map)
      PROVE  \A cost \in costs : current.g <= cost
  <2>1. request.goal \in NodesOf(Map)
    BY RefusalMeans DEF SearchInv
  <2>2. Consistent
    BY <1>4, <2>1, EstimatesAreConsistent
  <2>. QED  BY <2>2, NoWalkIsCheaper
<1>5. None # "no_route" /\ None # "search_limit_reached"
  BY NoneAssumption DEF PlanningFailure
<1>. QED  BY <1>3, <1>4, <1>5 DEF BestAnswer, Map

(* A search that runs out of entries has been everywhere.                  *)
LEMMA ExhaustedIsRight ==
  ASSUME Composed, SearchInv, BestInv, open = {}, NEW result, result.failure = "no_route"
  PROVE  BestAnswer(planner, surcharge, request, result)
<1> DEFINE walks == AllWalks(Map, surcharge, request.start, request.constraints)
           costs == {walk.cost : walk \in {w \in walks : w.end = request.goal}}
           past == Seqs!ToSet(settled)
           Q == {w \in Walk : w.end \in past}
<1>1. request.start \in NodesOf(Map)
  BY RefusalMeans DEF SearchInv
<1>2. /\ request.start \in DOMAIN best_cost /\ DOMAIN best_cost \subseteq past
      /\ LeadsOn(Frontier, past) /\ Frontier.best_cost = best_cost
  <2>1. /\ StartsRight(Frontier, past) /\ NobodyForgotten(Frontier, past)
        /\ Frontier.best_cost = best_cost /\ Frontier.open = {}
    BY DEF SearchInv, FrontInv, Frontier
  <2>. QED  BY <2>1 DEF StartsRight, NobodyForgotten, BestInv
<1>3. request.goal \notin past
  BY DEF SearchInv, SettledInOrder
<1> HIDE DEF past
<1>4. [end |-> request.start, cost |-> 0] \in Q
  BY <1>1, <1>2 DEF Walk
<1>5. ASSUME NEW w \in Q, NEW id \in EdgesOf(Map), NEW v \in NodesOf(Map), Goes(w, id, v)
      PROVE  Longer(w, id, v) \in Q
  <2>1. w.cost \in Int /\ StepCost(id) \in Int
    BY CostsAreNumbers DEF Walk, StepCost
  <2>2. w.cost + StepCost(id) \in Int
    BY <2>1
  <2>3. Allowed(id, w.end, v)
    BY <1>5 DEF Goes, Allowed, AllowsNode
  <2>4. v \in past
    BY <1>2, <2>3 DEF LeadsOn
  <2>. QED  BY <2>2, <2>4 DEF Longer, Walk
<1>6. walks \subseteq Q
  <2> HIDE DEF Q
  <2>. QED  BY <1>1, <1>4, <1>5, WalksWithin
<1>7. costs = {}
  BY <1>3, <1>6
<1>8. "no_route" # None /\ "no_route" # "search_limit_reached"
  BY NoneAssumption DEF PlanningFailure
<1>. QED  BY <1>7, <1>8 DEF BestAnswer, Map

(* The cap is reached only where there are as many nodes to look at.       *)
LEMMA LimitIsReached ==
  ASSUME Composed, SearchInv, NEW current \in open, IsNext(current),
         ~IsSettled(current.node), HitsLimit, NEW result,
         result.failure = "search_limit_reached"
  PROVE  BestAnswer(planner, surcharge, request, result)
<1> DEFINE walks == AllWalks(Map, surcharge, request.start, request.constraints)
           reached == {walk.end : walk \in walks}
           past == Seqs!ToSet(settled)
<1>1. current.node \in DOMAIN best_cost /\ current.node \in NodesOf(Map)
  BY CheapestComesFirst
<1>2. past \subseteq DOMAIN best_cost
  BY DEF SearchInv, FrontInv, StartsRight, Frontier
<1>3. \A v \in DOMAIN best_cost : v \in reached
  <2> SUFFICES ASSUME NEW v \in DOMAIN best_cost PROVE v \in reached
    OBVIOUS
  <2>1. [end |-> v, cost |-> best_cost[v]] \in walks
    BY WaysAreWalks
  <2>. QED  BY <2>1
<1>4. reached \subseteq NodesOf(Map)
  <2>1. request.start \in NodesOf(Map)
    BY RefusalMeans DEF SearchInv
  <2>2. walks \subseteq Walk
    BY <2>1, WalksOverTheMap
  <2>. QED  BY <2>2 DEF Walk
<1> HIDE DEF reached
<1>5. Len(settled) + 1 <= Cardinality(reached) /\ Len(settled) \in Nat
      /\ Cardinality(reached) \in Nat
  <2>1. current.node \notin past /\ past \cup {current.node} \subseteq reached
    BY <1>1, <1>2, <1>3 DEF IsSettled
  <2>. QED  BY <1>1, <1>4, <2>1, OneMoreThanSettled
<1>6. planner.max_expansions \in 1..Cardinality(reached)
  <2>1. planner.max_expansions \in Nat
    BY PlannerAssumption DEF Composed
  <2>2. planner.max_expansions # 0 /\ planner.max_expansions <= Len(settled) + 1
    BY <1>5, <2>1 DEF HitsLimit
  <2>. QED  BY <1>5, <2>1, <2>2
<1>7. "search_limit_reached" # None /\ "search_limit_reached" # "no_route"
  BY NoneAssumption DEF PlanningFailure
<1>. QED  BY <1>6, <1>7 DEF BestAnswer, Map, reached

-----------------------------------------------------------------------------
(* The answers of a planner at work.                                       *)
AnswerIsBest ==
  answer # None /\ Refusal(request) = None =>
    IF request.start = request.goal THEN answer.failure = None /\ answer.cost = 0
    ELSE BestAnswer(planner, surcharge, request, answer)

BestFleetInv == FleetInv /\ (Searching => BestInv) /\ AnswerIsBest

(* A call is refused, is over, or has begun.                               *)
LEMMA CallIsBest ==
  ASSUME NEW req, NEW at, PlanRoute(req, at), answer = None
  PROVE  (Searching => BestInv)' /\ AnswerIsBest'
<1>1. /\ planner' = planner /\ request' = req /\ Map' = Map
      /\ Refusal(request)' = Refusal(req)
  BY DEF PlanRoute, Refusal, Map
<1>2. ASSUME NEW failure \in PlanningFailure
      PROVE  Failed(failure) # None
  <2>1. Failed(failure) \in Answer
    BY <1>2, FailureAnswers
  <2>. QED  BY <2>1, NoneAssumption
<1>3. CASE Refusal(req) # None /\ Answered(Failed(Refusal(req)))
  <2>1. answer' # None
    BY <1>2, <1>3, RefusalsAreFailures DEF Answered
  <2>. QED  BY <1>1, <1>3, <2>1 DEF Searching, AnswerIsBest
<1>4. CASE /\ Refusal(req) = None /\ req.start = req.goal
           /\ Answered(Found(req, [nodes |-> <<req.start>>, edges |-> << >>], 0, at))
  <2> DEFINE result == Found(req, [nodes |-> <<req.start>>, edges |-> << >>], 0, at)
  <2>1. result.failure = None /\ result.cost = 0
    BY DEF Found
  <2>2. answer' = result /\ settled' = << >>
    BY <1>4 DEF Answered, NoFrontier
  <2> HIDE DEF result
  <2>3. AnswerIsBest'
    BY <1>1, <1>4, <2>1, <2>2 DEF AnswerIsBest
  <2>4. BestInv'
    BY <2>2 DEF BestInv, LeadsOn, InTurn, Seqs!ToSet
  <2>. QED  BY <2>3, <2>4
<1>5. CASE settled' = << >> /\ answer' = answer
  <2>1. BestInv'
    BY <1>5 DEF BestInv, LeadsOn, InTurn, Seqs!ToSet
  <2>. QED  BY <1>5, <2>1 DEF AnswerIsBest
<1>. QED  BY <1>3, <1>4, <1>5 DEF PlanRoute

(* A turn of the loop: the entry of a settled node goes, a node is         *)
(* settled, or the search is over.                                         *)
LEMMA SearchIsBest ==
  ASSUME Composed, SearchInv, BestInv, Search
  PROVE  (Searching => BestInv)' /\ AnswerIsBest'
<1>1. Searching /\ answer = None
  BY DEF Search, Exhaust, Discard, Settle, Searching
<1>2. ASSUME UNCHANGED <<planner, surcharge, request>>, NEW result,
             BestAnswer(planner, surcharge, request, result), Answered(result)
      PROVE  (Searching => BestInv)' /\ AnswerIsBest'
  <2>1. /\ Refusal(request)' = Refusal(request) /\ request.start # request.goal
        /\ answer' = result /\ settled' = << >>
    BY <1>2 DEF Refusal, Map, SearchInv, Answered, NoFrontier
  <2>2. AnswerIsBest'
    BY <1>2, <2>1 DEF AnswerIsBest
  <2>3. BestInv'
    BY <2>1 DEF BestInv, LeadsOn, InTurn, Seqs!ToSet
  <2>. QED  BY <2>2, <2>3
<1>3. CASE Exhaust
  <2>1. Failed("no_route").failure = "no_route"
    BY DEF Failed
  <2>. QED  BY <1>2, <1>3, <2>1, ExhaustedIsRight DEF Exhaust
<1>4. ASSUME NEW current \in open, Discard(current)
      PROVE  (Searching => BestInv)' /\ AnswerIsBest'
  <2> DEFINE front == [Frontier EXCEPT !.open = @ \ {current}]
             done == Seqs!ToSet(settled)
  <2>1. /\ UNCHANGED <<planner, surcharge, request>> /\ answer' = answer
        /\ settled' = settled
    BY <1>4 DEF Discard
  <2>2. Frontier' = front
    BY <1>4 DEF Discard, Frontier
  <2>3. LeadsOn(front, done) /\ InTurn(front, done)
    <3>1. /\ front.best_cost = Frontier.best_cost /\ front.open \subseteq Frontier.open
          /\ LeadsOn(Frontier, done) /\ InTurn(Frontier, done)
      BY DEF Frontier, BestInv
    <3> HIDE DEF front, done
    <3>. QED  BY <3>1 DEF LeadsOn, InTurn
  <2> HIDE DEF front
  <2>4. BestInv'
    BY <2>1, <2>2, <2>3, BestStays
  <2>. QED  BY <1>1, <2>1, <2>4 DEF AnswerIsBest
<1>5. ASSUME NEW current \in open, Settle(current)
      PROVE  (Searching => BestInv)' /\ AnswerIsBest'
  <2>1. /\ UNCHANGED <<planner, surcharge, request>>
        /\ IsNext(current) /\ ~IsSettled(current.node)
    BY <1>5 DEF Settle
  <2>2. CASE /\ current.node = request.goal
             /\ Answered(Found(request, WayBack, current.g, called_at))
    <3> DEFINE result == Found(request, WayBack, current.g, called_at)
    <3>1. result.failure = None /\ result.cost = current.g
      BY DEF Found
    <3> HIDE DEF result
    <3>2. BestAnswer(planner, surcharge, request, result)
      BY <2>1, <2>2, <3>1, FoundIsBest
    <3>. QED  BY <1>2, <2>1, <2>2, <3>2 DEF result
  <2>3. CASE HitsLimit /\ Answered(Failed("search_limit_reached"))
    <3>1. Failed("search_limit_reached").failure = "search_limit_reached"
      BY DEF Failed
    <3>. QED  BY <1>2, <2>1, <2>3, <3>1, LimitIsReached
  <2>4. CASE /\ \E after \in Expanded([Frontier EXCEPT !.open = @ \ {current}], current,
                                      TraversableEdges(Map, current.node)) :
                  /\ best_cost' = after.best_cost
                  /\ came_from' = after.came_from
                  /\ open' = after.open
             /\ settled' = Append(settled, current.node)
             /\ UNCHANGED <<route_sequence, answer>>
    <3> DEFINE done == Seqs!ToSet(settled) \cup {current.node}
    <3>1. PICK after \in Expanded(Popped(current), current,
                                  TraversableEdges(Map, current.node)) :
            /\ best_cost' = after.best_cost /\ came_from' = after.came_from
            /\ open' = after.open
      BY <2>4 DEF Popped
    <3>2. LeadsOn(after, done) /\ InTurn(after, done)
      BY <2>1, <3>1, ExpandedLeadsOn
    <3>3. Frontier' = after
      <4>1. after \in Front
        BY <2>1, <3>1, ExpandedKeeps DEF Expands
      <4>2. after = [best_cost |-> after.best_cost, came_from |-> after.came_from,
                     open |-> after.open]
        BY <4>1 DEF Front
      <4>. QED  BY <3>1, <4>2 DEF Frontier
    <3>4. Seqs!ToSet(settled') = done
      <4>1. settled \in Seq(NodesOf(Map)) /\ current.node \in NodesOf(Map)
        BY <2>1, CheapestComesFirst DEF SearchInv, SettledInOrder
      <4>. QED  BY <2>4, <4>1, AppendedTo
    <3> HIDE DEF done
    <3>5. BestInv'
      BY <2>1, <3>2, <3>3, <3>4, BestStays
    <3>. QED  BY <1>1, <2>4, <3>5 DEF AnswerIsBest
  <2>. QED  BY <1>5, <2>2, <2>3, <2>4 DEF Settle
<1>. QED  BY <1>3, <1>4, <1>5 DEF Search

(* A step that leaves the search and its answer alone, or takes it away.   *)
LEMMA OthersAreBest ==
  ASSUME Searching => SearchInv, Searching => BestInv, AnswerIsBest,
         answer # None => request # None,
         \/ UNCHANGED <<planner, surcharge, request, answer, frontier>>
         \/ answer' = None /\ request' = None
  PROVE  (Searching => BestInv)' /\ AnswerIsBest'
<1>1. CASE answer' = None /\ request' = None
  BY <1>1 DEF Searching, AnswerIsBest
<1>2. CASE UNCHANGED <<planner, surcharge, request, answer, frontier>>
  <2>1. /\ Refusal(request)' = Refusal(request) /\ Frontier' = Frontier
        /\ settled' = settled /\ answer' = answer /\ request' = request
    BY <1>2 DEF Refusal, Map, frontier, Frontier
  <2>2. AnswerIsBest'
    BY <1>2, <2>1 DEF AnswerIsBest
  <2>3. Searching => BestInv'
    BY <1>2, <2>1, BestStays DEF BestInv
  <2>. QED  BY <2>1, <2>2, <2>3 DEF Searching
<1>. QED  BY <1>1, <1>2

LEMMA BestFleetInvHolds == FleetSpec => []BestFleetInv
<1>1. FleetInit => (Searching => BestInv) /\ AnswerIsBest
  BY DEF FleetInit, Searching, AnswerIsBest
<1>2. /\ FleetInv /\ (Searching => BestInv) /\ AnswerIsBest /\ [FleetNext]_fleetVars
      => ((Searching => BestInv) /\ AnswerIsBest)'
  <2> SUFFICES ASSUME FleetInv, Searching => BestInv, AnswerIsBest, [FleetNext]_fleetVars
               PROVE  (Searching => BestInv)' /\ AnswerIsBest'
    OBVIOUS
  <2>1. /\ Composed /\ (answer # None => request # None) /\ (Searching => SearchInv)
    BY DEF FleetInv, FleetTyped, CallsFit
  <2>2. CASE PlanNext
    <3>1. PICK at : PlanRoute(batch.routes[Len(outcomes) + 1], at)
      BY <2>2 DEF PlanNext, CallPlanner
    <3>2. answer = None
      BY <2>1, <3>1 DEF PlanRoute
    <3>. QED  BY <3>1, <3>2, CallIsBest
  <2>3. ASSUME NEW robot \in Robot, NEW constraints \in Closures, Replan(robot, constraints)
        PROVE  (Searching => BestInv)' /\ AnswerIsBest'
    <3>1. PICK req, at : PlanRoute(req, at)
      BY <2>3 DEF Replan, CallPlanner
    <3>2. answer = None
      BY <2>1, <3>1 DEF PlanRoute
    <3>. QED  BY <3>1, <3>2, CallIsBest
  <2>4. CASE SearchOn
    <3>1. Search /\ Searching
      BY <2>4 DEF SearchOn, Search, Exhaust, Discard, Settle
    <3>. QED  BY <2>1, <3>1, SearchIsBest
  <2>5. CASE RecordOutcome \/ Decide
    <3>1. answer' = None /\ request' = None
      BY <2>5 DEF RecordOutcome, Decide, Return
    <3>. QED  BY <2>1, <3>1, OthersAreBest
  <2>6. CASE TrafficChanges
    <3>1. answer' = None /\ request' = None
      BY <2>1, <2>6 DEF TrafficChanges, Idle
    <3>. QED  BY <2>1, <3>1, OthersAreBest
  <2>7. CASE UNCHANGED <<planner, surcharge, request, answer, frontier>>
    BY <2>1, <2>7, OthersAreBest
  <2>8. ASSUME \/ GiveUp \/ Finish \/ Adopt \/ Tick \/ UNCHANGED fleetVars
               \/ \E b \in Batches : Submit(b)
               \/ \E robot \in Robot : Drive(robot)
        PROVE  UNCHANGED <<planner, surcharge, request, answer, frontier>>
    BY <2>8 DEF GiveUp, Finish, Adopt, Tick, Submit, Drive, fleetVars, searchVars
  <2>. QED  BY <2>2, <2>3, <2>4, <2>5, <2>6, <2>7, <2>8 DEF FleetNext, Plan
<1>. QED  BY <1>1, <1>2, FleetInvHolds, PTL DEF FleetSpec, BestFleetInv

(* No allowed way is cheaper than the one that is answered, with the zero  *)
(* heuristic where no edge takes less than no time, or with straight lines *)
(* where they are as cheap as they look; on any map, where no route is     *)
(* answered there is none, and the cap turns nothing down while it leaves  *)
(* a node to look at (plan_route, search).                                 *)
THEOREM NobodyKnowsABetterWay == FleetSpec => []AnswersAreBest
<1>1. BestFleetInv => AnswersAreBest
  <2> SUFFICES ASSUME BestFleetInv, answer # None, Refusal(request) = None
               PROVE  BestAnswer(planner, surcharge, request, answer)
    BY AnswersAreBestMeans
  <2>1. CASE request.start = request.goal
    BY <2>1, StayingIsBest DEF BestFleetInv, AnswerIsBest, FleetInv, FleetTyped
  <2>2. CASE request.start # request.goal
    BY <2>2 DEF BestFleetInv, AnswerIsBest
  <2>. QED  BY <2>1, <2>2
<1>. QED  BY <1>1, BestFleetInvHolds, PTL
=============================================================================
