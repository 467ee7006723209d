----------------------- MODULE ConflictDetectorProofs -----------------------
(***************************************************************************)
(* Theorems about the conflict rules and the conflict detector, for every  *)
(* map, fleet, threshold and margin.  In this order:                       *)
(*                                                                         *)
(*   - the rules: what is_capacity_conflict means, and that descriptions   *)
(*     of one contention are totally ordered;                              *)
(*   - lists: what reading a list, and reducing one, leave of its order;   *)
(*   - readings and passes, as sets: what claims there are, and what is    *)
(*     said of which two of them (CandidateSet);                           *)
(*   - the answer: it is the one table of the best of what is said         *)
(*     (IsTable), and so has no order and loses nothing to more traffic;   *)
(*   - contention: whoever crowds a place is told to;                      *)
(*   - false alarms: whoever is told to is there, and crowds it;           *)
(*   - exclusion: what waiting does not solve is named for what it is.     *)
(***************************************************************************)
EXTENDS ConflictDetector, FiniteSetFacts, SequenceTheorems

-----------------------------------------------------------------------------
(* The rules.                                                              *)

(* Finitely many claims leave finitely many robots in a place, and        *)
(* finitely many arrivals there.                                           *)
LEMMA FiniteRobots ==
  ASSUME NEW holders, IsFiniteSet(holders), NEW resource, NEW t
  PROVE  /\ IsFiniteSet(DistinctRobotsAt(holders, resource, t))
         /\ Cardinality(DistinctRobotsAt(holders, resource, t)) \in Nat
<1> DEFINE there == {g \in holders : g.resource = resource /\ Contains(g.window, t)}
           owner == [h \in there |-> h.robot]
<1>1. IsFiniteSet(there)
  BY FS_Subset
<1>2. DistinctRobotsAt(holders, resource, t) = {owner[h] : h \in there}
  BY DEF DistinctRobotsAt
<1>3. IsFiniteSet({owner[h] : h \in there})
  <2>. HIDE DEF there, owner
  <2>. QED  BY <1>1, FiniteRange
<1>. QED  BY <1>2, <1>3, FS_CardinalityType

(* Two robots hold the place at an instant that both claims contain.       *)
LEMMA BothAreThere ==
  ASSUME NEW holders, IsFiniteSet(holders),
         NEW a \in holders, NEW b \in holders, a.robot # b.robot,
         a.resource = b.resource,
         NEW t, Contains(a.window, t), Contains(b.window, t)
  PROVE  /\ IsFiniteSet(DistinctRobotsAt(holders, a.resource, t))
         /\ Cardinality(DistinctRobotsAt(holders, a.resource, t)) \in Nat
         /\ Cardinality(DistinctRobotsAt(holders, a.resource, t)) > 1
<1> DEFINE R == DistinctRobotsAt(holders, a.resource, t)
<1>1. IsFiniteSet(R)
  BY FiniteRobots
<1>2. {a.robot, b.robot} \subseteq R
  BY DEF DistinctRobotsAt
<1>3. Cardinality({a.robot, b.robot}) = 2
  <2>1. IsFiniteSet({a.robot}) /\ Cardinality({a.robot}) = 1
    BY FS_Singleton
  <2>2. Cardinality({a.robot} \cup {b.robot}) = Cardinality({a.robot}) + 1
    BY <2>1, FS_AddElement
  <2>3. {a.robot} \cup {b.robot} = {a.robot, b.robot}
    OBVIOUS
  <2>. QED  BY <2>1, <2>2, <2>3
<1>4. Cardinality({a.robot, b.robot}) <= Cardinality(R) /\ Cardinality(R) \in Nat
  BY <1>1, <1>2, FS_Subset, FS_CardinalityType
<1>. QED  BY <1>1, <1>3, <1>4

(* The instants two overlapping windows share are those of overlap_of.     *)
LEMMA SharedSpan ==
  ASSUME NEW v, NEW w, v.start \in Int, v.end \in Int, w.start \in Int, w.end \in Int
  PROVE  /\ OverlapOf(v, w).start \in Int /\ OverlapOf(v, w).end \in Int
         /\ \A t \in Int : Contains(OverlapOf(v, w), t) <=>
                             Contains(v, t) /\ Contains(w, t)
         /\ Overlaps(v, w) /\ v.start < v.end /\ w.start < w.end
              => Contains(OverlapOf(v, w), OverlapOf(v, w).start)
BY DEF OverlapOf, Window, Contains, Overlaps

(* Where the occupancy of a place is too high at some shared instant, it   *)
(* is too high at the last arrival before it, one of the few instants that *)
(* is_capacity_conflict looks at.                                          *)
LEMMA SomeSampleIsOverfull ==
  ASSUME NEW holders, IsFiniteSet(holders), NEW resource, NEW capacity \in Nat,
         \A h \in holders : h.window.start \in Int /\ h.window.end \in Int,
         NEW shared, shared.start \in Int, shared.end \in Int,
         NEW t \in Int, Contains(shared, t),
         Cardinality(DistinctRobotsAt(holders, resource, t)) > capacity
  PROVE  \E s \in SharedInstants(shared, holders, resource) :
           Cardinality(DistinctRobotsAt(holders, resource, s)) > capacity
<1> DEFINE there  == {h \in holders : h.resource = resource /\ Contains(h.window, t)}
           start  == [h \in there |-> h.window.start]
           starts == {start[h] : h \in there}
           S      == starts \cup {shared.start}
<1>1. IsFiniteSet(there)
  BY FS_Subset
<1>2. IsFiniteSet(S)
  <2>1. IsFiniteSet(starts)
    <3>. HIDE DEF there, start
    <3>. QED  BY <1>1, FiniteRange
  <2>. QED  BY <2>1, FS_AddElement
<1>3. S \subseteq Int /\ S # {}
  OBVIOUS
<1>4. PICK s \in S : \A x \in S : x <= s
  BY <1>2, <1>3, LatestInstant
<1>5. s \in Int /\ shared.start <= s /\ \A h \in there : h.window.start <= s
  BY <1>3, <1>4
<1>6. s <= t
  BY DEF Contains
<1>7. Contains(shared, s)
  BY <1>5, <1>6 DEF Contains
<1>8. s \in SharedInstants(shared, holders, resource)
  BY <1>7 DEF SharedInstants
<1>9. DistinctRobotsAt(holders, resource, t) \subseteq DistinctRobotsAt(holders, resource, s)
  <2>1. \A h \in there : Contains(h.window, s)
    BY <1>5, <1>6 DEF Contains
  <2>. QED  BY <2>1 DEF DistinctRobotsAt
<1>10. Cardinality(DistinctRobotsAt(holders, resource, s)) > capacity
  <2>1. /\ Cardinality(DistinctRobotsAt(holders, resource, t)) \in Nat
        /\ Cardinality(DistinctRobotsAt(holders, resource, s)) \in Nat
        /\ Cardinality(DistinctRobotsAt(holders, resource, t))
             <= Cardinality(DistinctRobotsAt(holders, resource, s))
    BY <1>9, FiniteRobots, FS_Subset, FS_CardinalityType
  <2>. QED  BY <2>1
<1>. QED  BY <1>8, <1>10

(* is_capacity_conflict is exact: of two claims on one place by different  *)
(* robots it says that there is an instant both contain at which the place *)
(* holds more robots than it has room for, although it looks only at the   *)
(* moments of arrival, and at a place for one looks at nothing but the     *)
(* overlap.                                                                *)
THEOREM CapacityConflictIsExact ==
  ASSUME NEW holders, IsFiniteSet(holders), NEW a \in holders, NEW b \in holders,
         \A h \in holders :
           h.window.start \in Int /\ h.window.end \in Int /\ IsWindow(h.window),
         NEW capacity \in Nat,
         a.robot # b.robot, a.resource # None, a.resource = b.resource
  PROVE  IsCapacityConflict(a, b, holders, capacity)
           <=> \E t \in Int :
                 /\ Contains(a.window, t) /\ Contains(b.window, t)
                 /\ Cardinality(DistinctRobotsAt(holders, a.resource, t)) > capacity
<1> DEFINE shared == OverlapOf(a.window, b.window)
           Crowded(t) == Cardinality(DistinctRobotsAt(holders, a.resource, t)) > capacity
<1>1. /\ shared.start \in Int /\ shared.end \in Int
      /\ \A t \in Int : Contains(shared, t) <=> Contains(a.window, t) /\ Contains(b.window, t)
      /\ Overlaps(a.window, b.window) => Contains(shared, shared.start)
  BY SharedSpan DEF IsWindow
<1>2. ASSUME IsCapacityConflict(a, b, holders, capacity)
      PROVE  \E t \in Int : Contains(a.window, t) /\ Contains(b.window, t) /\ Crowded(t)
  <2>1. Overlaps(a.window, b.window)
    BY <1>2 DEF IsCapacityConflict, IsTemporalConflict
  <2>2. CASE capacity <= 1
    <3>1. Contains(a.window, shared.start) /\ Contains(b.window, shared.start)
      BY <1>1, <2>1
    <3>2. Crowded(shared.start)
      BY <2>2, <3>1, BothAreThere
    <3>. QED  BY <1>1, <3>1, <3>2
  <2>3. CASE ~(capacity <= 1)
    <3>1. PICK t \in SharedInstants(shared, holders, a.resource) : Crowded(t)
      BY <1>2, <2>3 DEF IsCapacityConflict
    <3>2. t \in Int /\ Contains(shared, t)
      BY <1>1, <2>1 DEF SharedInstants
    <3>. QED  BY <1>1, <3>1, <3>2
  <2>. QED  BY <2>2, <2>3
<1>3. ASSUME NEW t \in Int, Contains(a.window, t), Contains(b.window, t), Crowded(t)
      PROVE  IsCapacityConflict(a, b, holders, capacity)
  <2>1. Overlaps(a.window, b.window)
    BY <1>3 DEF Contains, Overlaps
  <2>2. IsTemporalConflict(a, b)
    BY <2>1 DEF IsTemporalConflict
  <2>3. Contains(shared, t)
    BY <1>1, <1>3
  <2>4. \E s \in SharedInstants(shared, holders, a.resource) : Crowded(s)
    BY <1>1, <1>3, <2>3, SomeSampleIsOverfull
  <2>. QED  BY <2>2, <2>4 DEF IsCapacityConflict
<1>. QED  BY <1>2, <1>3
-----------------------------------------------------------------------------
(* Reducing candidates.                                                    *)

(* What may be said of two robots and a place.                             *)
Descriptions(Place) ==
  [robot_a : Int, robot_b : Int, resource : Place, type : ConflictType,
   overlap : [start : Int, end : Int]]

LEMMA PrecedenceOrdersTypes ==
  /\ \A type \in ConflictType : Precedence(type) \in Int
  /\ \A type, other \in ConflictType :
       Precedence(type) = Precedence(other) => type = other
<1>1. /\ Precedence("temporal") = 0 /\ Precedence("resource") = 1
      /\ Precedence("node") = 2 /\ Precedence("edge") = 3
      /\ Precedence("corridor") = 4 /\ Precedence("crossing") = 5
      /\ Precedence("head_on") = 6
  BY DEF Precedence
<1>. QED  BY <1>1 DEF ConflictType

(* is_better_description is a strict total order on what is said of one    *)
(* contention: nothing beats itself, and of two that differ one is better. *)
LEMMA BetterIsATotalOrder ==
  ASSUME NEW Place, NEW b \in Descriptions(Place), NEW c \in Descriptions(Place),
         NEW d \in Descriptions(Place)
  PROVE  /\ ~IsBetterDescription(c, c)
         /\ IsBetterDescription(b, c) /\ IsBetterDescription(c, d)
              => IsBetterDescription(b, d)
         /\ \/ IsBetterDescription(c, d) \/ IsBetterDescription(d, c)
            \/ c.type = d.type /\ c.overlap = d.overlap
<1>1. \A e \in {b, c, d} :
        /\ e.type \in ConflictType /\ Precedence(e.type) \in Int
        /\ e.overlap \in [start : Int, end : Int]
        /\ e.overlap.start \in Int /\ e.overlap.end \in Int
  BY PrecedenceOrdersTypes DEF Descriptions
<1>2. ~IsBetterDescription(c, c)
  BY <1>1 DEF IsBetterDescription
<1>3. IsBetterDescription(b, c) /\ IsBetterDescription(c, d) => IsBetterDescription(b, d)
  BY <1>1 DEF IsBetterDescription
<1>4. \/ IsBetterDescription(c, d) \/ IsBetterDescription(d, c)
      \/ c.type = d.type /\ c.overlap = d.overlap
  <2>1. ASSUME ~IsBetterDescription(c, d), ~IsBetterDescription(d, c)
        PROVE  /\ Precedence(c.type) = Precedence(d.type)
               /\ c.overlap.start = d.overlap.start
               /\ c.overlap.end = d.overlap.end
    BY <1>1, <2>1 DEF IsBetterDescription
  <2>. QED  BY <1>1, <2>1, PrecedenceOrdersTypes
<1>. QED  BY <1>2, <1>3, <1>4

(* Two descriptions of one contention that say the same are the same.      *)
LEMMA SaidTheSame ==
  ASSUME NEW Place, NEW c \in Descriptions(Place), NEW d \in Descriptions(Place),
         KeyOfContention(c) = KeyOfContention(d), c.type = d.type, c.overlap = d.overlap
  PROVE  c = d
BY DEF Descriptions, KeyOfContention

(* NFR-003, one exchange at a time: it does not matter in which of two     *)
(* orders reduce meets two candidates, whatever it has kept before.  So no *)
(* order of the passes, of the routes or of the reservations shows in the  *)
(* answer.                                                                 *)
THEOREM OrderOfCandidatesIsLost ==
  ASSUME NEW Place, NEW K, NEW best \in [K -> Descriptions(Place)],
         NEW c \in Descriptions(Place), NEW d \in Descriptions(Place)
  PROVE  Keep(Keep(best, c), d) = Keep(Keep(best, d), c)
<1> DEFINE cd == Keep(Keep(best, c), d)
           dc == Keep(Keep(best, d), c)
           kc == KeyOfContention(c)
           kd == KeyOfContention(d)
<1>1. /\ DOMAIN Keep(best, c) = K \cup {kc} /\ DOMAIN Keep(best, d) = K \cup {kd}
      /\ DOMAIN cd = K \cup {kc, kd} /\ DOMAIN dc = K \cup {kc, kd}
  BY DEF Keep
<1>2. ASSUME NEW key \in K \cup {kc, kd}, kc # kd
      PROVE  cd[key] = dc[key]
  BY <1>1, <1>2 DEF Keep
<1>3. ASSUME NEW key \in K \cup {kc, kd}, kc = kd, key # kc
      PROVE  cd[key] = dc[key]
  BY <1>1, <1>3 DEF Keep
<1>4. ASSUME kc = kd PROVE cd[kc] = dc[kc]
  <2> DEFINE Better(x, y) == IsBetterDescription(x, y)
  <2>1. Better(c, d) \/ Better(d, c) \/ c = d
    BY <1>4, BetterIsATotalOrder, SaidTheSame
  <2>2. ~(Better(c, d) /\ Better(d, c))
    BY BetterIsATotalOrder
  <2>3. CASE kc \notin K
    <3>1. Keep(best, c)[kc] = c /\ Keep(best, d)[kc] = d
      BY <1>4, <2>3 DEF Keep
    <3>2. /\ cd[kc] = (IF Better(d, c) THEN d ELSE c)
          /\ dc[kc] = (IF Better(c, d) THEN c ELSE d)
      BY <1>1, <1>4, <3>1 DEF Keep
    <3>. QED  BY <2>1, <2>2, <3>2
  <2>4. CASE kc \in K
    <3> DEFINE kept == best[kc]
    <3>1. kept \in Descriptions(Place)
      BY <2>4
    <3>2. /\ Keep(best, c)[kc] = (IF Better(c, kept) THEN c ELSE kept)
          /\ Keep(best, d)[kc] = (IF Better(d, kept) THEN d ELSE kept)
      BY <1>4, <2>4 DEF Keep
    <3>3. /\ cd[kc] = (IF Better(d, Keep(best, c)[kc]) THEN d ELSE Keep(best, c)[kc])
          /\ dc[kc] = (IF Better(c, Keep(best, d)[kc]) THEN c ELSE Keep(best, d)[kc])
      BY <1>1, <1>4 DEF Keep
    <3>4. /\ Better(c, d) /\ Better(d, kept) => Better(c, kept)
          /\ Better(d, c) /\ Better(c, kept) => Better(d, kept)
      BY <3>1, BetterIsATotalOrder
    <3>. HIDE DEF Better, kept
    <3>5. CASE c = d
      BY <3>2, <3>3, <3>5
    <3>6. CASE Better(c, d)
      BY <2>2, <3>2, <3>3, <3>4, <3>6
    <3>7. CASE Better(d, c)
      BY <2>2, <3>2, <3>3, <3>4, <3>7
    <3>. QED  BY <2>1, <3>5, <3>6, <3>7
  <2>. QED  BY <2>3, <2>4
<1>5. \A key \in K \cup {kc, kd} : cd[key] = dc[key]
  BY <1>2, <1>3, <1>4
<1>6. cd = [key \in K \cup {kc, kd} |-> cd[key]] /\ dc = [key \in K \cup {kc, kd} |-> dc[key]]
  BY <1>1 DEF Keep
<1>. QED  BY <1>5, <1>6

(* A candidate adds its contention or makes what is told of it say more.   *)
(* It takes nothing away.                                                  *)
THEOREM CandidatesOnlyAdd ==
  ASSUME NEW Place, NEW K, NEW best \in [K -> Descriptions(Place)],
         NEW c \in Descriptions(Place)
  PROVE  /\ K \subseteq DOMAIN Keep(best, c)
         /\ KeyOfContention(c) \in DOMAIN Keep(best, c)
         /\ \A key \in K :
              Precedence(Keep(best, c)[key].type) >= Precedence(best[key].type)
         /\ ~IsBetterDescription(c, Keep(best, c)[KeyOfContention(c)])
<1>1. DOMAIN Keep(best, c) = K \cup {KeyOfContention(c)}
  BY DEF Keep
<1>2. ASSUME NEW key \in K
      PROVE  Precedence(Keep(best, c)[key].type) >= Precedence(best[key].type)
  <2>1. Precedence(best[key].type) \in Int /\ Precedence(c.type) \in Int
    BY PrecedenceOrdersTypes DEF Descriptions
  <2>2. \/ Keep(best, c)[key] = best[key]
        \/ Keep(best, c)[key] = c /\ IsBetterDescription(c, best[key])
    BY DEF Keep
  <2>. QED  BY <2>1, <2>2 DEF IsBetterDescription
<1>3. ~IsBetterDescription(c, Keep(best, c)[KeyOfContention(c)])
  <2>1. ~IsBetterDescription(c, c)
    BY BetterIsATotalOrder
  <2>. QED  BY <2>1 DEF Keep
<1>. QED  BY <1>1, <1>2, <1>3
-----------------------------------------------------------------------------
(* As the clock runs a conflict gets no less severe, also once the meeting *)
(* has begun, and one that is head on is never of low severity.            *)
THEOREM WarningOnlyShrinks ==
  ASSUME NEW type, NEW overlap, overlap.start \in Int,
         NEW early \in Int, NEW later \in Int, early <= later
  PROVE  LET before == SeverityFor(type, overlap, early)
             after  == SeverityFor(type, overlap, later)
         IN  /\ before \in Severity
             /\ before = "high" => after = "high"
             /\ before = "medium" => after \in {"medium", "high"}
             /\ type = "head_on" => before # "low"
BY ThresholdAssumption DEF SeverityFor, Severity
-----------------------------------------------------------------------------
(* Lists.  What a pass does to a list, in terms of what is in it.          *)
Listed(list) == Seqs!ToSet(list)

LEMMA AppendListed ==
  ASSUME NEW V, NEW list \in Seq(V), NEW x \in V
  PROVE  /\ Append(list, x) \in Seq(V)
         /\ Listed(Append(list, x)) = Listed(list) \cup {x}
<1>1. /\ Append(list, x) \in Seq(V) /\ Len(Append(list, x)) = Len(list) + 1
      /\ \A i \in 1..Len(list) : Append(list, x)[i] = list[i]
      /\ Append(list, x)[Len(list) + 1] = x
  BY AppendProperties
<1>2. /\ Len(list) \in Nat /\ DOMAIN list = 1..Len(list)
      /\ DOMAIN Append(list, x) = 1..(Len(list) + 1)
  BY <1>1, LenProperties
<1>3. 1..(Len(list) + 1) = 1..Len(list) \cup {Len(list) + 1}
  BY <1>2
<1>. QED  BY <1>1, <1>2, <1>3 DEF Listed, Seqs!ToSet

Choosing(list, kept) ==
  CHOOSE chosen :
    chosen = [n \in 0..Len(list) |->
                IF n = 0 THEN << >>
                ELSE IF list[n] \in kept THEN Append(chosen[n - 1], list[n])
                ELSE chosen[n - 1]]

LEMMA WhereChooses ==
  ASSUME NEW list, NEW kept
  PROVE  Where(list, kept) = Choosing(list, kept)[Len(list)]
BY DEF Where, Choosing

(* Where keeps what it should and nothing else.                            *)
LEMMA WhereKeeps ==
  ASSUME NEW V, NEW list \in Seq(V), NEW kept
  PROVE  /\ Where(list, kept) \in Seq(V)
         /\ Listed(Where(list, kept)) = Listed(list) \cap kept
<1> DEFINE n == Len(list)
           step == [x \in Seq(V) \X (1..n) |->
                      IF list[x[2]] \in kept THEN Append(x[1], list[x[2]]) ELSE x[1]]
           chosen == Choosing(list, kept)
<1>1. n \in Nat /\ DOMAIN list = 1..n /\ \A k \in 1..n : list[k] \in V
  BY LenProperties, ElementOfSeq
<1>2. step \in [Seq(V) \X (1..n) -> Seq(V)] /\ << >> \in Seq(V)
  BY <1>1
<1>3. \A s \in Seq(V), k \in 1..n :
        step[<<s, k>>] = IF list[k] \in kept THEN Append(s, list[k]) ELSE s
  OBVIOUS
<1> HIDE DEF step
<1>4. PICK f : IsIteration(f, n, Seq(V), << >>, step)
  BY <1>1, <1>2, IterationExists
<1>5. f = [k \in 0..n |->
             IF k = 0 THEN << >>
             ELSE IF list[k] \in kept THEN Append(f[k - 1], list[k])
             ELSE f[k - 1]]
  <2>1. ASSUME NEW k \in 1..n
        PROVE  f[k] = IF list[k] \in kept THEN Append(f[k - 1], list[k]) ELSE f[k - 1]
    <3>1. f[k - 1] \in Seq(V)
      BY <1>1, <1>4 DEF IsIteration
    <3>. QED  BY <1>3, <1>4, <3>1 DEF IsIteration
  <2>2. f \in [0..n -> Seq(V)] /\ f[0] = << >>
    BY <1>4 DEF IsIteration
  <2>3. \A k \in 0..n : k # 0 => k \in 1..n
    BY <1>1
  <2> HIDE DEF n
  <2>. QED  BY <2>1, <2>2, <2>3
<1>6. chosen = [k \in 0..n |->
                  IF k = 0 THEN << >>
                  ELSE IF list[k] \in kept THEN Append(chosen[k - 1], list[k])
                  ELSE chosen[k - 1]]
  BY <1>5 DEF Choosing
<1> HIDE DEF chosen
<1> DEFINE P == {k \in 0..n : /\ chosen[k] \in Seq(V)
                              /\ Listed(chosen[k]) = {list[i] : i \in 1..k} \cap kept}
<1>7. 0 \in P
  <2>1. chosen[0] = << >>
    BY <1>1, <1>6
  <2>2. 1..0 = {}
    OBVIOUS
  <2>3. Listed(<< >>) = {}
    BY DEF Listed, Seqs!ToSet
  <2>4. 0 \in 0..n /\ << >> \in Seq(V) /\ {list[i] : i \in 1..0} = {}
    BY <1>1, <2>2
  <2>. QED  BY <2>1, <2>3, <2>4
<1>8. ASSUME NEW k \in 1..n, k - 1 \in P
      PROVE  k \in P
  <2>1. /\ chosen[k - 1] \in Seq(V)
        /\ Listed(chosen[k - 1]) = {list[i] : i \in 1..(k - 1)} \cap kept
    BY <1>8
  <2>2. {list[i] : i \in 1..k} = {list[i] : i \in 1..(k - 1)} \cup {list[k]}
    <3>1. 1..k = 1..(k - 1) \cup {k}
      BY <1>1
    <3>. QED  BY <3>1
  <2>3. chosen[k] = IF list[k] \in kept THEN Append(chosen[k - 1], list[k])
                    ELSE chosen[k - 1]
    <3>1. k \in 0..n /\ k # 0
      BY <1>1
    <3> HIDE DEF n
    <3>. QED  BY <1>6, <3>1
  <2>4. CASE list[k] \in kept
    <3>1. list[k] \in V
      BY <1>1
    <3>2. /\ Append(chosen[k - 1], list[k]) \in Seq(V)
          /\ Listed(Append(chosen[k - 1], list[k])) = Listed(chosen[k - 1]) \cup {list[k]}
      BY <2>1, <3>1, AppendListed
    <3>3. k \in 0..n
      BY <1>1
    <3>4. Listed(chosen[k]) = {list[i] : i \in 1..k} \cap kept
      BY <2>1, <2>2, <2>3, <2>4, <3>2
    <3>. QED  BY <2>3, <2>4, <3>2, <3>3, <3>4
  <2>5. CASE list[k] \notin kept
    <3>1. k \in 0..n
      BY <1>1
    <3>2. chosen[k] = chosen[k - 1]
      BY <2>3, <2>5
    <3>. QED  BY <2>1, <2>2, <2>5, <3>1, <3>2
  <2>. QED  BY <2>4, <2>5
<1>9. n \in P
  <2> HIDE DEF P
  <2>1. 0..n \subseteq P
    BY <1>1, <1>7, <1>8, InductionUpTo
  <2>. QED  BY <1>1, <2>1
<1>10. Listed(list) = {list[i] : i \in 1..n}
  BY <1>1 DEF Listed, Seqs!ToSet
<1>11. chosen[n] = Where(list, kept)
  BY WhereChooses DEF chosen
<1> HIDE DEF n
<1>. QED  BY <1>9, <1>10, <1>11

LEMMA ConcatListed ==
  ASSUME NEW V, NEW s \in Seq(V), NEW u \in Seq(V)
  PROVE  s \o u \in Seq(V) /\ Listed(s \o u) = Listed(s) \cup Listed(u)
<1> DEFINE m == Len(s)
           n == Len(u)
           both == s \o u
<1>1. /\ both \in Seq(V) /\ Len(both) = m + n
      /\ \A i \in 1..(m + n) : both[i] = IF i <= m THEN s[i] ELSE u[i - m]
  BY ConcatProperties
<1>2. /\ m \in Nat /\ n \in Nat
      /\ DOMAIN s = 1..m /\ DOMAIN u = 1..n /\ DOMAIN both = 1..(m + n)
  BY <1>1, LenProperties
<1> HIDE DEF m, n, both
<1>3. ASSUME NEW x \in Listed(s) PROVE x \in Listed(both)
  <2>1. PICK i \in 1..m : x = s[i]
    BY <1>2 DEF Listed, Seqs!ToSet
  <2>2. i \in 1..(m + n) /\ i <= m
    BY <1>2
  <2>. QED  BY <1>1, <1>2, <2>1, <2>2 DEF Listed, Seqs!ToSet
<1>4. ASSUME NEW x \in Listed(u) PROVE x \in Listed(both)
  <2>1. PICK i \in 1..n : x = u[i]
    BY <1>2 DEF Listed, Seqs!ToSet
  <2>2. m + i \in 1..(m + n) /\ ~(m + i <= m) /\ (m + i) - m = i
    BY <1>2
  <2>. QED  BY <1>1, <1>2, <2>1, <2>2 DEF Listed, Seqs!ToSet
<1>5. ASSUME NEW x \in Listed(both) PROVE x \in Listed(s) \cup Listed(u)
  <2>1. PICK i \in 1..(m + n) : x = both[i]
    BY <1>2 DEF Listed, Seqs!ToSet
  <2>2. CASE i <= m
    <3>1. i \in 1..m /\ x = s[i]
      BY <1>1, <1>2, <2>1, <2>2
    <3>. QED  BY <1>2, <3>1 DEF Listed, Seqs!ToSet
  <2>3. CASE ~(i <= m)
    <3>1. i - m \in 1..n /\ x = u[i - m]
      BY <1>1, <1>2, <2>1, <2>3
    <3>. QED  BY <1>2, <3>1 DEF Listed, Seqs!ToSet
  <2>. QED  BY <2>2, <2>3
<1>6. both = s \o u
  BY DEF both
<1>. QED  BY <1>1, <1>3, <1>4, <1>5, <1>6

Flattening(lists) ==
  CHOOSE flatten :
    flatten = [i \in 1..Len(lists) |->
                 IF i = 1 THEN lists[i] ELSE flatten[i - 1] \o lists[i]]

LEMMA FlattenChooses ==
  ASSUME NEW lists
  PROVE  Seqs!FlattenSeq(lists) =
           IF Len(lists) = 0 THEN lists ELSE Flattening(lists)[Len(lists)]
BY DEF Seqs!FlattenSeq, Flattening

(* A flattened list has what one of its lists has.                         *)
LEMMA FlattenKeeps ==
  ASSUME NEW V, NEW lists \in Seq(Seq(V))
  PROVE  /\ Seqs!FlattenSeq(lists) \in Seq(V)
         /\ Listed(Seqs!FlattenSeq(lists)) =
              UNION {Listed(lists[i]) : i \in DOMAIN lists}
<1> DEFINE n == Len(lists)
           step == [x \in Seq(V) \X (1..n) |-> x[1] \o lists[x[2]]]
           flatten == Flattening(lists)
           All(k) == UNION {Listed(lists[i]) : i \in 1..k}
<1>1. n \in Nat /\ DOMAIN lists = 1..n /\ \A k \in 1..n : lists[k] \in Seq(V)
  BY LenProperties, ElementOfSeq
<1>2. CASE n = 0
  <2>1. DOMAIN lists = {} /\ Seqs!FlattenSeq(lists) = lists /\ lists = << >>
    BY <1>1, <1>2, FlattenChooses, EmptySeq
  <2>2. Listed(lists) = {} /\ lists \in Seq(V)
    BY <2>1 DEF Listed, Seqs!ToSet
  <2>. QED  BY <2>1, <2>2
<1>3. CASE n # 0
  <2>1. step \in [Seq(V) \X (1..n) -> Seq(V)] /\ << >> \in Seq(V)
    BY <1>1, ConcatProperties
  <2>2. \A s \in Seq(V), k \in 1..n : step[<<s, k>>] = s \o lists[k]
    OBVIOUS
  <2> HIDE DEF step
  <2>3. PICK f : IsIteration(f, n, Seq(V), << >>, step)
    BY <1>1, <2>1, IterationExists
  <2>4. \A k \in 1..n : f[k - 1] \in Seq(V) /\ f[k] = f[k - 1] \o lists[k]
    <3>1. ASSUME NEW k \in 1..n PROVE f[k - 1] \in Seq(V)
      <4>1. k - 1 \in 0..n
        BY <1>1
      <4> HIDE DEF n
      <4>. QED  BY <2>3, <4>1 DEF IsIteration
    <3>2. ASSUME NEW k \in 1..n PROVE f[k] = f[k - 1] \o lists[k]
      BY <2>2, <2>3, <3>1 DEF IsIteration
    <3>. QED  BY <3>1, <3>2
  <2> DEFINE g == [i \in 1..n |-> f[i]]
  <2>5. g = [i \in 1..n |-> IF i = 1 THEN lists[i] ELSE g[i - 1] \o lists[i]]
    <3>1. ASSUME NEW i \in 1..n, i = 1 PROVE f[i] = lists[i]
      <4>1. f[0] = << >> /\ f[1] = f[0] \o lists[1]
        <5>1. 1 - 1 = 0
          OBVIOUS
        <5>. QED  BY <2>3, <2>4, <3>1, <5>1 DEF IsIteration
      <4>. QED  BY <1>1, <3>1, <4>1, ConcatEmptySeq
    <3>2. ASSUME NEW i \in 1..n, i # 1 PROVE f[i] = g[i - 1] \o lists[i]
      <4>1. i - 1 \in 1..n
        BY <1>1, <3>2
      <4>. QED  BY <2>4, <4>1
    <3>. QED  BY <3>1, <3>2
  <2> HIDE DEF g
  <2>6. flatten = [i \in 1..n |-> IF i = 1 THEN lists[i] ELSE flatten[i - 1] \o lists[i]]
    BY <2>5 DEF Flattening
  <2> HIDE DEF flatten
  <2> DEFINE P == {0} \cup {k \in 1..n : flatten[k] \in Seq(V) /\ Listed(flatten[k]) = All(k)}
  <2>7. ASSUME NEW k \in 1..n, k - 1 \in P
        PROVE  k \in P
    <3>1. lists[k] \in Seq(V)
      BY <1>1
    <3>2. CASE k = 1
      <4>1. flatten[1] = lists[1]
        BY <2>6, <3>2
      <4>2. All(1) = Listed(lists[1])
        <5>1. 1..1 = {1}
          OBVIOUS
        <5>. QED  BY <5>1
      <4>. QED  BY <3>1, <3>2, <4>1, <4>2
    <3>3. CASE k # 1
      <4>1. k - 1 \in 1..n /\ k - 1 # 0
        BY <1>1, <3>3
      <4>2. flatten[k - 1] \in Seq(V) /\ Listed(flatten[k - 1]) = All(k - 1)
        BY <2>7, <4>1
      <4>3. flatten[k] = flatten[k - 1] \o lists[k]
        BY <2>6, <3>3
      <4>4. All(k) = All(k - 1) \cup Listed(lists[k])
        <5>1. 1..k = 1..(k - 1) \cup {k}
          BY <1>1
        <5>. QED  BY <5>1
      <4> HIDE DEF All
      <4>5. flatten[k] \in Seq(V) /\ Listed(flatten[k]) = All(k)
        BY <3>1, <4>2, <4>3, <4>4, ConcatListed
      <4>. QED  BY <4>5
    <3>. QED  BY <3>2, <3>3
  <2>8. n \in P
    <3>1. 0 \in P
      OBVIOUS
    <3> HIDE DEF P
    <3>2. 0..n \subseteq P
      BY <1>1, <2>7, <3>1, InductionUpTo
    <3>. QED  BY <1>1, <3>2
  <2>9. flatten[n] \in Seq(V) /\ Listed(flatten[n]) = All(n)
    BY <1>3, <2>8
  <2>10. Seqs!FlattenSeq(lists) = flatten[n]
    BY <1>3, FlattenChooses DEF flatten
  <2>. QED  BY <1>1, <2>9, <2>10
<1>. QED  BY <1>2, <1>3
-----------------------------------------------------------------------------
(* The reduction.  best is what there is to say of `candidates': of each   *)
(* contention one of them, and none of them is better.                     *)
IsTable(best, candidates) ==
  /\ DOMAIN best = {KeyOfContention(c) : c \in candidates}
  /\ \A key \in DOMAIN best :
       best[key] \in candidates /\ KeyOfContention(best[key]) = key
  /\ \A c \in candidates : ~IsBetterDescription(c, best[KeyOfContention(c)])

Nothing == [key \in {} |-> None]

LEMMA NothingToSay == IsTable(Nothing, {})
BY DEF IsTable, Nothing

LEMMA KeepMakesTable ==
  ASSUME NEW Place, NEW candidates \in SUBSET Descriptions(Place),
         NEW c \in Descriptions(Place), NEW best, IsTable(best, candidates)
  PROVE  IsTable(Keep(best, c), candidates \cup {c})
<1> DEFINE k == KeyOfContention(c)
           new == Keep(best, c)
           wins == k \in DOMAIN best => IsBetterDescription(c, best[k])
<1>1. /\ DOMAIN new = DOMAIN best \cup {k}
      /\ \A key \in DOMAIN best : key # k => new[key] = best[key]
      /\ new[k] = IF wins THEN c ELSE best[k]
  BY DEF Keep
<1>2. DOMAIN new = {KeyOfContention(d) : d \in candidates \cup {c}}
  BY <1>1 DEF IsTable
<1>3. ASSUME NEW key \in DOMAIN new
      PROVE  new[key] \in candidates \cup {c} /\ KeyOfContention(new[key]) = key
  <2>1. CASE key = k
    BY <1>1, <2>1 DEF IsTable
  <2>2. CASE key # k
    BY <1>1, <1>3, <2>2 DEF IsTable
  <2>. QED  BY <2>1, <2>2
<1>4. ASSUME NEW d \in candidates \cup {c}
      PROVE  ~IsBetterDescription(d, new[KeyOfContention(d)])
  <2>1. ~IsBetterDescription(c, c)
    BY BetterIsATotalOrder
  <2>2. CASE d = c
    BY <1>1, <2>1, <2>2
  <2>3. CASE d # c /\ KeyOfContention(d) # k
    <3>1. KeyOfContention(d) \in DOMAIN best
      BY <2>3 DEF IsTable
    <3>. QED  BY <1>1, <2>3, <3>1 DEF IsTable
  <2>4. CASE d # c /\ KeyOfContention(d) = k
    <3>1. k \in DOMAIN best /\ best[k] \in candidates /\ ~IsBetterDescription(d, best[k])
      BY <2>4 DEF IsTable
    <3>2. CASE ~IsBetterDescription(c, best[k])
      BY <1>1, <2>4, <3>1, <3>2
    <3>3. CASE IsBetterDescription(c, best[k])
      <4>1. new[k] = c
        BY <1>1, <3>3
      <4>2. IsBetterDescription(d, c) => IsBetterDescription(d, best[k])
        <5>1. d \in Descriptions(Place) /\ best[k] \in Descriptions(Place)
          BY <2>4, <3>1
        <5>. QED  BY <3>3, <5>1, BetterIsATotalOrder
      <4>. QED  BY <2>4, <3>1, <4>1, <4>2
    <3>. QED  BY <3>2, <3>3
  <2>. QED  BY <2>2, <2>3, <2>4
<1>. QED  BY <1>2, <1>3, <1>4 DEF IsTable

(* There is one way to say it.                                             *)
LEMMA TableIsUnique ==
  ASSUME NEW Place, NEW candidates \in SUBSET Descriptions(Place),
         NEW best, IsTable(best, candidates), best = [key \in DOMAIN best |-> best[key]],
         NEW other, IsTable(other, candidates), other = [key \in DOMAIN other |-> other[key]]
  PROVE  best = other
<1>1. DOMAIN best = DOMAIN other
  BY DEF IsTable
<1>2. ASSUME NEW key \in DOMAIN best
      PROVE  best[key] = other[key]
  <2>1. /\ best[key] \in candidates /\ other[key] \in candidates
        /\ KeyOfContention(best[key]) = key /\ KeyOfContention(other[key]) = key
    BY <1>1 DEF IsTable
  <2>2. /\ ~IsBetterDescription(best[key], other[key])
        /\ ~IsBetterDescription(other[key], best[key])
    BY <2>1 DEF IsTable
  <2>3. best[key] \in Descriptions(Place) /\ other[key] \in Descriptions(Place)
    BY <2>1
  <2>4. best[key].type = other[key].type /\ best[key].overlap = other[key].overlap
    BY <2>2, <2>3, BetterIsATotalOrder
  <2>. QED  BY <2>1, <2>3, <2>4, SaidTheSame
<1>. QED  BY <1>1, <1>2

(* reduce as the fold it is.                                               *)
Reducing(list, base) ==
  CHOOSE iter :
    iter = [s \in SUBSET DOMAIN list |->
              IF s = {} THEN base
              ELSE Keep(iter[s \ {Greatest(s)}], list[Greatest(s)])]

LEMMA BestIsFold ==
  ASSUME NEW list
  PROVE  Best(list) = Reducing(list, Nothing)[DOMAIN list]
BY DEF Best, Nothing, Seqs!FoldLeft, Seqs!MapThenFoldSet, Seqs!Max, Reducing, Greatest

TablesOf(candidates) ==
  UNION {[K -> candidates] : K \in SUBSET {KeyOfContention(c) : c \in candidates}}

LEMMA KeepStaysIn ==
  ASSUME NEW candidates, NEW best \in TablesOf(candidates), NEW c \in candidates
  PROVE  Keep(best, c) \in TablesOf(candidates)
<1>1. PICK K \in SUBSET {KeyOfContention(d) : d \in candidates} : best \in [K -> candidates]
  BY DEF TablesOf
<1>2. Keep(best, c) \in [K \cup {KeyOfContention(c)} -> candidates]
  BY <1>1 DEF Keep
<1>3. K \cup {KeyOfContention(c)} \in SUBSET {KeyOfContention(d) : d \in candidates}
  OBVIOUS
<1>. QED  BY <1>2, <1>3 DEF TablesOf

(* Whatever the order of the candidates, the answer is what there is to    *)
(* say of them.                                                            *)
LEMMA BestIsTable ==
  ASSUME NEW Place, NEW list \in Seq(Descriptions(Place))
  PROVE  /\ IsTable(Best(list), Listed(list))
         /\ Best(list) = [key \in DOMAIN Best(list) |-> Best(list)[key]]
<1> DEFINE n == Len(list)
           C == Listed(list)
           V == TablesOf(C)
           step == [x \in V \X (1..n) |-> Keep(x[1], list[x[2]])]
           iter == Reducing(list, Nothing)
           First(k) == {list[i] : i \in 1..k}
<1>1. n \in Nat /\ DOMAIN list = 1..n /\ \A k \in 1..n : list[k] \in Descriptions(Place)
  BY LenProperties, ElementOfSeq
<1>2. C = First(n) /\ C \subseteq Descriptions(Place) /\ \A k \in 1..n : list[k] \in C
  BY <1>1 DEF Listed, Seqs!ToSet
<1> HIDE DEF n, C
<1>3. Nothing \in V
  <2>1. Nothing \in [{} -> C]
    BY DEF Nothing
  <2>. QED  BY <2>1 DEF TablesOf
<1>4. step \in [V \X (1..n) -> V]
  <2>1. \A v \in V, k \in 1..n : Keep(v, list[k]) \in V
    BY <1>2, KeepStaysIn
  <2> HIDE DEF V
  <2>. QED  BY <2>1
<1> HIDE DEF V
<1>5. \A v \in V, i \in 1..n : step[<<v, i>>] = Keep(v, list[i])
  OBVIOUS
<1> HIDE DEF step
<1>6. PICK f : IsFold(f, n, V, Nothing, step)
  BY <1>1, <1>3, <1>4, FoldExists
<1>7. f = [s \in SUBSET DOMAIN list |->
             IF s = {} THEN Nothing
             ELSE Keep(f[s \ {Greatest(s)}], list[Greatest(s)])]
  <2>1. ASSUME NEW s \in SUBSET (1..n), s # {}
        PROVE  f[s] = Keep(f[s \ {Greatest(s)}], list[Greatest(s)])
    <3>1. Greatest(s) \in 1..n
      BY <1>1, <2>1, GreatestOf
    <3>2. f[s \ {Greatest(s)}] \in V
      BY <1>6 DEF IsFold
    <3>3. f[s] = step[<<f[s \ {Greatest(s)}], Greatest(s)>>]
      BY <1>6, <2>1 DEF IsFold
    <3>. QED  BY <1>5, <3>1, <3>2, <3>3
  <2>2. f[{}] = Nothing /\ f \in [SUBSET (1..n) -> V]
    BY <1>6 DEF IsFold
  <2>. QED  BY <1>1, <2>1, <2>2
<1>8. iter = [s \in SUBSET DOMAIN list |->
                IF s = {} THEN Nothing
                ELSE Keep(iter[s \ {Greatest(s)}], list[Greatest(s)])]
  BY <1>7 DEF Reducing
<1> HIDE DEF iter
<1> DEFINE P == {k \in 0..n : IsTable(iter[1..k], First(k))}
<1>9. 0 \in P
  <2>1. 1..0 = {} /\ 0 \in 0..n
    BY <1>1
  <2>2. iter[{}] = Nothing
    BY <1>8
  <2>. QED  BY <2>1, <2>2, NothingToSay
<1>10. ASSUME NEW k \in 1..n, k - 1 \in P
       PROVE  k \in P
  <2>1. 1..k \in SUBSET (1..n) /\ 1..k # {} /\ (1..k) \ {k} = 1..(k - 1) /\ k \in 0..n
    <3>1. 1..k \subseteq 1..n /\ k \in 1..k /\ k \in 0..n
      BY <1>1
    <3>2. (1..k) \ {k} = 1..(k - 1)
      BY <1>1
    <3>. QED  BY <3>1, <3>2
  <2>2. Greatest(1..k) = k
    <3>1. 1..k \in SUBSET Int /\ k \in 1..k /\ \A x \in 1..k : x <= k
      BY <1>1
    <3>. QED  BY <3>1, GreatestIs
  <2>3. iter[1..k] = Keep(iter[1..(k - 1)], list[k])
    <3>1. iter[1..k] = Keep(iter[(1..k) \ {Greatest(1..k)}], list[Greatest(1..k)])
      BY <1>1, <1>8, <2>1
    <3>. QED  BY <2>1, <2>2, <3>1
  <2>4. First(k) = First(k - 1) \cup {list[k]}
    <3>1. 1..k = 1..(k - 1) \cup {k}
      BY <1>1
    <3>. QED  BY <3>1
  <2>5. First(k - 1) \in SUBSET Descriptions(Place) /\ list[k] \in Descriptions(Place)
    BY <1>1
  <2>6. IsTable(iter[1..(k - 1)], First(k - 1))
    BY <1>10
  <2> HIDE DEF First
  <2>7. IsTable(iter[1..k], First(k))
    BY <2>3, <2>4, <2>5, <2>6, KeepMakesTable
  <2>. QED  BY <2>1, <2>7
<1>11. n \in P
  <2> HIDE DEF P
  <2>1. 0..n \subseteq P
    BY <1>1, <1>9, <1>10, InductionUpTo
  <2>. QED  BY <1>1, <2>1
<1>12. Best(list) = iter[1..n]
  BY <1>1, BestIsFold DEF iter
<1>13. iter[1..n] = [key \in DOMAIN iter[1..n] |-> iter[1..n][key]]
  <2>1. CASE 1..n = {}
    <3>1. iter[1..n] = Nothing
      BY <1>1, <1>8, <2>1
    <3>. QED  BY <3>1 DEF Nothing
  <2>2. CASE 1..n # {}
    <3>1. iter[1..n] = Keep(iter[(1..n) \ {Greatest(1..n)}], list[Greatest(1..n)])
      BY <1>1, <1>8, <2>2
    <3>. QED  BY <3>1 DEF Keep
  <2>. QED  BY <2>1, <2>2
<1>14. IsTable(iter[1..n], First(n))
  BY <1>11
<1>. QED  BY <1>2, <1>12, <1>13, <1>14 DEF C
-----------------------------------------------------------------------------
(* Readings.  A list is typed by what is in it.                            *)
IsList(list) == list \in Seq(Listed(list))

LEMMA SeqIsList ==
  ASSUME NEW V, NEW list \in Seq(V)
  PROVE  IsList(list) /\ Listed(list) \subseteq V
<1>1. DOMAIN list = 1..Len(list) /\ Len(list) \in Nat /\ list \in [1..Len(list) -> V]
  BY LenProperties
<1>2. \A i \in 1..Len(list) : list[i] \in Listed(list) /\ list[i] \in V
  BY <1>1 DEF Listed, Seqs!ToSet
<1>3. list \in [1..Len(list) -> Listed(list)]
  BY <1>1, <1>2
<1>4. list \in Seq(Listed(list))
  BY <1>1, <1>3
<1>. QED  BY <1>1, <1>2, <1>4 DEF IsList, Listed, Seqs!ToSet

LEMMA ListIsSeq ==
  ASSUME NEW V, NEW list, IsList(list), Listed(list) \subseteq V
  PROVE  list \in Seq(V)
BY SeqMonotonic DEF IsList

LEMMA FunctionIsList ==
  ASSUME NEW n \in Nat, NEW f, DOMAIN f = 1..n, f = [i \in 1..n |-> f[i]]
  PROVE  IsList(f) /\ Listed(f) = {f[i] : i \in 1..n} /\ Len(f) = n
<1>1. Listed(f) = {f[i] : i \in 1..n}
  BY DEF Listed, Seqs!ToSet
<1>2. f \in [1..n -> Listed(f)]
  BY <1>1
<1>3. f \in Seq(Listed(f))
  BY <1>2
<1>4. Len(f) = n
  BY <1>2
<1>. QED  BY <1>1, <1>3, <1>4 DEF IsList

LEMMA ListDomain ==
  ASSUME NEW list, IsList(list)
  PROVE  /\ Len(list) \in Nat /\ DOMAIN list = 1..Len(list)
         /\ list = [i \in 1..Len(list) |-> list[i]]
         /\ Listed(list) = {list[i] : i \in 1..Len(list)}
<1>1. list \in [1..Len(list) -> Listed(list)] /\ Len(list) \in Nat
  BY LenProperties DEF IsList
<1>. QED  BY <1>1 DEF Listed, Seqs!ToSet

LEMMA WhereList ==
  ASSUME NEW list, IsList(list), NEW kept
  PROVE  IsList(Where(list, kept)) /\ Listed(Where(list, kept)) = Listed(list) \cap kept
<1>1. list \in Seq(Listed(list))
  BY DEF IsList
<1>2. /\ Where(list, kept) \in Seq(Listed(list))
      /\ Listed(Where(list, kept)) = Listed(list) \cap kept
  BY <1>1, WhereKeeps
<1>. QED  BY <1>2, SeqIsList

LEMMA PositionsList ==
  ASSUME NEW list, IsList(list)
  PROVE  IsList(Positions(list)) /\ Listed(Positions(list)) = DOMAIN list
<1> DEFINE p == Positions(list)
           n == Len(list)
<1>1. n \in Nat /\ DOMAIN list = 1..n
  BY ListDomain
<1>2. DOMAIN p = 1..n /\ p = [i \in 1..n |-> p[i]] /\ \A i \in 1..n : p[i] = i
  BY <1>1 DEF Positions
<1> HIDE DEF p, n
<1>3. IsList(p) /\ Listed(p) = {p[i] : i \in 1..n}
  BY <1>1, <1>2, FunctionIsList
<1>4. Listed(p) = DOMAIN list
  <2>1. \A x : x \in Listed(p) <=> \E i \in 1..n : x = p[i]
    BY <1>3
  <2>2. \A x : x \in Listed(p) <=> x \in 1..n
    BY <1>2, <2>1
  <2>. QED  BY <1>1, <2>2
<1>. QED  BY <1>3, <1>4 DEF p

LEMMA ConcatList ==
  ASSUME NEW s, IsList(s), NEW u, IsList(u)
  PROVE  IsList(s \o u) /\ Listed(s \o u) = Listed(s) \cup Listed(u)
<1> DEFINE V == Listed(s) \cup Listed(u)
<1>1. s \in Seq(V) /\ u \in Seq(V)
  BY ListIsSeq
<1> HIDE DEF V
<1>2. s \o u \in Seq(V) /\ Listed(s \o u) = Listed(s) \cup Listed(u)
  BY <1>1, ConcatListed
<1>. QED  BY <1>2, SeqIsList

LEMMA FlattenList ==
  ASSUME NEW n \in Nat, NEW lists, DOMAIN lists = 1..n, lists = [i \in 1..n |-> lists[i]],
         \A i \in 1..n : IsList(lists[i])
  PROVE  /\ IsList(Seqs!FlattenSeq(lists))
         /\ Listed(Seqs!FlattenSeq(lists)) = UNION {Listed(lists[i]) : i \in 1..n}
<1> DEFINE V == UNION {Listed(lists[i]) : i \in 1..n}
<1>1. ASSUME NEW i \in 1..n PROVE lists[i] \in Seq(V)
  <2>1. Listed(lists[i]) \subseteq V
    OBVIOUS
  <2> HIDE DEF V
  <2>. QED  BY <2>1, ListIsSeq
<1> HIDE DEF V
<1>2. IsList(lists) /\ Listed(lists) = {lists[i] : i \in 1..n}
  BY FunctionIsList
<1>3. Listed(lists) \subseteq Seq(V)
  BY <1>1, <1>2
<1>4. lists \in Seq(Seq(V))
  BY <1>2, <1>3, ListIsSeq
<1>5. /\ Seqs!FlattenSeq(lists) \in Seq(V)
      /\ Listed(Seqs!FlattenSeq(lists)) = UNION {Listed(lists[i]) : i \in DOMAIN lists}
  BY <1>4, FlattenKeeps
<1>. QED  BY <1>5, SeqIsList

(* What a route claims, as sets.                                           *)
VisitsOf(route) ==
  {Visit(route, i) : i \in {j \in DOMAIN route.nodes :
     IntersectionAt(route.nodes[j]) = None /\ NodeWindow(route, j) # None}}

TraversalsOf(route) ==
  {Traversal(route, i) : i \in {j \in DOMAIN route.segments :
     route.segments[j].window # None}}

PassagesOf(route) ==
  {Passage(route, i) : i \in {j \in DOMAIN route.segments :
     OpensPassage(route, j) /\ IsWindow(Passage(route, j).window)}}

CrossingsOf(route) ==
  {Crossing(route, i) : i \in {j \in DOMAIN route.nodes :
     IntersectionAt(route.nodes[j]) # None /\ NodeWindow(route, j) # None}}

LEMMA RouteTypes ==
  ASSUME NEW route \in Intents
  PROVE  /\ route.robot \in Robot /\ route.robot \in Nat
         /\ IsList(route.nodes) /\ IsList(route.segments)
         /\ Len(route.segments) \in Nat
         /\ DOMAIN route.segments = 1..Len(route.segments)
         /\ DOMAIN route.nodes = 1..(Len(route.segments) + 1)
         /\ \A i \in DOMAIN route.nodes : route.nodes[i] \in Seqs!ToSet(NodeIds)
         /\ \A i \in DOMAIN route.segments :
              /\ route.segments[i].edge \in Seqs!ToSet(EdgeIds)
              /\ route.segments[i].window \in Spans \cup {None}
<1>1. /\ route.robot \in Robot /\ Robot \subseteq Nat
      /\ route.nodes \in Seq(Seqs!ToSet(NodeIds))
      /\ route.segments \in Seq([edge : Seqs!ToSet(EdgeIds), window : Spans \cup {None}])
      /\ Len(route.nodes) = Len(route.segments) + 1
  BY FleetAssumption
<1>2. IsList(route.nodes) /\ IsList(route.segments)
  BY <1>1, SeqIsList
<1>3. /\ DOMAIN route.segments = 1..Len(route.segments) /\ Len(route.segments) \in Nat
      /\ DOMAIN route.nodes = 1..Len(route.nodes)
  BY <1>1, LenProperties
<1>4. \A i \in 1..Len(route.nodes) : route.nodes[i] \in Seqs!ToSet(NodeIds)
  BY <1>1, ElementOfSeq
<1>5. \A i \in 1..Len(route.segments) :
        route.segments[i] \in [edge : Seqs!ToSet(EdgeIds), window : Spans \cup {None}]
  BY <1>1, ElementOfSeq
<1>. QED  BY <1>1, <1>2, <1>3, <1>4, <1>5

LEMMA TimedList ==
  ASSUME NEW list, IsList(list)
  PROVE  IsList(Timed(list)) /\ Listed(Timed(list)) = {c \in Listed(list) : c.window # None}
BY WhereList DEF Timed, Listed

(* The claims at some positions of a list.                                 *)
LEMMA PickedList ==
  ASSUME NEW list, IsList(list), NEW kept \in SUBSET DOMAIN list, NEW f,
         LET picked == Where(Positions(list), kept)
         IN  f = [k \in DOMAIN picked |-> f[k]]
  PROVE  LET picked == Where(Positions(list), kept)
         IN  /\ IsList(f) /\ DOMAIN picked = 1..Len(picked)
             /\ \A k \in DOMAIN picked : picked[k] \in kept
             /\ \A i \in kept : \E k \in DOMAIN picked : picked[k] = i
             /\ Listed(f) = {f[k] : k \in DOMAIN picked}
<1> DEFINE picked == Where(Positions(list), kept)
<1>1. IsList(picked) /\ Listed(picked) = kept
  <2>1. IsList(Positions(list)) /\ Listed(Positions(list)) = DOMAIN list
    BY PositionsList
  <2>2. IsList(picked) /\ Listed(picked) = Listed(Positions(list)) \cap kept
    BY <2>1, WhereList
  <2>3. DOMAIN list \cap kept = kept
    OBVIOUS
  <2>. QED  BY <2>1, <2>2, <2>3
<1>2. f = [k \in DOMAIN picked |-> f[k]]
  OBVIOUS
<1> HIDE DEF picked
<1>3. /\ Len(picked) \in Nat /\ DOMAIN picked = 1..Len(picked)
      /\ Listed(picked) = {picked[k] : k \in 1..Len(picked)}
  BY <1>1, ListDomain
<1>4. DOMAIN f = 1..Len(picked) /\ f = [k \in 1..Len(picked) |-> f[k]]
  BY <1>2, <1>3
<1>5. IsList(f) /\ Listed(f) = {f[k] : k \in 1..Len(picked)}
  BY <1>3, <1>4, FunctionIsList
<1>. QED  BY <1>1, <1>3, <1>5 DEF picked

LEMMA ReadVisits ==
  ASSUME NEW route \in Intents
  PROVE  IsList(NodeVisits(route)) /\ Listed(NodeVisits(route)) = VisitsOf(route)
<1> DEFINE kept == {i \in DOMAIN route.nodes : IntersectionAt(route.nodes[i]) = None}
           picked == Where(Positions(route.nodes), kept)
           f == [k \in DOMAIN picked |-> Visit(route, picked[k])]
<1>1. /\ IsList(f)
      /\ \A k \in DOMAIN picked : picked[k] \in kept
      /\ \A i \in kept : \E k \in DOMAIN picked : picked[k] = i
      /\ Listed(f) = {f[k] : k \in DOMAIN picked}
  <2>1. f = [k \in DOMAIN picked |-> f[k]]
    OBVIOUS
  <2>2. IsList(route.nodes) /\ kept \in SUBSET DOMAIN route.nodes
    BY RouteTypes
  <2> HIDE DEF kept, f
  <2>. QED  BY <2>1, <2>2, PickedList
<1>2. Listed(f) = {Visit(route, i) : i \in kept}
  BY <1>1
<1>3. \A i : Visit(route, i).window = NodeWindow(route, i)
  BY DEF Visit
<1>4. IsList(Timed(f)) /\ Listed(Timed(f)) = {c \in Listed(f) : c.window # None}
  <2> HIDE DEF f
  <2>. QED  BY <1>1, TimedList
<1>5. {c \in {Visit(route, i) : i \in kept} : c.window # None} = VisitsOf(route)
  BY <1>3 DEF VisitsOf
<1>6. NodeVisits(route) = Timed(f)
  BY DEF NodeVisits
<1> HIDE DEF f
<1>. QED  BY <1>2, <1>4, <1>5, <1>6

LEMMA ReadTraversals ==
  ASSUME NEW route \in Intents
  PROVE  IsList(EdgeTraversals(route)) /\ Listed(EdgeTraversals(route)) = TraversalsOf(route)
<1> DEFINE n == Len(route.segments)
           f == [i \in DOMAIN route.segments |-> Traversal(route, i)]
<1>1. n \in Nat /\ DOMAIN route.segments = 1..n
  BY RouteTypes
<1>2. DOMAIN f = 1..n /\ f = [i \in 1..n |-> f[i]]
  BY <1>1
<1>3. \A i \in 1..n : f[i] = Traversal(route, i)
  BY <1>1
<1>4. EdgeTraversals(route) = Timed(f)
  BY DEF EdgeTraversals
<1> HIDE DEF f
<1>5. IsList(f) /\ Listed(f) = {f[i] : i \in 1..n}
  BY <1>1, <1>2, FunctionIsList
<1>6. IsList(Timed(f)) /\ Listed(Timed(f)) = {c \in Listed(f) : c.window # None}
  BY <1>5, TimedList
<1>7. \A i : Traversal(route, i).window = route.segments[i].window
  BY DEF Traversal
<1>8. {c \in {f[i] : i \in 1..n} : c.window # None} = TraversalsOf(route)
  BY <1>1, <1>3, <1>7 DEF TraversalsOf
<1>. QED  BY <1>4, <1>5, <1>6, <1>8

LEMMA ReadPassages ==
  ASSUME NEW route \in Intents
  PROVE  IsList(CorridorPassages(route)) /\ Listed(CorridorPassages(route)) = PassagesOf(route)
<1> DEFINE kept == {i \in DOMAIN route.segments : OpensPassage(route, i)}
           picked == Where(Positions(route.segments), kept)
           f == [k \in DOMAIN picked |-> Passage(route, picked[k])]
<1>1. /\ IsList(f)
      /\ \A k \in DOMAIN picked : picked[k] \in kept
      /\ \A i \in kept : \E k \in DOMAIN picked : picked[k] = i
      /\ Listed(f) = {f[k] : k \in DOMAIN picked}
  <2>1. f = [k \in DOMAIN picked |-> f[k]]
    OBVIOUS
  <2>2. IsList(route.segments) /\ kept \in SUBSET DOMAIN route.segments
    BY RouteTypes
  <2> HIDE DEF kept, f
  <2>. QED  BY <2>1, <2>2, PickedList
<1>2. Listed(f) = {Passage(route, i) : i \in kept}
  BY <1>1
<1>3. CorridorPassages(route) = Where(f, {c \in Listed(f) : IsWindow(c.window)})
  BY DEF CorridorPassages, Listed
<1> HIDE DEF f
<1>4. /\ IsList(CorridorPassages(route))
      /\ Listed(CorridorPassages(route)) = {c \in Listed(f) : IsWindow(c.window)}
  BY <1>1, <1>3, WhereList
<1>5. {c \in {Passage(route, i) : i \in kept} : IsWindow(c.window)} = PassagesOf(route)
  BY DEF PassagesOf
<1>. QED  BY <1>2, <1>4, <1>5

LEMMA ReadCrossings ==
  ASSUME NEW route \in Intents
  PROVE  /\ IsList(IntersectionCrossings(route))
         /\ Listed(IntersectionCrossings(route)) = CrossingsOf(route)
<1> DEFINE kept == {i \in DOMAIN route.nodes : IntersectionAt(route.nodes[i]) # None}
           picked == Where(Positions(route.nodes), kept)
           f == [k \in DOMAIN picked |-> Crossing(route, picked[k])]
<1>1. /\ IsList(f)
      /\ \A k \in DOMAIN picked : picked[k] \in kept
      /\ \A i \in kept : \E k \in DOMAIN picked : picked[k] = i
      /\ Listed(f) = {f[k] : k \in DOMAIN picked}
  <2>1. f = [k \in DOMAIN picked |-> f[k]]
    OBVIOUS
  <2>2. IsList(route.nodes) /\ kept \in SUBSET DOMAIN route.nodes
    BY RouteTypes
  <2> HIDE DEF kept, f
  <2>. QED  BY <2>1, <2>2, PickedList
<1>2. Listed(f) = {Crossing(route, i) : i \in kept}
  BY <1>1
<1>3. \A i : Crossing(route, i).window = NodeWindow(route, i)
  BY DEF Crossing
<1>4. IsList(Timed(f)) /\ Listed(Timed(f)) = {c \in Listed(f) : c.window # None}
  <2> HIDE DEF f
  <2>. QED  BY <1>1, TimedList
<1>5. {c \in {Crossing(route, i) : i \in kept} : c.window # None} = CrossingsOf(route)
  BY <1>3 DEF CrossingsOf
<1>6. IntersectionCrossings(route) = Timed(f)
  BY DEF IntersectionCrossings
<1> HIDE DEF f
<1>. QED  BY <1>2, <1>4, <1>5, <1>6

(* What all routes claim.                                                  *)
Visits(fleet) == UNION {VisitsOf(route) : route \in fleet}
Traversals(fleet) == UNION {TraversalsOf(route) : route \in fleet}
Passages(fleet) == UNION {PassagesOf(route) : route \in fleet}
Crossings(fleet) == UNION {CrossingsOf(route) : route \in fleet}

LEMMA FleetList ==
  ASSUME NEW fleet \in Seq(Intents), NEW f, f = [i \in DOMAIN fleet |-> f[i]],
         \A i \in DOMAIN fleet : IsList(f[i])
  PROVE  /\ IsList(Seqs!FlattenSeq(f))
         /\ Listed(Seqs!FlattenSeq(f)) = UNION {Listed(f[i]) : i \in DOMAIN fleet}
<1>1. Len(fleet) \in Nat /\ DOMAIN fleet = 1..Len(fleet)
  BY LenProperties
<1>2. DOMAIN f = 1..Len(fleet) /\ f = [i \in 1..Len(fleet) |-> f[i]]
  BY <1>1
<1>. QED  BY <1>1, <1>2, FlattenList

LEMMA FleetClaims ==
  ASSUME NEW fleet \in Seq(Intents)
  PROVE  /\ IsList(AllVisits(fleet)) /\ Listed(AllVisits(fleet)) = Visits(Listed(fleet))
         /\ IsList(AllTraversals(fleet))
         /\ Listed(AllTraversals(fleet)) = Traversals(Listed(fleet))
         /\ IsList(AllPassages(fleet)) /\ Listed(AllPassages(fleet)) = Passages(Listed(fleet))
         /\ IsList(AllCrossings(fleet))
         /\ Listed(AllCrossings(fleet)) = Crossings(Listed(fleet))
<1>1. /\ \A i \in DOMAIN fleet : fleet[i] \in Intents
      /\ Listed(fleet) = {fleet[i] : i \in DOMAIN fleet}
  BY LenProperties, ElementOfSeq DEF Listed, Seqs!ToSet
<1>2. IsList(AllVisits(fleet)) /\ Listed(AllVisits(fleet)) = Visits(Listed(fleet))
  <2> DEFINE f == [i \in DOMAIN fleet |-> NodeVisits(fleet[i])]
  <2>1. /\ f = [i \in DOMAIN fleet |-> f[i]] /\ AllVisits(fleet) = Seqs!FlattenSeq(f)
        /\ \A i \in DOMAIN fleet : IsList(f[i]) /\ Listed(f[i]) = VisitsOf(fleet[i])
    BY <1>1, ReadVisits DEF AllVisits
  <2> HIDE DEF f
  <2>2. UNION {Listed(f[i]) : i \in DOMAIN fleet} = Visits(Listed(fleet))
    BY <1>1, <2>1 DEF Visits
  <2>. QED  BY <2>1, <2>2, FleetList
<1>3. IsList(AllTraversals(fleet)) /\ Listed(AllTraversals(fleet)) = Traversals(Listed(fleet))
  <2> DEFINE f == [i \in DOMAIN fleet |-> EdgeTraversals(fleet[i])]
  <2>1. /\ f = [i \in DOMAIN fleet |-> f[i]] /\ AllTraversals(fleet) = Seqs!FlattenSeq(f)
        /\ \A i \in DOMAIN fleet : IsList(f[i]) /\ Listed(f[i]) = TraversalsOf(fleet[i])
    BY <1>1, ReadTraversals DEF AllTraversals
  <2> HIDE DEF f
  <2>2. UNION {Listed(f[i]) : i \in DOMAIN fleet} = Traversals(Listed(fleet))
    BY <1>1, <2>1 DEF Traversals
  <2>. QED  BY <2>1, <2>2, FleetList
<1>4. IsList(AllPassages(fleet)) /\ Listed(AllPassages(fleet)) = Passages(Listed(fleet))
  <2> DEFINE f == [i \in DOMAIN fleet |-> CorridorPassages(fleet[i])]
  <2>1. /\ f = [i \in DOMAIN fleet |-> f[i]] /\ AllPassages(fleet) = Seqs!FlattenSeq(f)
        /\ \A i \in DOMAIN fleet : IsList(f[i]) /\ Listed(f[i]) = PassagesOf(fleet[i])
    BY <1>1, ReadPassages DEF AllPassages
  <2> HIDE DEF f
  <2>2. UNION {Listed(f[i]) : i \in DOMAIN fleet} = Passages(Listed(fleet))
    BY <1>1, <2>1 DEF Passages
  <2>. QED  BY <2>1, <2>2, FleetList
<1>5. IsList(AllCrossings(fleet)) /\ Listed(AllCrossings(fleet)) = Crossings(Listed(fleet))
  <2> DEFINE f == [i \in DOMAIN fleet |-> IntersectionCrossings(fleet[i])]
  <2>1. /\ f = [i \in DOMAIN fleet |-> f[i]] /\ AllCrossings(fleet) = Seqs!FlattenSeq(f)
        /\ \A i \in DOMAIN fleet : IsList(f[i]) /\ Listed(f[i]) = CrossingsOf(fleet[i])
    BY <1>1, ReadCrossings DEF AllCrossings
  <2> HIDE DEF f
  <2>2. UNION {Listed(f[i]) : i \in DOMAIN fleet} = Crossings(Listed(fleet))
    BY <1>1, <2>1 DEF Crossings
  <2>. QED  BY <2>1, <2>2, FleetList
<1>. QED  BY <1>2, <1>3, <1>4, <1>5

(* Claims.                                                                 *)
IsClaim(c) == c.robot \in Nat /\ c.window \in Spans

LEMMA NodeWindowIsSpan ==
  ASSUME NEW route \in Intents, NEW i \in DOMAIN route.nodes, NodeWindow(route, i) # None
  PROVE  NodeWindow(route, i) \in Spans
<1> DEFINE n == Len(route.segments)
           incoming == IF i > 1 THEN route.segments[i - 1].window ELSE None
           outgoing == IF i <= n THEN route.segments[i].window ELSE None
           arrival   == IF incoming # None THEN incoming.end ELSE outgoing.start
           departure == IF outgoing # None THEN outgoing.start ELSE incoming.end
           window    == Window(arrival - EntryBuffer, departure + ExitBuffer)
<1>1. /\ n \in Nat /\ i \in 1..(n + 1) /\ EntryBuffer \in Nat /\ ExitBuffer \in Nat
      /\ \A j \in 1..n : route.segments[j].window \in Spans \cup {None}
  BY RouteTypes, BufferAssumption
<1>2. NodeWindow(route, i) = IF (incoming = None /\ outgoing = None) \/ ~IsWindow(window)
                             THEN None ELSE window
  BY DEF NodeWindow
<1>3. incoming \in Spans \cup {None}
  <2>1. i > 1 => i - 1 \in 1..n
    BY <1>1
  <2>. QED  BY <1>1, <2>1
<1>4. outgoing \in Spans \cup {None}
  <2>1. i <= n => i \in 1..n
    BY <1>1
  <2>. QED  BY <1>1, <2>1
<1> HIDE DEF incoming, outgoing, n
<1>5. /\ ~(incoming = None /\ outgoing = None) /\ IsWindow(window)
      /\ NodeWindow(route, i) = window
  BY <1>2
<1>6. arrival \in Int /\ departure \in Int
  <2>1. incoming # None => incoming.end \in Int
    BY <1>3 DEF Spans
  <2>2. outgoing # None => outgoing.start \in Int
    BY <1>4 DEF Spans
  <2>. QED  BY <1>5, <2>1, <2>2
<1> HIDE DEF arrival, departure
<1>7. window \in [start : Int, end : Int]
  BY <1>1, <1>6 DEF Window
<1>. QED  BY <1>5, <1>7 DEF Spans

(* A passage runs on while the next segment is timed and in the corridor.  *)
LEMMA RunGoesOn ==
  ASSUME NEW route \in Intents, NEW first \in DOMAIN route.segments, NEW corridor,
         InCorridor(route, first, corridor)
  PROVE  LET last == LastOfRun(route, first, corridor)
         IN  /\ last \in first..Len(route.segments)
             /\ \A i \in first..last : InCorridor(route, i, corridor)
             /\ ~InCorridor(route, last + 1, corridor)
<1> DEFINE n == Len(route.segments)
           S == {j \in first..n : \A i \in first..j : InCorridor(route, i, corridor)}
           last == LastOfRun(route, first, corridor)
<1>1. n \in Nat /\ DOMAIN route.segments = 1..n /\ first \in 1..n
  BY RouteTypes
<1>2. first \in S
  BY <1>1
<1>3. IsFiniteSet(S) /\ S \subseteq Int /\ S # {}
  <2>1. IsFiniteSet(first..n)
    BY <1>1, FS_Interval
  <2>. QED  BY <1>1, <1>2, <2>1, FS_Subset
<1>4. PICK m \in S : \A x \in S : x <= m
  <2> HIDE DEF S
  <2>. QED  BY <1>3, LatestInstant
<1>5. last = CHOOSE x \in S : \A y \in S : x >= y
  BY DEF LastOfRun, Sets!Max
<1>6. m \in S /\ \A y \in S : m >= y
  <2> HIDE DEF S
  <2>. QED  BY <1>3, <1>4
<1>7. last \in S /\ \A y \in S : last >= y
  <2> HIDE DEF S, last
  <2>. QED  BY <1>5, <1>6
<1> HIDE DEF last
<1>8. ASSUME InCorridor(route, last + 1, corridor) PROVE FALSE
  <2>1. last + 1 \in 1..n
    BY <1>1, <1>8 DEF InCorridor
  <2>2. \A i \in first..(last + 1) : i = last + 1 \/ i \in first..last
    BY <1>1, <1>7
  <2>3. last + 1 \in S
    BY <1>1, <1>7, <1>8, <2>1, <2>2
  <2>. QED  BY <1>7, <2>3
<1>. QED  BY <1>7, <1>8 DEF last

LEMMA ClaimTypes ==
  ASSUME NEW fleet \in SUBSET Intents
  PROVE  /\ \A c \in Visits(fleet) :
              IsClaim(c) /\ c.resource = c.node /\ c.node \in Seqs!ToSet(NodeIds)
         /\ \A c \in Traversals(fleet) :
              /\ IsClaim(c) /\ c.edge \in Seqs!ToSet(EdgeIds)
              /\ c.resource = ResourceOfEdge(c.edge)
         /\ \A c \in Passages(fleet) : IsClaim(c) /\ c.resource \in DOMAIN Corridors
         /\ \A c \in Crossings(fleet) : IsClaim(c) /\ c.resource \in DOMAIN Intersections
<1>1. ASSUME NEW c \in Visits(fleet)
      PROVE  IsClaim(c) /\ c.resource = c.node /\ c.node \in Seqs!ToSet(NodeIds)
  <2>1. PICK route \in fleet : \E i \in DOMAIN route.nodes :
          NodeWindow(route, i) # None /\ c = Visit(route, i)
    BY <1>1 DEF Visits, VisitsOf
  <2>2. PICK i \in DOMAIN route.nodes : NodeWindow(route, i) # None /\ c = Visit(route, i)
    BY <2>1
  <2>3. NodeWindow(route, i) \in Spans /\ route.nodes[i] \in Seqs!ToSet(NodeIds)
        /\ route.robot \in Nat
    BY <2>2, NodeWindowIsSpan, RouteTypes
  <2>. QED  BY <2>2, <2>3 DEF Visit, IsClaim
<1>2. ASSUME NEW c \in Traversals(fleet)
      PROVE  /\ IsClaim(c) /\ c.edge \in Seqs!ToSet(EdgeIds)
             /\ c.resource = ResourceOfEdge(c.edge)
  <2>1. PICK route \in fleet : \E i \in DOMAIN route.segments :
          route.segments[i].window # None /\ c = Traversal(route, i)
    BY <1>2 DEF Traversals, TraversalsOf
  <2>2. PICK i \in DOMAIN route.segments :
          route.segments[i].window # None /\ c = Traversal(route, i)
    BY <2>1
  <2>3. /\ route.segments[i].window \in Spans /\ route.robot \in Nat
        /\ route.segments[i].edge \in Seqs!ToSet(EdgeIds)
    BY <2>2, RouteTypes
  <2>. QED  BY <2>2, <2>3 DEF Traversal, IsClaim
<1>3. ASSUME NEW c \in Passages(fleet)
      PROVE  IsClaim(c) /\ c.resource \in DOMAIN Corridors
  <2>1. PICK route \in fleet : \E i \in DOMAIN route.segments :
          OpensPassage(route, i) /\ IsWindow(Passage(route, i).window) /\ c = Passage(route, i)
    BY <1>3 DEF Passages, PassagesOf
  <2>2. PICK i \in DOMAIN route.segments :
          OpensPassage(route, i) /\ IsWindow(Passage(route, i).window) /\ c = Passage(route, i)
    BY <2>1
  <2> DEFINE corridor == ResourceOfEdge(route.segments[i].edge)
             last == LastOfRun(route, i, corridor)
  <2>3. corridor \in DOMAIN Corridors /\ InCorridor(route, i, corridor)
    BY <2>2 DEF OpensPassage
  <2>4. last \in i..Len(route.segments) /\ \A j \in i..last : InCorridor(route, j, corridor)
    <3> HIDE DEF corridor
    <3>. QED  BY <2>3, RunGoesOn
  <2>5. i \in 1..Len(route.segments) /\ Len(route.segments) \in Nat /\ route.robot \in Nat
    BY RouteTypes
  <2>6. InCorridor(route, i, corridor) /\ InCorridor(route, last, corridor)
    BY <2>4, <2>5
  <2>7. route.segments[i].window \in Spans /\ route.segments[last].window \in Spans
    BY <2>6, RouteTypes DEF InCorridor
  <2>8. /\ c.robot = route.robot /\ c.resource = corridor
        /\ c.window = Window(route.segments[i].window.start, route.segments[last].window.end)
    BY <2>2 DEF Passage
  <2>9. c.window \in Spans
    BY <2>2, <2>7, <2>8 DEF Spans, Window
  <2>. QED  BY <2>3, <2>5, <2>8, <2>9 DEF IsClaim
<1>4. ASSUME NEW c \in Crossings(fleet)
      PROVE  IsClaim(c) /\ c.resource \in DOMAIN Intersections
  <2>1. PICK route \in fleet : \E i \in DOMAIN route.nodes :
          /\ IntersectionAt(route.nodes[i]) # None
          /\ NodeWindow(route, i) # None /\ c = Crossing(route, i)
    BY <1>4 DEF Crossings, CrossingsOf
  <2>2. PICK i \in DOMAIN route.nodes :
          /\ IntersectionAt(route.nodes[i]) # None
          /\ NodeWindow(route, i) # None /\ c = Crossing(route, i)
    BY <2>1
  <2>3. NodeWindow(route, i) \in Spans /\ route.robot \in Nat
    BY <2>2, NodeWindowIsSpan, RouteTypes
  <2>4. IntersectionAt(route.nodes[i]) \in DOMAIN Intersections
    BY <2>2 DEF IntersectionAt
  <2>. QED  BY <2>2, <2>3, <2>4 DEF Crossing, IsClaim
<1>. QED  BY <1>1, <1>2, <1>3, <1>4
-----------------------------------------------------------------------------
(* Passes.  What one of them says of a set of claims, each pair once.      *)
Pairs(claims, type) ==
  {Candidate(p[1], p[2], p[1].resource, type[p]) :
     p \in {q \in claims \X claims : type[q] # None}}

(* What a pass says of two claims it says of them in either order.         *)
Mutual(claims, type) ==
  \A a, b \in claims : type[<<a, b>>] # None =>
    /\ a.robot # b.robot /\ a.resource = b.resource
    /\ type[<<b, a>>] = type[<<a, b>>]

LEMMA SpanFields ==
  ASSUME NEW w \in Spans
  PROVE  w.start \in Int /\ w.end \in Int /\ w.start < w.end /\ IsWindow(w)
BY DEF Spans, IsWindow

LEMMA OverlapIsShared ==
  ASSUME NEW v \in Spans, NEW w \in Spans
  PROVE  OverlapOf(v, w) = OverlapOf(w, v) /\ OverlapOf(v, w) \in [start : Int, end : Int]
BY SpanFields DEF OverlapOf, Window

LEMMA EitherOrder ==
  ASSUME NEW a, IsClaim(a), NEW b, IsClaim(b), a.robot # b.robot, NEW resource, NEW type
  PROVE  Candidate(a, b, resource, type) = Candidate(b, a, resource, type)
<1>1. OverlapOf(a.window, b.window) = OverlapOf(b.window, a.window)
  BY OverlapIsShared DEF IsClaim
<1>. QED  BY <1>1 DEF IsClaim, Candidate

LEMMA CandidateType ==
  ASSUME NEW a, IsClaim(a), NEW b, IsClaim(b), NEW Place, NEW resource \in Place,
         NEW type \in ConflictType
  PROVE  Candidate(a, b, resource, type) \in Descriptions(Place)
<1>1. OverlapOf(a.window, b.window) \in [start : Int, end : Int]
  BY OverlapIsShared DEF IsClaim
<1>. QED  BY <1>1 DEF IsClaim, Candidate, Descriptions

(* Comparing each with the later ones compares all.                        *)
LEMMA PairsListed ==
  ASSUME NEW claims, IsList(claims), NEW type, Mutual(Listed(claims), type),
         \A c \in Listed(claims) : IsClaim(c)
  PROVE  /\ IsList(PairsOf(claims, type))
         /\ Listed(PairsOf(claims, type)) = Pairs(Listed(claims), type)
<1> DEFINE n == Len(claims)
           Said(i, j) == Candidate(claims[i], claims[j], claims[i].resource,
                                   type[<<claims[i], claims[j]>>])
           later(i) == {j \in DOMAIN claims : i < j /\ type[<<claims[i], claims[j]>>] # None}
           picked(i) == Where(Positions(claims), later(i))
           against(i) == [k \in DOMAIN picked(i) |-> Said(i, picked(i)[k])]
           lists == [i \in DOMAIN claims |-> against(i)]
<1>1. /\ n \in Nat /\ DOMAIN claims = 1..n
      /\ Listed(claims) = {claims[i] : i \in 1..n}
  BY ListDomain
<1>2. ASSUME NEW i \in 1..n
      PROVE  IsList(against(i)) /\ Listed(against(i)) = {Said(i, j) : j \in later(i)}
  <2>1. against(i) = [k \in DOMAIN picked(i) |-> against(i)[k]]
    OBVIOUS
  <2>2. later(i) \in SUBSET DOMAIN claims
    OBVIOUS
  <2>3. \A k \in DOMAIN picked(i) : against(i)[k] = Said(i, picked(i)[k])
    OBVIOUS
  <2> HIDE DEF later, against, Said
  <2>4. /\ IsList(against(i))
        /\ \A k \in DOMAIN picked(i) : picked(i)[k] \in later(i)
        /\ \A j \in later(i) : \E k \in DOMAIN picked(i) : picked(i)[k] = j
        /\ Listed(against(i)) = {against(i)[k] : k \in DOMAIN picked(i)}
    BY <2>1, <2>2, PickedList
  <2> HIDE DEF picked
  <2>5. ASSUME NEW x PROVE x \in Listed(against(i)) <=> \E j \in later(i) : x = Said(i, j)
    BY <2>3, <2>4
  <2>. QED  BY <2>4, <2>5
<1>3. PairsOf(claims, type) = Seqs!FlattenSeq(lists)
  BY DEF PairsOf
<1>4. /\ DOMAIN lists = 1..n /\ lists = [i \in 1..n |-> lists[i]]
      /\ \A i \in 1..n : lists[i] = against(i)
  BY <1>1
<1> HIDE DEF lists, against
<1>5. /\ IsList(Seqs!FlattenSeq(lists))
      /\ Listed(Seqs!FlattenSeq(lists)) = UNION {Listed(lists[i]) : i \in 1..n}
  BY <1>1, <1>2, <1>4, FlattenList
<1>6. \A x : x \in Listed(Seqs!FlattenSeq(lists)) <=>
               \E i \in 1..n : \E j \in later(i) : x = Said(i, j)
  BY <1>2, <1>4, <1>5
<1>7. ASSUME NEW i \in 1..n, NEW j \in later(i)
      PROVE  Said(i, j) \in Pairs(Listed(claims), type)
  <2>1. j \in 1..n /\ type[<<claims[i], claims[j]>>] # None
    BY <1>1, <1>7
  <2> DEFINE p == <<claims[i], claims[j]>>
  <2>2. p \in Listed(claims) \X Listed(claims) /\ p[1] = claims[i] /\ p[2] = claims[j]
    BY <1>1, <2>1
  <2>. QED  BY <2>1, <2>2 DEF Pairs
<1>8. ASSUME NEW x \in Pairs(Listed(claims), type)
      PROVE  \E i \in 1..n : \E j \in later(i) : x = Said(i, j)
  <2>1. PICK p \in Listed(claims) \X Listed(claims) :
          type[p] # None /\ x = Candidate(p[1], p[2], p[1].resource, type[p])
    BY <1>8 DEF Pairs
  <2>2. PICK i \in 1..n, j \in 1..n : p = <<claims[i], claims[j]>>
    BY <1>1, <2>1
  <2> DEFINE a == claims[i]
             b == claims[j]
  <2>3. /\ a \in Listed(claims) /\ b \in Listed(claims) /\ IsClaim(a) /\ IsClaim(b)
        /\ type[<<a, b>>] # None
        /\ x = Candidate(a, b, a.resource, type[<<a, b>>])
    BY <1>1, <2>1, <2>2
  <2>4. a.robot # b.robot /\ a.resource = b.resource /\ type[<<b, a>>] = type[<<a, b>>]
    BY <2>3 DEF Mutual
  <2>5. x = Candidate(b, a, b.resource, type[<<b, a>>])
    BY <2>3, <2>4, EitherOrder
  <2>6. i # j
    BY <2>4
  <2>7. CASE i < j
    <3>1. j \in later(i) /\ x = Said(i, j)
      BY <1>1, <2>3, <2>7
    <3>. QED  BY <3>1
  <2>8. CASE j < i
    <3>1. i \in later(j) /\ x = Said(j, i)
      BY <1>1, <2>3, <2>4, <2>5, <2>8
    <3>. QED  BY <3>1
  <2>. QED  BY <2>6, <2>7, <2>8
<1>9. Listed(Seqs!FlattenSeq(lists)) = Pairs(Listed(claims), type)
  <2> DEFINE flat == Seqs!FlattenSeq(lists)
             pairs == Pairs(Listed(claims), type)
  <2> HIDE DEF Said, later
  <2>1. ASSUME NEW x \in Listed(flat) PROVE x \in pairs
    <3>1. PICK i \in 1..n : \E j \in later(i) : x = Said(i, j)
      BY <1>6, <2>1
    <3>2. PICK j \in later(i) : x = Said(i, j)
      BY <3>1
    <3>. QED  BY <1>7, <3>2
  <2>2. \A x \in pairs : x \in Listed(flat)
    BY <1>6, <1>8
  <2> HIDE DEF flat, pairs
  <2>3. Listed(flat) = pairs
    BY <2>1, <2>2
  <2>. QED  BY <2>3 DEF flat, pairs
<1>. QED  BY <1>3, <1>5, <1>9

LEMMA CapacityIsMutual ==
  ASSUME NEW a, IsClaim(a), NEW b, IsClaim(b), NEW holders, NEW capacity,
         IsCapacityConflict(a, b, holders, capacity)
  PROVE  /\ a.robot # b.robot /\ a.resource = b.resource /\ a.resource # None
         /\ Overlaps(a.window, b.window)
         /\ IsCapacityConflict(b, a, holders, capacity)
<1>1. IsTemporalConflict(a, b) /\ IsTemporalConflict(b, a)
  BY DEF IsCapacityConflict, IsTemporalConflict, Overlaps
<1>2. a.resource = b.resource /\ OverlapOf(a.window, b.window) = OverlapOf(b.window, a.window)
  BY <1>1, OverlapIsShared DEF IsTemporalConflict, IsClaim
<1>. QED  BY <1>1, <1>2 DEF IsCapacityConflict, IsTemporalConflict

(* The parts of a pass by place.                                           *)
VisitsAt(visits, node) == {c \in visits : c.node = node}
TraversalsOn(traversals, edge) == {c \in traversals : c.edge = edge}

LEMMA NodePass ==
  ASSUME NEW S, \A c \in S : IsClaim(c) /\ c.resource = c.node,
         NEW a \in S, NEW b \in S, NodeType(S)[<<a, b>>] # None
  PROVE  /\ NodeType(S)[<<a, b>>] \in {"node"} /\ NodeType(S)[<<b, a>>] = NodeType(S)[<<a, b>>]
         /\ a.robot # b.robot /\ a.resource = b.resource
<1>1. /\ IsNodeConflict(a, b) /\ IsCapacityConflict(a, b, S, CapacityOf(a.node))
      /\ NodeType(S)[<<a, b>>] = "node"
  BY DEF NodeType
<1>2. IsNodeConflict(b, a) /\ a.node = b.node /\ a.robot # b.robot
  BY <1>1 DEF IsNodeConflict, Overlaps
<1>3. IsCapacityConflict(b, a, S, CapacityOf(b.node)) /\ a.resource = b.resource
  BY <1>1, <1>2, CapacityIsMutual
<1>. QED  BY <1>1, <1>2, <1>3 DEF NodeType

LEMMA EdgePass ==
  ASSUME NEW S, \A c \in S : IsClaim(c), NEW a \in S, NEW b \in S,
         EdgeType(S)[<<a, b>>] # None
  PROVE  /\ EdgeType(S)[<<a, b>>] \in {"head_on", "edge"}
         /\ EdgeType(S)[<<b, a>>] = EdgeType(S)[<<a, b>>]
         /\ a.robot # b.robot /\ a.resource = b.resource
<1>1. /\ IsCapacityConflict(a, b, S, CapacityOf(a.resource))
      /\ EdgeType(S)[<<a, b>>] =
           IF IsHeadOnOnEdge(a, b) THEN "head_on"
           ELSE IF IsFollowing(a, b) THEN "edge" ELSE None
  BY DEF EdgeType
<1>2. /\ IsCapacityConflict(b, a, S, CapacityOf(b.resource))
      /\ a.robot # b.robot /\ a.resource = b.resource
  BY <1>1, CapacityIsMutual
<1>3. /\ IsHeadOnOnEdge(b, a) <=> IsHeadOnOnEdge(a, b)
      /\ IsFollowing(b, a) <=> IsFollowing(a, b)
  BY DEF IsHeadOnOnEdge, IsFollowing, MeetOnEdge, Overlaps
<1>4. EdgeType(S)[<<b, a>>] =
        IF IsHeadOnOnEdge(b, a) THEN "head_on"
        ELSE IF IsFollowing(b, a) THEN "edge" ELSE None
  BY <1>2 DEF EdgeType
<1>5. EdgeType(S)[<<b, a>>] = EdgeType(S)[<<a, b>>]
  BY <1>1, <1>3, <1>4
<1>. QED  BY <1>1, <1>2, <1>5

LEMMA CorridorPass ==
  ASSUME NEW S, \A c \in S : IsClaim(c), NEW a \in S, NEW b \in S,
         CorridorType(S)[<<a, b>>] # None
  PROVE  /\ CorridorType(S)[<<a, b>>] \in {"head_on", "corridor"}
         /\ CorridorType(S)[<<b, a>>] = CorridorType(S)[<<a, b>>]
         /\ a.robot # b.robot /\ a.resource = b.resource
<1> DEFINE HeadOn(x, y) ==
             IsHeadOnInCorridor(Corridors[x.resource], CapacityOf(x.resource), x, y)
           Crowds(x, y) == IsCapacityConflict(x, y, S, CapacityOf(x.resource))
<1>1. \A x, y \in S : CorridorType(S)[<<x, y>>] =
        IF HeadOn(x, y) THEN "head_on" ELSE IF Crowds(x, y) THEN "corridor" ELSE None
  BY DEF CorridorType
<1>2. HeadOn(a, b) => a.resource = b.resource /\ a.robot # b.robot /\ HeadOn(b, a)
  BY DEF IsHeadOnInCorridor, Overlaps
<1>3. HeadOn(b, a) => HeadOn(a, b)
  BY DEF IsHeadOnInCorridor, Overlaps
<1>4. Crowds(a, b) => a.resource = b.resource /\ a.robot # b.robot /\ Crowds(b, a)
  BY CapacityIsMutual
<1> HIDE DEF HeadOn, Crowds
<1>5. /\ CorridorType(S)[<<a, b>>] =
           IF HeadOn(a, b) THEN "head_on" ELSE IF Crowds(a, b) THEN "corridor" ELSE None
      /\ CorridorType(S)[<<b, a>>] =
           IF HeadOn(b, a) THEN "head_on" ELSE IF Crowds(b, a) THEN "corridor" ELSE None
  BY <1>1
<1>. QED  BY <1>2, <1>3, <1>4, <1>5

LEMMA CrossingPass ==
  ASSUME NEW S, NEW a \in S, NEW b \in S, CrossingType(S)[<<a, b>>] # None
  PROVE  /\ CrossingType(S)[<<a, b>>] \in {"crossing"} /\ CrossingType(S)[<<b, a>>] = CrossingType(S)[<<a, b>>]
         /\ a.robot # b.robot /\ a.resource = b.resource
<1>1. /\ a.resource = b.resource /\ IsCrossing(Intersections[a.resource], a, b)
      /\ CrossingType(S)[<<a, b>>] = "crossing"
  BY DEF CrossingType
<1>2. IsCrossing(Intersections[b.resource], b, a) /\ a.robot # b.robot
  <2>1. \A group : {a.movement, b.movement} \subseteq group
                     <=> {b.movement, a.movement} \subseteq group
    OBVIOUS
  <2>2. {a.movement, b.movement} = {b.movement, a.movement}
    OBVIOUS
  <2>. QED  BY <1>1, <2>1, <2>2 DEF IsCrossing, MovementsConflict, Overlaps
<1>. QED  BY <1>1, <1>2 DEF CrossingType

LEMMA ReservationPass ==
  ASSUME NEW S, \A c \in S : IsClaim(c), NEW a \in S, NEW b \in S,
         ReservationType(S)[<<a, b>>] # None
  PROVE  /\ ReservationType(S)[<<a, b>>] \in {"resource"}
         /\ ReservationType(S)[<<b, a>>] = ReservationType(S)[<<a, b>>]
         /\ a.robot # b.robot /\ a.resource = b.resource
<1>1. /\ IsCapacityConflict(a, b, S, CapacityOf(a.resource))
      /\ ReservationType(S)[<<a, b>>] = "resource"
  BY DEF ReservationType
<1>2. /\ IsCapacityConflict(b, a, S, CapacityOf(b.resource))
      /\ a.robot # b.robot /\ a.resource = b.resource
  BY <1>1, CapacityIsMutual
<1>. QED  BY <1>1, <1>2 DEF ReservationType

(* What each pass says, as sets.                                           *)
NodeSet(visits) ==
  UNION {Pairs(VisitsAt(visits, node), NodeType(VisitsAt(visits, node))) :
           node \in Seqs!ToSet(NodeIds)}

EdgeSet(traversals) ==
  UNION {Pairs(TraversalsOn(traversals, edge), EdgeType(TraversalsOn(traversals, edge))) :
           edge \in Seqs!ToSet(EdgeIds)}

CorridorSet(passages) == Pairs(passages, CorridorType(passages))
CrossingSet(crossings) == Pairs(crossings, CrossingType(crossings))

HeldOf(grants) == {grant \in grants : grant.state \in Holding}

ReservationSet(grants) == Pairs(HeldOf(grants), ReservationType(HeldOf(grants)))

MixedSet(grants, claims) ==
  UNION {{Candidate(grant, c, c.resource, "temporal") :
            c \in {d \in claims : ExceedsWith(grant, d, HeldOf(grants) \cup claims)}} :
         grant \in HeldOf(grants)}

LEMMA NodeListed ==
  ASSUME NEW visits, IsList(visits),
         \A c \in Listed(visits) : IsClaim(c) /\ c.resource = c.node
  PROVE  /\ IsList(NodeCandidates(visits))
         /\ Listed(NodeCandidates(visits)) = NodeSet(Listed(visits))
<1> DEFINE S == Listed(visits)
           at(node) == Where(visits, {c \in S : c.node = node})
           said(node) == PairsOf(at(node), NodeType(Listed(at(node))))
           lists == [k \in DOMAIN NodeIds |-> said(NodeIds[k])]
           n == Len(NodeIds)
<1>1. n \in Nat /\ DOMAIN NodeIds = 1..n /\ Seqs!ToSet(NodeIds) = {NodeIds[k] : k \in 1..n}
  <2>1. NodeIds \in Seq(Places)
    BY MapAssumption
  <2>. QED  BY <2>1, LenProperties DEF Seqs!ToSet
<1>2. ASSUME NEW node
      PROVE  /\ IsList(said(node))
             /\ Listed(said(node)) = Pairs(VisitsAt(S, node), NodeType(VisitsAt(S, node)))
  <2>1. IsList(at(node)) /\ Listed(at(node)) = S \cap {c \in S : c.node = node}
    BY WhereList
  <2>2. Listed(at(node)) = VisitsAt(S, node)
    BY <2>1 DEF VisitsAt
  <2>3. \A c \in VisitsAt(S, node) : IsClaim(c) /\ c.resource = c.node
    BY DEF VisitsAt
  <2> HIDE DEF S, at
  <2>4. Mutual(VisitsAt(S, node), NodeType(VisitsAt(S, node)))
    BY <2>3, NodePass DEF Mutual
  <2>. QED  BY <2>1, <2>2, <2>3, <2>4, PairsListed
<1>3. NodeCandidates(visits) = Seqs!FlattenSeq(lists)
  BY DEF NodeCandidates, Listed
<1>4. /\ DOMAIN lists = 1..n /\ lists = [k \in 1..n |-> lists[k]]
      /\ \A k \in 1..n : lists[k] = said(NodeIds[k])
  BY <1>1
<1> HIDE DEF lists, said, S
<1>5. /\ IsList(Seqs!FlattenSeq(lists))
      /\ Listed(Seqs!FlattenSeq(lists)) = UNION {Listed(lists[k]) : k \in 1..n}
  BY <1>1, <1>2, <1>4, FlattenList
<1>6. UNION {Listed(lists[k]) : k \in 1..n} = NodeSet(S)
  BY <1>1, <1>2, <1>4 DEF NodeSet
<1>. QED  BY <1>3, <1>5, <1>6 DEF S

LEMMA EdgeListed ==
  ASSUME NEW traversals, IsList(traversals), \A c \in Listed(traversals) : IsClaim(c)
  PROVE  /\ IsList(EdgeCandidates(traversals))
         /\ Listed(EdgeCandidates(traversals)) = EdgeSet(Listed(traversals))
<1> DEFINE S == Listed(traversals)
           on(edge) == Where(traversals, {c \in S : c.edge = edge})
           said(edge) == PairsOf(on(edge), EdgeType(Listed(on(edge))))
           lists == [k \in DOMAIN EdgeIds |-> said(EdgeIds[k])]
           n == Len(EdgeIds)
<1>1. n \in Nat /\ DOMAIN EdgeIds = 1..n /\ Seqs!ToSet(EdgeIds) = {EdgeIds[k] : k \in 1..n}
  <2>1. EdgeIds \in Seq(Places)
    BY MapAssumption
  <2>. QED  BY <2>1, LenProperties DEF Seqs!ToSet
<1>2. ASSUME NEW edge
      PROVE  /\ IsList(said(edge))
             /\ Listed(said(edge)) = Pairs(TraversalsOn(S, edge), EdgeType(TraversalsOn(S, edge)))
  <2>1. IsList(on(edge)) /\ Listed(on(edge)) = S \cap {c \in S : c.edge = edge}
    BY WhereList
  <2>2. Listed(on(edge)) = TraversalsOn(S, edge)
    BY <2>1 DEF TraversalsOn
  <2>3. \A c \in TraversalsOn(S, edge) : IsClaim(c)
    BY DEF TraversalsOn
  <2> HIDE DEF S, on
  <2>4. Mutual(TraversalsOn(S, edge), EdgeType(TraversalsOn(S, edge)))
    BY <2>3, EdgePass DEF Mutual
  <2>. QED  BY <2>1, <2>2, <2>3, <2>4, PairsListed
<1>3. EdgeCandidates(traversals) = Seqs!FlattenSeq(lists)
  BY DEF EdgeCandidates, Listed
<1>4. /\ DOMAIN lists = 1..n /\ lists = [k \in 1..n |-> lists[k]]
      /\ \A k \in 1..n : lists[k] = said(EdgeIds[k])
  BY <1>1
<1> HIDE DEF lists, said, S
<1>5. /\ IsList(Seqs!FlattenSeq(lists))
      /\ Listed(Seqs!FlattenSeq(lists)) = UNION {Listed(lists[k]) : k \in 1..n}
  BY <1>1, <1>2, <1>4, FlattenList
<1>6. UNION {Listed(lists[k]) : k \in 1..n} = EdgeSet(S)
  BY <1>1, <1>2, <1>4 DEF EdgeSet
<1>. QED  BY <1>3, <1>5, <1>6 DEF S

LEMMA CorridorListed ==
  ASSUME NEW passages, IsList(passages), \A c \in Listed(passages) : IsClaim(c)
  PROVE  /\ IsList(CorridorCandidates(passages))
         /\ Listed(CorridorCandidates(passages)) = CorridorSet(Listed(passages))
<1>1. Mutual(Listed(passages), CorridorType(Listed(passages)))
  BY CorridorPass DEF Mutual
<1>. QED  BY <1>1, PairsListed DEF CorridorCandidates, CorridorSet, Listed

LEMMA CrossingListed ==
  ASSUME NEW crossings, IsList(crossings), \A c \in Listed(crossings) : IsClaim(c)
  PROVE  /\ IsList(CrossingCandidates(crossings))
         /\ Listed(CrossingCandidates(crossings)) = CrossingSet(Listed(crossings))
<1>1. Mutual(Listed(crossings), CrossingType(Listed(crossings)))
  BY CrossingPass DEF Mutual
<1>. QED  BY <1>1, PairsListed DEF CrossingCandidates, CrossingSet, Listed

LEMMA HeldList ==
  ASSUME NEW grants, IsList(grants)
  PROVE  IsList(Held(grants)) /\ Listed(Held(grants)) = HeldOf(Listed(grants))
BY WhereList DEF Held, HeldOf, Listed

LEMMA ReservationListed ==
  ASSUME NEW grants, IsList(grants), \A c \in Listed(grants) : IsClaim(c)
  PROVE  /\ IsList(ReservationCandidates(grants))
         /\ Listed(ReservationCandidates(grants)) = ReservationSet(Listed(grants))
<1>1. IsList(Held(grants)) /\ Listed(Held(grants)) = HeldOf(Listed(grants))
  BY HeldList
<1>2. \A c \in HeldOf(Listed(grants)) : IsClaim(c)
  BY DEF HeldOf
<1>3. Mutual(HeldOf(Listed(grants)), ReservationType(HeldOf(Listed(grants))))
  BY <1>2, ReservationPass DEF Mutual
<1>4. ReservationCandidates(grants) =
        PairsOf(Held(grants), ReservationType(Listed(Held(grants))))
  BY DEF ReservationCandidates, Listed
<1>. QED  BY <1>1, <1>2, <1>3, <1>4, PairsListed DEF ReservationSet

LEMMA MixedListed ==
  ASSUME NEW grants, IsList(grants), NEW claims, IsList(claims)
  PROVE  /\ IsList(ReservationRouteCandidates(grants, claims))
         /\ Listed(ReservationRouteCandidates(grants, claims)) =
              MixedSet(Listed(grants), Listed(claims))
<1> DEFINE held == Held(grants)
           holders == Listed(held) \cup Listed(claims)
           hit(grant) == {c \in Listed(claims) : ExceedsWith(grant, c, holders)}
           met(grant) == Where(claims, hit(grant))
           Said(grant, c) == Candidate(grant, c, c.resource, "temporal")
           against(grant) == [k \in DOMAIN met(grant) |-> Said(grant, met(grant)[k])]
           lists == [i \in DOMAIN held |-> against(held[i])]
           n == Len(held)
<1>1. /\ IsList(held) /\ Listed(held) = HeldOf(Listed(grants))
      /\ n \in Nat /\ DOMAIN held = 1..n /\ Listed(held) = {held[i] : i \in 1..n}
  BY HeldList, ListDomain
<1>2. ReservationRouteCandidates(grants, claims) = Seqs!FlattenSeq(lists)
  BY DEF ReservationRouteCandidates, Listed
<1>3. ASSUME NEW grant
      PROVE  /\ IsList(against(grant))
             /\ Listed(against(grant)) = {Said(grant, c) : c \in hit(grant)}
  <2>1. IsList(met(grant)) /\ Listed(met(grant)) = hit(grant)
    <3>1. Listed(claims) \cap hit(grant) = hit(grant)
      OBVIOUS
    <3> HIDE DEF hit
    <3>. QED  BY <3>1, WhereList
  <2>2. /\ Len(met(grant)) \in Nat /\ DOMAIN met(grant) = 1..Len(met(grant))
        /\ hit(grant) = {met(grant)[k] : k \in 1..Len(met(grant))}
    <3> HIDE DEF hit, met
    <3>. QED  BY <2>1, ListDomain
  <2>3. /\ DOMAIN against(grant) = 1..Len(met(grant))
        /\ against(grant) = [k \in 1..Len(met(grant)) |-> against(grant)[k]]
        /\ \A k \in 1..Len(met(grant)) : against(grant)[k] = Said(grant, met(grant)[k])
    BY <2>2
  <2> HIDE DEF hit, met, against, Said
  <2>4. /\ IsList(against(grant))
        /\ Listed(against(grant)) = {against(grant)[k] : k \in 1..Len(met(grant))}
    BY <2>2, <2>3, FunctionIsList
  <2>5. {against(grant)[k] : k \in 1..Len(met(grant))} = {Said(grant, c) : c \in hit(grant)}
    BY <2>2, <2>3
  <2>. QED  BY <2>4, <2>5
<1>4. /\ DOMAIN lists = 1..n /\ lists = [i \in 1..n |-> lists[i]]
      /\ \A i \in 1..n : lists[i] = against(held[i])
  BY <1>1
<1>5. MixedSet(Listed(grants), Listed(claims)) =
        UNION {{Said(grant, c) : c \in hit(grant)} : grant \in Listed(held)}
  BY <1>1 DEF MixedSet
<1> HIDE DEF lists, against, held, hit, Said
<1>6. /\ IsList(Seqs!FlattenSeq(lists))
      /\ Listed(Seqs!FlattenSeq(lists)) = UNION {Listed(lists[i]) : i \in 1..n}
  BY <1>1, <1>3, <1>4, FlattenList
<1>7. UNION {Listed(lists[i]) : i \in 1..n} =
        UNION {{Said(grant, c) : c \in hit(grant)} : grant \in Listed(held)}
  BY <1>1, <1>3, <1>4
<1>. QED  BY <1>2, <1>5, <1>6, <1>7
-----------------------------------------------------------------------------
(* All passes together.                                                    *)
Claims(fleet) == Visits(fleet) \cup Traversals(fleet) \cup Passages(fleet) \cup Crossings(fleet)

CandidateSet(fleet, grants) ==
  NodeSet(Visits(fleet)) \cup EdgeSet(Traversals(fleet)) \cup CorridorSet(Passages(fleet))
    \cup CrossingSet(Crossings(fleet)) \cup ReservationSet(grants)
    \cup MixedSet(grants, Claims(fleet))

(* What a conflict may be about.                                           *)
AnyPlace ==
  Seqs!ToSet(NodeIds) \cup {ResourceOfEdge(edge) : edge \in Seqs!ToSet(EdgeIds)}
    \cup DOMAIN Corridors \cup DOMAIN Intersections
    \cup {grant.resource : grant \in Grants}

LEMMA GrantTypes ==
  ASSUME NEW grants \in SUBSET Reservation
  PROVE  \A c \in grants :
           IsClaim(c) /\ c.resource \in AnyPlace /\ c.resource \in {g.resource : g \in Grants}
BY FleetAssumption DEF Reservation, IsClaim, AnyPlace

LEMMA CandidatesListed ==
  ASSUME NEW fleet \in Seq(Intents), NEW grants \in Seq(Reservation)
  PROVE  /\ IsList(Candidates(fleet, grants))
         /\ Listed(Candidates(fleet, grants)) = CandidateSet(Listed(fleet), Listed(grants))
<1> DEFINE visits     == AllVisits(fleet)
           traversals == AllTraversals(fleet)
           passages   == AllPassages(fleet)
           crossings  == AllCrossings(fleet)
           claims     == visits \o traversals \o passages \o crossings
           F == Listed(fleet)
           G == Listed(grants)
<1>1. F \subseteq Intents /\ IsList(grants) /\ G \subseteq Reservation
  BY SeqIsList
<1>2. Candidates(fleet, grants) =
        NodeCandidates(visits) \o EdgeCandidates(traversals)
          \o CorridorCandidates(passages) \o CrossingCandidates(crossings)
          \o ReservationCandidates(grants)
          \o ReservationRouteCandidates(grants, claims)
  BY DEF Candidates
<1>3. /\ IsList(visits) /\ Listed(visits) = Visits(F)
      /\ IsList(traversals) /\ Listed(traversals) = Traversals(F)
      /\ IsList(passages) /\ Listed(passages) = Passages(F)
      /\ IsList(crossings) /\ Listed(crossings) = Crossings(F)
  BY FleetClaims
<1> HIDE DEF visits, traversals, passages, crossings, F, G
<1>4. IsList(claims) /\ Listed(claims) = Claims(F)
  <2>1. /\ IsList(visits \o traversals)
        /\ Listed(visits \o traversals) = Visits(F) \cup Traversals(F)
    BY <1>3, ConcatList
  <2>2. /\ IsList((visits \o traversals) \o passages)
        /\ Listed((visits \o traversals) \o passages) =
             Visits(F) \cup Traversals(F) \cup Passages(F)
    BY <1>3, <2>1, ConcatList
  <2>3. /\ IsList(((visits \o traversals) \o passages) \o crossings)
        /\ Listed(((visits \o traversals) \o passages) \o crossings) =
             Visits(F) \cup Traversals(F) \cup Passages(F) \cup Crossings(F)
    BY <1>3, <2>2, ConcatList
  <2>. QED  BY <2>3 DEF Claims
<1> HIDE DEF claims
<1>5. /\ \A c \in Visits(F) : IsClaim(c) /\ c.resource = c.node
      /\ \A c \in Traversals(F) : IsClaim(c)
      /\ \A c \in Passages(F) : IsClaim(c)
      /\ \A c \in Crossings(F) : IsClaim(c)
      /\ \A c \in G : IsClaim(c)
  BY <1>1, ClaimTypes, GrantTypes
<1> DEFINE l1 == NodeCandidates(visits)
           l2 == EdgeCandidates(traversals)
           l3 == CorridorCandidates(passages)
           l4 == CrossingCandidates(crossings)
           l5 == ReservationCandidates(grants)
           l6 == ReservationRouteCandidates(grants, claims)
<1>6. IsList(l1) /\ Listed(l1) = NodeSet(Visits(F))
  BY <1>3, <1>5, NodeListed
<1>7. IsList(l2) /\ Listed(l2) = EdgeSet(Traversals(F))
  BY <1>3, <1>5, EdgeListed
<1>8. IsList(l3) /\ Listed(l3) = CorridorSet(Passages(F))
  BY <1>3, <1>5, CorridorListed
<1>9. IsList(l4) /\ Listed(l4) = CrossingSet(Crossings(F))
  BY <1>3, <1>5, CrossingListed
<1>10. IsList(l5) /\ Listed(l5) = ReservationSet(G)
  BY <1>1, <1>5, ReservationListed DEF G
<1>11. IsList(l6) /\ Listed(l6) = MixedSet(G, Claims(F))
  BY <1>1, <1>4, MixedListed DEF G
<1>12. Candidates(fleet, grants) = ((((l1 \o l2) \o l3) \o l4) \o l5) \o l6
  BY <1>2
<1> HIDE DEF l1, l2, l3, l4, l5, l6
<1>13. IsList(l1 \o l2) /\ Listed(l1 \o l2) = Listed(l1) \cup Listed(l2)
  BY <1>6, <1>7, ConcatList
<1>14. /\ IsList((l1 \o l2) \o l3)
       /\ Listed((l1 \o l2) \o l3) = Listed(l1) \cup Listed(l2) \cup Listed(l3)
  BY <1>8, <1>13, ConcatList
<1>15. /\ IsList(((l1 \o l2) \o l3) \o l4)
       /\ Listed(((l1 \o l2) \o l3) \o l4) =
            Listed(l1) \cup Listed(l2) \cup Listed(l3) \cup Listed(l4)
  BY <1>9, <1>14, ConcatList
<1>16. /\ IsList((((l1 \o l2) \o l3) \o l4) \o l5)
       /\ Listed((((l1 \o l2) \o l3) \o l4) \o l5) =
            Listed(l1) \cup Listed(l2) \cup Listed(l3) \cup Listed(l4) \cup Listed(l5)
  BY <1>10, <1>15, ConcatList
<1>17. /\ IsList(((((l1 \o l2) \o l3) \o l4) \o l5) \o l6)
       /\ Listed(((((l1 \o l2) \o l3) \o l4) \o l5) \o l6) =
            Listed(l1) \cup Listed(l2) \cup Listed(l3) \cup Listed(l4) \cup Listed(l5)
              \cup Listed(l6)
  BY <1>11, <1>16, ConcatList
<1>. QED  BY <1>6, <1>7, <1>8, <1>9, <1>10, <1>11, <1>12, <1>17 DEF CandidateSet, F, G

LEMMA PairsAreDescriptions ==
  ASSUME NEW S, \A c \in S : IsClaim(c) /\ c.resource \in AnyPlace,
         NEW type, \A a, b \in S : type[<<a, b>>] # None => type[<<a, b>>] \in ConflictType
  PROVE  Pairs(S, type) \subseteq Descriptions(AnyPlace)
<1>1. ASSUME NEW p \in S \X S, type[p] # None
      PROVE  Candidate(p[1], p[2], p[1].resource, type[p]) \in Descriptions(AnyPlace)
  <2>1. p = <<p[1], p[2]>> /\ p[1] \in S /\ p[2] \in S
    OBVIOUS
  <2>2. type[p] \in ConflictType
    BY <1>1, <2>1
  <2>. QED  BY <2>1, <2>2, CandidateType
<1>. QED  BY <1>1 DEF Pairs

LEMMA CandidatesAreDescriptions ==
  ASSUME NEW fleet \in SUBSET Intents, NEW grants \in SUBSET Reservation
  PROVE  CandidateSet(fleet, grants) \subseteq Descriptions(AnyPlace)
<1>1. /\ \A c \in Visits(fleet) : IsClaim(c) /\ c.resource = c.node /\ c.resource \in AnyPlace
      /\ \A c \in Traversals(fleet) : IsClaim(c) /\ c.resource \in AnyPlace
      /\ \A c \in Passages(fleet) : IsClaim(c) /\ c.resource \in AnyPlace
      /\ \A c \in Crossings(fleet) : IsClaim(c) /\ c.resource \in AnyPlace
  BY ClaimTypes DEF AnyPlace
<1>2. \A c \in HeldOf(grants) : IsClaim(c) /\ c.resource \in AnyPlace
  BY GrantTypes DEF HeldOf
<1>3. NodeSet(Visits(fleet)) \subseteq Descriptions(AnyPlace)
  <2>1. ASSUME NEW node
        PROVE  Pairs(VisitsAt(Visits(fleet), node), NodeType(VisitsAt(Visits(fleet), node)))
                 \subseteq Descriptions(AnyPlace)
    <3> DEFINE S == VisitsAt(Visits(fleet), node)
    <3>1. \A c \in S : IsClaim(c) /\ c.resource = c.node /\ c.resource \in AnyPlace
      BY <1>1 DEF VisitsAt
    <3> HIDE DEF S
    <3>2. ASSUME NEW a \in S, NEW b \in S, NodeType(S)[<<a, b>>] # None
          PROVE  NodeType(S)[<<a, b>>] \in ConflictType
      <4>1. {"node", "head_on", "edge", "corridor", "crossing", "resource"} \subseteq ConflictType
        BY DEF ConflictType
      <4>2. NodeType(S)[<<a, b>>] \in {"node"}
        BY <3>1, <3>2, NodePass
      <4>. QED  BY <4>1, <4>2
    <3>3. Pairs(S, NodeType(S)) \subseteq Descriptions(AnyPlace)
      BY <3>1, <3>2, PairsAreDescriptions
    <3>. QED  BY <3>3 DEF S
  <2>. QED  BY <2>1 DEF NodeSet
<1>4. EdgeSet(Traversals(fleet)) \subseteq Descriptions(AnyPlace)
  <2>1. ASSUME NEW edge
        PROVE  Pairs(TraversalsOn(Traversals(fleet), edge),
                     EdgeType(TraversalsOn(Traversals(fleet), edge)))
                 \subseteq Descriptions(AnyPlace)
    <3> DEFINE S == TraversalsOn(Traversals(fleet), edge)
    <3>1. \A c \in S : IsClaim(c) /\ c.resource \in AnyPlace
      BY <1>1 DEF TraversalsOn
    <3> HIDE DEF S
    <3>2. ASSUME NEW a \in S, NEW b \in S, EdgeType(S)[<<a, b>>] # None
          PROVE  EdgeType(S)[<<a, b>>] \in ConflictType
      <4>1. {"node", "head_on", "edge", "corridor", "crossing", "resource"} \subseteq ConflictType
        BY DEF ConflictType
      <4>2. EdgeType(S)[<<a, b>>] \in {"head_on", "edge"}
        BY <3>1, <3>2, EdgePass
      <4>. QED  BY <4>1, <4>2
    <3>3. Pairs(S, EdgeType(S)) \subseteq Descriptions(AnyPlace)
      BY <3>1, <3>2, PairsAreDescriptions
    <3>. QED  BY <3>3 DEF S
  <2>. QED  BY <2>1 DEF EdgeSet
<1>5. CorridorSet(Passages(fleet)) \subseteq Descriptions(AnyPlace)
  <2> DEFINE S == Passages(fleet)
  <2>1. \A c \in S : IsClaim(c) /\ c.resource \in AnyPlace
    BY <1>1
  <2> HIDE DEF S
  <2>2. ASSUME NEW a \in S, NEW b \in S, CorridorType(S)[<<a, b>>] # None
        PROVE  CorridorType(S)[<<a, b>>] \in ConflictType
    <3>1. {"node", "head_on", "edge", "corridor", "crossing", "resource"} \subseteq ConflictType
      BY DEF ConflictType
    <3>2. CorridorType(S)[<<a, b>>] \in {"head_on", "corridor"}
      BY <2>1, <2>2, CorridorPass
    <3>. QED  BY <3>1, <3>2
  <2>3. Pairs(S, CorridorType(S)) \subseteq Descriptions(AnyPlace)
    BY <2>1, <2>2, PairsAreDescriptions
  <2>. QED  BY <2>3 DEF CorridorSet, S
<1>6. CrossingSet(Crossings(fleet)) \subseteq Descriptions(AnyPlace)
  <2> DEFINE S == Crossings(fleet)
  <2>1. \A c \in S : IsClaim(c) /\ c.resource \in AnyPlace
    BY <1>1
  <2> HIDE DEF S
  <2>2. ASSUME NEW a \in S, NEW b \in S, CrossingType(S)[<<a, b>>] # None
        PROVE  CrossingType(S)[<<a, b>>] \in ConflictType
    <3>1. {"node", "head_on", "edge", "corridor", "crossing", "resource"} \subseteq ConflictType
      BY DEF ConflictType
    <3>2. CrossingType(S)[<<a, b>>] \in {"crossing"}
      BY <2>2, CrossingPass
    <3>. QED  BY <3>1, <3>2
  <2>3. Pairs(S, CrossingType(S)) \subseteq Descriptions(AnyPlace)
    BY <2>1, <2>2, PairsAreDescriptions
  <2>. QED  BY <2>3 DEF CrossingSet, S
<1>7. ReservationSet(grants) \subseteq Descriptions(AnyPlace)
  <2> DEFINE S == HeldOf(grants)
  <2>1. \A c \in S : IsClaim(c) /\ c.resource \in AnyPlace
    BY <1>2
  <2> HIDE DEF S
  <2>2. ASSUME NEW a \in S, NEW b \in S, ReservationType(S)[<<a, b>>] # None
        PROVE  ReservationType(S)[<<a, b>>] \in ConflictType
    <3>1. {"node", "head_on", "edge", "corridor", "crossing", "resource"} \subseteq ConflictType
      BY DEF ConflictType
    <3>2. ReservationType(S)[<<a, b>>] \in {"resource"}
      BY <2>1, <2>2, ReservationPass
    <3>. QED  BY <3>1, <3>2
  <2>3. Pairs(S, ReservationType(S)) \subseteq Descriptions(AnyPlace)
    BY <2>1, <2>2, PairsAreDescriptions
  <2>. QED  BY <2>3 DEF ReservationSet, S
<1>8. MixedSet(grants, Claims(fleet)) \subseteq Descriptions(AnyPlace)
  <2>1. \A c \in Claims(fleet) : IsClaim(c) /\ c.resource \in AnyPlace
    BY <1>1 DEF Claims
  <2>2. "temporal" \in ConflictType
    BY DEF ConflictType
  <2>3. ASSUME NEW grant \in HeldOf(grants), NEW c \in Claims(fleet)
        PROVE  Candidate(grant, c, c.resource, "temporal") \in Descriptions(AnyPlace)
    BY <1>2, <2>1, <2>2, CandidateType
  <2>. QED  BY <2>3 DEF MixedSet
<1>. QED  BY <1>3, <1>4, <1>5, <1>6, <1>7, <1>8 DEF CandidateSet

(* So the answer is what there is to say of all that the passes find.      *)
LEMMA DetectorTable ==
  ASSUME NEW fleet \in Seq(Intents), NEW grants \in Seq(Reservation)
  PROVE  LET best == Best(Candidates(fleet, grants))
         IN  /\ IsTable(best, CandidateSet(Listed(fleet), Listed(grants)))
             /\ best = [key \in DOMAIN best |-> best[key]]
<1>1. Listed(fleet) \subseteq Intents /\ Listed(grants) \subseteq Reservation
  BY SeqIsList
<1>2. /\ IsList(Candidates(fleet, grants))
      /\ Listed(Candidates(fleet, grants)) = CandidateSet(Listed(fleet), Listed(grants))
  BY CandidatesListed
<1>3. Candidates(fleet, grants) \in Seq(Descriptions(AnyPlace))
  BY <1>1, <1>2, CandidatesAreDescriptions, ListIsSeq
<1>. QED  BY <1>2, <1>3, BestIsTable
-----------------------------------------------------------------------------
(* Order.  Whatever lists hand over the same routes and reservations, the  *)
(* answer is the same.                                                     *)
THEOREM AnyOrderTellsTheSame ==
  ASSUME NEW fleet \in Seq(Intents), NEW other \in Seq(Intents),
         Listed(fleet) = Listed(other),
         NEW grants \in Seq(Reservation), NEW granted \in Seq(Reservation),
         Listed(grants) = Listed(granted),
         NEW t
  PROVE  Detect(fleet, grants, t) = Detect(other, granted, t)
<1> DEFINE best == Best(Candidates(fleet, grants))
           same == Best(Candidates(other, granted))
           C == CandidateSet(Listed(fleet), Listed(grants))
<1>1. /\ IsTable(best, C) /\ best = [key \in DOMAIN best |-> best[key]]
      /\ IsTable(same, C) /\ same = [key \in DOMAIN same |-> same[key]]
  BY DetectorTable
<1>2. C \in SUBSET Descriptions(AnyPlace)
  BY SeqIsList, CandidatesAreDescriptions
<1>3. /\ Detect(fleet, grants, t) = [key \in DOMAIN best |-> Told(best[key], t)]
      /\ Detect(other, granted, t) = [key \in DOMAIN same |-> Told(same[key], t)]
  BY DEF Detect
<1> HIDE DEF best, same, C
<1>4. best = same
  BY <1>1, <1>2, TableIsUnique
<1>. QED  BY <1>3, <1>4

(* The list SetToSeq makes of a finite set has all of it.                  *)
LEMMA SetToSeqLists ==
  ASSUME NEW S, IsFiniteSet(S)
  PROVE  Seqs!SetToSeq(S) \in Seq(S) /\ Listed(Seqs!SetToSeq(S)) = S
<1> DEFINE n == Cardinality(S)
           Good(f) == f \in [1..n -> S] /\ \A a, b \in 1..n : f[a] = f[b] => a = b
           f == Seqs!SetToSeq(S)
<1>1. n \in Nat
  BY FS_CardinalityType
<1>2. \E g : Good(g)
  <2>1. PICK m \in Nat : ExistsBijection(1..m, S)
    BY FS_NatBijection
  <2>2. m = n
    BY <2>1, FS_CountingElements
  <2>3. PICK g : g \in Bijection(1..n, S)
    BY <2>1, <2>2 DEF ExistsBijection
  <2>. QED  BY <2>3 DEF Bijection, Injection, IsInjective
<1>3. Good(f)
  <2>1. f = CHOOSE g \in [1..n -> S] : \A a, b \in DOMAIN g : g[a] = g[b] => a = b
    BY Zenon DEF Seqs!SetToSeq, Seqs!IsInjective, Cardinality, Seqs!Cardinality
  <2>. QED  BY <1>2, <2>1
<1> HIDE DEF f, n
<1>4. Listed(f) = {f[i] : i \in 1..n} /\ Listed(f) \subseteq S
  BY <1>3 DEF Listed, Seqs!ToSet
<1>5. f \in Bijection(1..n, Listed(f))
  BY <1>3, <1>4 DEF Bijection, Injection, Surjection, IsInjective
<1>6. Cardinality(Listed(f)) = n
  BY <1>1, <1>5, FS_CountingElements DEF ExistsBijection
<1>7. Listed(f) = S
  BY <1>4, <1>6, FS_Subset DEF n
<1>8. f \in Seq(S)
  BY <1>1, <1>3
<1>. QED  BY <1>7, <1>8 DEF f

LEMMA ListedIsFinite ==
  ASSUME NEW list, IsList(list)
  PROVE  IsFiniteSet(Listed(list))
<1> DEFINE n == Len(list)
<1>1. n \in Nat /\ Listed(list) = {list[i] : i \in 1..n}
  BY ListDomain
<1>2. IsFiniteSet(1..n)
  BY <1>1, FS_Interval
<1> HIDE DEF n
<1>3. IsFiniteSet({list[i] : i \in 1..n})
  BY <1>2, FiniteRange
<1>. QED  BY <1>1, <1>3

(* What the detector is asked about, and that it has answered.             *)
Asked ==
  /\ routes \in Seq(Intents)
  /\ reservations \in Seq(Reservation)
  /\ now \in Int

Answered == Asked /\ conflicts = Detect(routes, reservations, now)

LEMMA WithoutTypes ==
  ASSUME NEW V, NEW list \in Seq(V), NEW robot
  PROVE  Without(list, robot) \in Seq(V)
BY WhereKeeps DEF Without

LEMMA RemoveAtTypes ==
  ASSUME NEW V, NEW list \in Seq(V), NEW i \in DOMAIN list
  PROVE  Seqs!RemoveAt(list, i) \in Seq(V)
<1> DEFINE n == Len(list)
<1>1. n \in Nat /\ i \in 1..n /\ \A k \in 1..n : list[k] \in V
  BY LenProperties, ElementOfSeq
<1> HIDE DEF n
<1>2. i - 1 \in Int /\ i + 1 \in Int /\ n \in Int
      /\ (\A k \in 1..(i - 1) : list[k] \in V) /\ (\A k \in (i + 1)..n : list[k] \in V)
  BY <1>1
<1>3. SubSeq(list, 1, i - 1) \in Seq(V) /\ SubSeq(list, i + 1, n) \in Seq(V)
  BY <1>2, SubSeqProperties
<1>4. SubSeq(list, 1, i - 1) \o SubSeq(list, i + 1, n) \in Seq(V)
  BY <1>3, ConcatProperties
<1>. QED  BY <1>4 DEF Seqs!RemoveAt, n

LEMMA DetectorStart == Init => Answered
BY FleetAssumption, EmptySeq DEF Init, Answered, Asked

LEMMA DetectorStep == Answered /\ [Next]_vars => Answered'
<1> SUFFICES ASSUME Answered, [Next]_vars PROVE Answered'
  OBVIOUS
<1>1. ASSUME NEW route \in Intents, TakeUp(route) PROVE Answered'
  <2>1. routes' \in Seq(Intents)
    BY <1>1, AppendProperties DEF TakeUp, Answered, Asked
  <2>. QED  BY <1>1, <2>1 DEF TakeUp, Answer, Answered, Asked
<1>2. ASSUME NEW robot \in Robot, GiveUp(robot) PROVE Answered'
  <2>1. routes' \in Seq(Intents)
    BY <1>2, WithoutTypes DEF GiveUp, Answered, Asked
  <2>. QED  BY <1>2, <2>1 DEF GiveUp, Answer, Answered, Asked
<1>3. ASSUME NEW grant \in Grants, Reserve(grant) PROVE Answered'
  <2>1. grant \in Reservation
    BY FleetAssumption
  <2>2. reservations' \in Seq(Reservation)
    BY <1>3, <2>1, AppendProperties DEF Reserve, Answered, Asked
  <2>. QED  BY <1>3, <2>2 DEF Reserve, Answer, Answered, Asked
<1>4. ASSUME NEW i \in DOMAIN reservations, EndReservation(i) PROVE Answered'
  <2>1. reservations \in Seq(Reservation) /\ reservations[i] \in Reservation
    BY LenProperties, ElementOfSeq DEF Answered, Asked
  <2>2. [reservations[i] EXCEPT !.state = "released"] \in Reservation
    BY <2>1 DEF Reservation, State
  <2>3. reservations' = [reservations EXCEPT ![i] = [reservations[i] EXCEPT !.state = "released"]]
    BY <1>4 DEF EndReservation
  <2>4. reservations' \in Seq(Reservation)
    BY <2>1, <2>2, <2>3, ExceptSeq
  <2>. QED  BY <1>4, <2>4 DEF EndReservation, Answer, Answered, Asked
<1>5. ASSUME NEW i \in DOMAIN reservations, Forget(i) PROVE Answered'
  <2>1. reservations' \in Seq(Reservation)
    BY <1>5, RemoveAtTypes DEF Forget, Answered, Asked
  <2>. QED  BY <1>5, <2>1 DEF Forget, Answer, Answered, Asked
<1>6. ASSUME Tick PROVE Answered'
  <2>1. now' \in Int
    BY <1>6, FleetAssumption DEF Tick
  <2>. QED  BY <1>6, <2>1 DEF Tick, Answer, Answered, Asked
<1>7. ASSUME UNCHANGED vars PROVE Answered'
  BY <1>7 DEF vars, Answered, Asked
<1>. QED  BY <1>1, <1>2, <1>3, <1>4, <1>5, <1>6, <1>7 DEF Next

(* The answer is that for what there is to compare.                        *)
THEOREM DetectorAnswers == Spec => []Answered
<1>. QED  BY DetectorStart, DetectorStep, PTL DEF Spec

(* NFR-003: conflicts never depend on the order in which the controller    *)
(* holds routes and reservations.                                          *)
THEOREM ConflictsIgnoreOrder == Spec => []OrderDecidesNothing
<1>1. Answered => OrderDecidesNothing
  <2> SUFFICES ASSUME Answered PROVE OrderDecidesNothing
    OBVIOUS
  <2> DEFINE F == Listed(routes)
             G == Listed(reservations)
  <2>1. /\ IsFiniteSet(F) /\ F \subseteq Intents
        /\ IsFiniteSet(G) /\ G \subseteq Reservation
    BY SeqIsList, ListedIsFinite DEF Answered, Asked
  <2>2. /\ Seqs!SetToSeq(F) \in Seq(F) /\ Listed(Seqs!SetToSeq(F)) = F
        /\ Seqs!SetToSeq(G) \in Seq(G) /\ Listed(Seqs!SetToSeq(G)) = G
    <3> HIDE DEF F, G
    <3>. QED  BY <2>1, SetToSeqLists
  <2>3. Seqs!SetToSeq(F) \in Seq(Intents) /\ Seqs!SetToSeq(G) \in Seq(Reservation)
    BY <2>1, <2>2, SeqMonotonic
  <2>4. conflicts = Detect(Seqs!SetToSeq(F), Seqs!SetToSeq(G), now)
    BY <2>2, <2>3, AnyOrderTellsTheSame DEF Answered, Asked
  <2>. QED  BY <2>4 DEF OrderDecidesNothing, Listed
<1>. QED  BY <1>1, DetectorAnswers, PTL
-----------------------------------------------------------------------------
(* More traffic.                                                           *)
LEMMA CapacityIsACount == ASSUME NEW place PROVE CapacityOf(place) \in Nat
BY MapAssumption DEF CapacityOf

(* Who else is there makes no conflict go away.                            *)
LEMMA MoreHoldersMoreConflict ==
  ASSUME NEW holders, NEW more, holders \subseteq more, IsFiniteSet(more),
         NEW capacity \in Nat, NEW a, NEW b, IsCapacityConflict(a, b, holders, capacity)
  PROVE  IsCapacityConflict(a, b, more, capacity)
<1> DEFINE shared == OverlapOf(a.window, b.window)
           Count(set, t) == Cardinality(DistinctRobotsAt(set, a.resource, t))
<1>1. ASSUME NEW t \in SharedInstants(shared, holders, a.resource), Count(holders, t) > capacity
      PROVE  t \in SharedInstants(shared, more, a.resource) /\ Count(more, t) > capacity
  <2>1. t \in SharedInstants(shared, more, a.resource)
    BY DEF SharedInstants
  <2>2. DistinctRobotsAt(holders, a.resource, t) \subseteq DistinctRobotsAt(more, a.resource, t)
    BY DEF DistinctRobotsAt
  <2>3. IsFiniteSet(DistinctRobotsAt(more, a.resource, t)) /\ Count(more, t) \in Nat
    BY FiniteRobots
  <2>4. Count(holders, t) <= Count(more, t) /\ Count(holders, t) \in Nat
    BY <2>2, <2>3, FS_Subset, FS_CardinalityType
  <2>. QED  BY <1>1, <2>1, <2>3, <2>4
<1>. QED  BY <1>1 DEF IsCapacityConflict

(* A type that stands for some claims stands for more of them.             *)
Stands(type, more, S) ==
  \A a, b \in S : type[<<a, b>>] # None => more[<<a, b>>] = type[<<a, b>>]

LEMMA MorePairs ==
  ASSUME NEW S, NEW T, S \subseteq T, NEW type, NEW more, Stands(type, more, S)
  PROVE  Pairs(S, type) \subseteq Pairs(T, more)
<1>1. ASSUME NEW p \in S \X S, type[p] # None
      PROVE  p \in T \X T /\ more[p] # None /\ more[p] = type[p]
  <2>1. p = <<p[1], p[2]>> /\ p[1] \in S /\ p[2] \in S
    OBVIOUS
  <2>2. type[<<p[1], p[2]>>] # None
    BY <1>1, <2>1
  <2>3. more[<<p[1], p[2]>>] = type[<<p[1], p[2]>>]
    BY <2>1, <2>2 DEF Stands
  <2>. QED  BY <1>1, <2>1, <2>3
<1>. QED  BY <1>1 DEF Pairs

LEMMA NodeStands ==
  ASSUME NEW S, NEW T, S \subseteq T, IsFiniteSet(T)
  PROVE  Stands(NodeType(S), NodeType(T), S)
<1> SUFFICES ASSUME NEW a \in S, NEW b \in S, NodeType(S)[<<a, b>>] # None
             PROVE  NodeType(T)[<<a, b>>] = NodeType(S)[<<a, b>>]
  BY DEF Stands
<1>1. /\ IsNodeConflict(a, b) /\ IsCapacityConflict(a, b, S, CapacityOf(a.node))
      /\ NodeType(S)[<<a, b>>] = "node"
  BY DEF NodeType
<1>2. IsCapacityConflict(a, b, T, CapacityOf(a.node))
  BY <1>1, CapacityIsACount, MoreHoldersMoreConflict
<1>. QED  BY <1>1, <1>2 DEF NodeType

LEMMA EdgeStands ==
  ASSUME NEW S, NEW T, S \subseteq T, IsFiniteSet(T)
  PROVE  Stands(EdgeType(S), EdgeType(T), S)
<1> SUFFICES ASSUME NEW a \in S, NEW b \in S, EdgeType(S)[<<a, b>>] # None
             PROVE  EdgeType(T)[<<a, b>>] = EdgeType(S)[<<a, b>>]
  BY DEF Stands
<1>1. IsCapacityConflict(a, b, S, CapacityOf(a.resource))
  BY DEF EdgeType
<1>2. IsCapacityConflict(a, b, T, CapacityOf(a.resource))
  BY <1>1, CapacityIsACount, MoreHoldersMoreConflict
<1>. QED  BY <1>1, <1>2 DEF EdgeType

LEMMA CorridorStands ==
  ASSUME NEW S, NEW T, S \subseteq T, IsFiniteSet(T)
  PROVE  Stands(CorridorType(S), CorridorType(T), S)
<1> SUFFICES ASSUME NEW a \in S, NEW b \in S, CorridorType(S)[<<a, b>>] # None
             PROVE  CorridorType(T)[<<a, b>>] = CorridorType(S)[<<a, b>>]
  BY DEF Stands
<1> DEFINE headOn == IsHeadOnInCorridor(Corridors[a.resource], CapacityOf(a.resource), a, b)
           Crowds(set) == IsCapacityConflict(a, b, set, CapacityOf(a.resource))
<1>1. /\ CorridorType(S)[<<a, b>>] = IF headOn THEN "head_on"
                                     ELSE IF Crowds(S) THEN "corridor" ELSE None
      /\ CorridorType(T)[<<a, b>>] = IF headOn THEN "head_on"
                                     ELSE IF Crowds(T) THEN "corridor" ELSE None
  BY DEF CorridorType
<1>2. Crowds(S) => Crowds(T)
  BY CapacityIsACount, MoreHoldersMoreConflict
<1> HIDE DEF headOn, Crowds
<1>. QED  BY <1>1, <1>2

LEMMA CrossingStands ==
  ASSUME NEW S, NEW T, S \subseteq T
  PROVE  Stands(CrossingType(S), CrossingType(T), S)
BY DEF Stands, CrossingType

LEMMA ReservationStands ==
  ASSUME NEW S, NEW T, S \subseteq T, IsFiniteSet(T)
  PROVE  Stands(ReservationType(S), ReservationType(T), S)
<1> SUFFICES ASSUME NEW a \in S, NEW b \in S, ReservationType(S)[<<a, b>>] # None
             PROVE  ReservationType(T)[<<a, b>>] = ReservationType(S)[<<a, b>>]
  BY DEF Stands
<1>1. IsCapacityConflict(a, b, S, CapacityOf(a.resource))
  BY DEF ReservationType
<1>2. IsCapacityConflict(a, b, T, CapacityOf(a.resource))
  BY <1>1, CapacityIsACount, MoreHoldersMoreConflict
<1>. QED  BY <1>1, <1>2 DEF ReservationType

LEMMA MoreClaims ==
  ASSUME NEW F, NEW F2, F \subseteq F2
  PROVE  /\ Visits(F) \subseteq Visits(F2) /\ Traversals(F) \subseteq Traversals(F2)
         /\ Passages(F) \subseteq Passages(F2) /\ Crossings(F) \subseteq Crossings(F2)
BY DEF Visits, Traversals, Passages, Crossings

LEMMA FiniteClaims ==
  ASSUME NEW fleet \in Seq(Intents)
  PROVE  /\ IsFiniteSet(Visits(Listed(fleet))) /\ IsFiniteSet(Traversals(Listed(fleet)))
         /\ IsFiniteSet(Passages(Listed(fleet))) /\ IsFiniteSet(Crossings(Listed(fleet)))
         /\ IsFiniteSet(Claims(Listed(fleet)))
<1>1. /\ IsFiniteSet(Visits(Listed(fleet))) /\ IsFiniteSet(Traversals(Listed(fleet)))
      /\ IsFiniteSet(Passages(Listed(fleet))) /\ IsFiniteSet(Crossings(Listed(fleet)))
  BY FleetClaims, ListedIsFinite
<1>. QED  BY <1>1, FS_Union DEF Claims

LEMMA MoreCandidates ==
  ASSUME NEW F, NEW F2, F \subseteq F2, NEW G, NEW G2, G \subseteq G2,
         IsFiniteSet(Visits(F2)), IsFiniteSet(Traversals(F2)), IsFiniteSet(Passages(F2)),
         IsFiniteSet(Claims(F2)), IsFiniteSet(G2)
  PROVE  CandidateSet(F, G) \subseteq CandidateSet(F2, G2)
<1>1. /\ Visits(F) \subseteq Visits(F2) /\ Traversals(F) \subseteq Traversals(F2)
      /\ Passages(F) \subseteq Passages(F2) /\ Crossings(F) \subseteq Crossings(F2)
      /\ Claims(F) \subseteq Claims(F2) /\ HeldOf(G) \subseteq HeldOf(G2)
  BY MoreClaims DEF Claims, HeldOf
<1>2. NodeSet(Visits(F)) \subseteq NodeSet(Visits(F2))
  <2>1. ASSUME NEW node
        PROVE  Pairs(VisitsAt(Visits(F), node), NodeType(VisitsAt(Visits(F), node)))
                 \subseteq Pairs(VisitsAt(Visits(F2), node), NodeType(VisitsAt(Visits(F2), node)))
    <3>1. VisitsAt(Visits(F), node) \subseteq VisitsAt(Visits(F2), node)
          /\ IsFiniteSet(VisitsAt(Visits(F2), node))
      BY <1>1, FS_Subset DEF VisitsAt
    <3>. QED  BY <3>1, NodeStands, MorePairs
  <2>. QED  BY <2>1 DEF NodeSet
<1>3. EdgeSet(Traversals(F)) \subseteq EdgeSet(Traversals(F2))
  <2> DEFINE S(edge) == TraversalsOn(Traversals(F), edge)
             T(edge) == TraversalsOn(Traversals(F2), edge)
  <2>1. ASSUME NEW edge
        PROVE  Pairs(S(edge), EdgeType(S(edge))) \subseteq Pairs(T(edge), EdgeType(T(edge)))
    <3>1. S(edge) \subseteq T(edge) /\ IsFiniteSet(T(edge))
      BY <1>1, FS_Subset DEF TraversalsOn
    <3> HIDE DEF S, T
    <3>. QED  BY <3>1, EdgeStands, MorePairs
  <2>. QED  BY <2>1 DEF EdgeSet
<1>4. CorridorSet(Passages(F)) \subseteq CorridorSet(Passages(F2))
  BY <1>1, CorridorStands, MorePairs DEF CorridorSet
<1>5. CrossingSet(Crossings(F)) \subseteq CrossingSet(Crossings(F2))
  BY <1>1, CrossingStands, MorePairs DEF CrossingSet
<1>6. IsFiniteSet(HeldOf(G2))
  BY FS_Subset DEF HeldOf
<1>7. ReservationSet(G) \subseteq ReservationSet(G2)
  BY <1>1, <1>6, ReservationStands, MorePairs DEF ReservationSet
<1>8. MixedSet(G, Claims(F)) \subseteq MixedSet(G2, Claims(F2))
  <2> DEFINE H == HeldOf(G) \cup Claims(F)
             H2 == HeldOf(G2) \cup Claims(F2)
  <2>1. H \subseteq H2 /\ IsFiniteSet(H2)
    BY <1>1, <1>6, FS_Union
  <2> HIDE DEF H, H2
  <2>2. ASSUME NEW grant, NEW c, ExceedsWith(grant, c, H) PROVE ExceedsWith(grant, c, H2)
    BY <2>1, <2>2, CapacityIsACount, MoreHoldersMoreConflict DEF ExceedsWith
  <2>. QED  BY <1>1, <2>2 DEF MixedSet, H, H2
<1>. QED  BY <1>2, <1>3, <1>4, <1>5, <1>7, <1>8 DEF CandidateSet

LEMMA PrefixListed ==
  ASSUME NEW V, NEW s \in Seq(V), NEW u \in Seq(V), Seqs!IsPrefix(s, u)
  PROVE  Listed(s) \subseteq Listed(u)
<1> DEFINE n == Len(s)
<1>1. /\ n \in Nat /\ Len(u) \in Nat /\ n <= Len(u)
      /\ DOMAIN s = 1..n /\ DOMAIN u = 1..Len(u)
      /\ \A i \in 1..Len(u) : u[i] \in V
  BY LenProperties, ElementOfSeq DEF Seqs!IsPrefix
<1>2. s = SubSeq(u, 1, n)
  BY SubSeqFull DEF Seqs!IsPrefix
<1> HIDE DEF n
<1>3. 1..n \subseteq 1..Len(u) /\ n - 1 + 1 = n
  BY <1>1
<1>4. \A i \in 1..(n - 1 + 1) : SubSeq(u, 1, n)[i] = u[1 + i - 1]
  BY <1>1, <1>3, SubSeqProperties
<1>5. \A i \in 1..n : s[i] = u[i]
  BY <1>2, <1>3, <1>4
<1>. QED  BY <1>1, <1>3, <1>5 DEF Listed, Seqs!ToSet

(* What is told of fewer robots is told of more of them, and as much.      *)
LEMMA MoreIsTold ==
  ASSUME NEW fleet \in Seq(Intents), NEW more \in Seq(Intents),
         Listed(fleet) \subseteq Listed(more),
         NEW grants \in Seq(Reservation), NEW granted \in Seq(Reservation),
         Listed(grants) \subseteq Listed(granted), NEW t, NEW u,
         NEW key \in DOMAIN Detect(fleet, grants, t)
  PROVE  /\ key \in DOMAIN Detect(more, granted, u)
         /\ Precedence(Detect(more, granted, u)[key].type)
              >= Precedence(Detect(fleet, grants, t)[key].type)
<1> DEFINE best == Best(Candidates(fleet, grants))
           next == Best(Candidates(more, granted))
           C == CandidateSet(Listed(fleet), Listed(grants))
           D == CandidateSet(Listed(more), Listed(granted))
<1>1. IsTable(best, C) /\ IsTable(next, D)
  BY DetectorTable
<1>2. C \subseteq D
  <2>1. IsFiniteSet(Listed(granted))
    BY SeqIsList, ListedIsFinite
  <2>. QED  BY <2>1, FiniteClaims, MoreCandidates
<1>3. D \subseteq Descriptions(AnyPlace)
  BY SeqIsList, CandidatesAreDescriptions
<1>4. /\ DOMAIN Detect(fleet, grants, t) = DOMAIN best
      /\ \A k \in DOMAIN best : Detect(fleet, grants, t)[k].type = best[k].type
      /\ DOMAIN Detect(more, granted, u) = DOMAIN next
      /\ \A k \in DOMAIN next : Detect(more, granted, u)[k].type = next[k].type
  BY DEF Detect, Told
<1> HIDE DEF best, next, C, D
<1>5. /\ best[key] \in D /\ KeyOfContention(best[key]) = key
  BY <1>1, <1>2, <1>4 DEF IsTable
<1>6. /\ key \in DOMAIN next /\ next[key] \in D
      /\ ~IsBetterDescription(best[key], next[key])
  BY <1>1, <1>5 DEF IsTable
<1>7. Precedence(next[key].type) \in Int /\ Precedence(best[key].type) \in Int
  BY <1>3, <1>5, <1>6, PrecedenceOrdersTypes DEF Descriptions
<1>. QED  BY <1>4, <1>6, <1>7 DEF IsBetterDescription

(* Another route or another reservation hides no conflict.                 *)
THEOREM MoreTrafficStillTells == Spec => MoreTrafficHidesNothing
<1> DEFINE Tells ==
      Seqs!IsPrefix(routes, routes') /\ Seqs!IsPrefix(reservations, reservations')
        => \A key \in DOMAIN conflicts :
             /\ key \in DOMAIN conflicts'
             /\ Precedence(conflicts'[key].type) >= Precedence(conflicts[key].type)
<1>1. Answered /\ [Next]_vars => [Tells]_vars
  <2> SUFFICES ASSUME Answered, [Next]_vars,
                      Seqs!IsPrefix(routes, routes'),
                      Seqs!IsPrefix(reservations, reservations'),
                      NEW key \in DOMAIN conflicts
               PROVE  /\ key \in DOMAIN conflicts'
                      /\ Precedence(conflicts'[key].type) >= Precedence(conflicts[key].type)
    OBVIOUS
  <2>1. Answered'
    BY DetectorStep
  <2>2. /\ routes \in Seq(Intents) /\ routes' \in Seq(Intents)
        /\ reservations \in Seq(Reservation) /\ reservations' \in Seq(Reservation)
        /\ conflicts = Detect(routes, reservations, now)
        /\ conflicts' = Detect(routes', reservations', now')
    BY <2>1 DEF Answered, Asked
  <2>3. /\ Listed(routes) \subseteq Listed(routes')
        /\ Listed(reservations) \subseteq Listed(reservations')
    BY <2>2, PrefixListed
  <2>. QED  BY <2>2, <2>3, MoreIsTold
<1>. QED  BY <1>1, DetectorAnswers, PTL DEF Spec, MoreTrafficHidesNothing
-----------------------------------------------------------------------------
(* Contention.  A candidate is in the answer under its key.                *)
LEMMA CandidateIsReported ==
  ASSUME Answered, NEW a, IsClaim(a), NEW b, IsClaim(b), NEW place, NEW type,
         Candidate(a, b, place, type) \in CandidateSet(Listed(routes), Listed(reservations))
  PROVE  Reported(a.robot, b.robot, place)
<1> DEFINE C == CandidateSet(Listed(routes), Listed(reservations))
           best == Best(Candidates(routes, reservations))
           c == Candidate(a, b, place, type)
<1>1. IsTable(best, C)
  BY DetectorTable DEF Answered, Asked
<1>2. DOMAIN conflicts = DOMAIN best
  BY DEF Answered, Detect
<1> HIDE DEF C, best
<1>3. KeyOfContention(c) \in DOMAIN conflicts
  BY <1>1, <1>2 DEF IsTable, C
<1>4. KeyOfContention(c) \in {<<a.robot, b.robot, place>>, <<b.robot, a.robot, place>>}
  BY DEF KeyOfContention, Candidate, IsClaim
<1>. QED  BY <1>3, <1>4 DEF Reported

LEMMA PairIsSaid ==
  ASSUME NEW S, NEW type, NEW a \in S, NEW b \in S, type[<<a, b>>] # None
  PROVE  Candidate(a, b, a.resource, type[<<a, b>>]) \in Pairs(S, type)
BY DEF Pairs

(* Two of too many claims are in conflict, whatever else is among them.    *)
LEMMA CrowdMeets ==
  ASSUME NEW S, IsFiniteSet(S), \A c \in S : IsClaim(c),
         NEW place, place # None, NEW t \in Int,
         NEW a \in S, a.resource = place, Contains(a.window, t),
         NEW b \in S, b.resource = place, Contains(b.window, t), a.robot # b.robot,
         NEW R, R \subseteq DistinctRobotsAt(S, place, t), TooMany(R, place)
  PROVE  IsCapacityConflict(a, b, S, CapacityOf(place))
<1>1. CapacityOf(place) \in Nat
  BY CapacityIsACount
<1>2. Cardinality(DistinctRobotsAt(S, place, t)) > CapacityOf(place)
  <2>1. IsFiniteSet(DistinctRobotsAt(S, place, t))
    BY FiniteRobots
  <2>2. /\ Cardinality(R) <= Cardinality(DistinctRobotsAt(S, place, t))
        /\ Cardinality(R) \in Nat /\ Cardinality(DistinctRobotsAt(S, place, t)) \in Nat
    BY <2>1, FS_Subset, FS_CardinalityType
  <2>. QED  BY <1>1, <2>2 DEF TooMany
<1>3. \A c \in S : c.window.start \in Int /\ c.window.end \in Int /\ IsWindow(c.window)
  BY SpanFields DEF IsClaim
<1>. QED  BY <1>1, <1>2, <1>3, CapacityConflictIsExact

(* Where a robot is by its route, there is a claim of its.                 *)
LEMMA DriveIsClaimed ==
  ASSUME NEW fleet \in SUBSET Intents, NEW r \in fleet, NEW i, NEW place, NEW t,
         DrivesAt(r, i, place, t)
  PROVE  /\ Traversal(r, i) \in Traversals(fleet)
         /\ Traversal(r, i).robot = r.robot /\ Traversal(r, i).resource = place
         /\ Traversal(r, i).edge = r.segments[i].edge
         /\ Contains(Traversal(r, i).window, t)
BY DEF DrivesAt, Traversals, TraversalsOf, Traversal

LEMMA StandIsClaimed ==
  ASSUME NEW fleet \in SUBSET Intents, NEW r \in fleet, NEW i, NEW place, NEW t,
         StandsAt(r, i, place, t)
  PROVE  /\ IntersectionAt(r.nodes[i]) = None =>
              /\ Visit(r, i) \in Visits(fleet) /\ Visit(r, i).robot = r.robot
              /\ Visit(r, i).node = place /\ Visit(r, i).resource = place
              /\ Contains(Visit(r, i).window, t)
         /\ IntersectionAt(r.nodes[i]) # None =>
              /\ Crossing(r, i) \in Crossings(fleet) /\ Crossing(r, i).robot = r.robot
              /\ Crossing(r, i).resource = place /\ place \in DOMAIN Intersections
              /\ Contains(Crossing(r, i).window, t)
<1>1. CASE IntersectionAt(r.nodes[i]) = None
  BY <1>1 DEF StandsAt, Visits, VisitsOf, Visit
<1>2. CASE IntersectionAt(r.nodes[i]) # None
  <2>1. IntersectionAt(r.nodes[i]) \in DOMAIN Intersections
    BY <1>2 DEF IntersectionAt
  <2>. QED  BY <1>2, <2>1 DEF StandsAt, Crossings, CrossingsOf, Crossing
<1>. QED  BY <1>1, <1>2

(* Who passes is claimed by the passage over all of the run.               *)
LEMMA PassageOfRun ==
  ASSUME TimeRunsForward, NEW r \in Intents, NEW i, NEW corridor \in DOMAIN Corridors,
         NEW t \in Int, PassesAt(r, i, corridor, t)
  PROVE  \E first \in DOMAIN r.segments :
           /\ OpensPassage(r, first) /\ ResourceOfEdge(r.segments[first].edge) = corridor
           /\ i \in first..LastOfRun(r, first, corridor)
           /\ Passage(r, first) \in PassagesOf(r)
           /\ Passage(r, first).robot = r.robot /\ Passage(r, first).resource = corridor
           /\ Contains(Passage(r, first).window, t)
<1> DEFINE n == Len(r.segments)
           B == {f \in 1..i : \A k \in f..i : InCorridor(r, k, corridor)}
<1>1. /\ n \in Nat /\ DOMAIN r.segments = 1..n /\ i \in 1..n
      /\ \A k \in 1..n : r.segments[k].window \in Spans \cup {None}
  BY RouteTypes DEF PassesAt, DrivesAt, PausesAt, InCorridor
<1>2. InCorridor(r, i, corridor)
  BY DEF PassesAt, DrivesAt, PausesAt, InCorridor
<1>3. i \in B /\ B \in SUBSET Nat
  BY <1>1, <1>2
<1>4. PICK first \in B : \A f \in B : first <= f
  <2> HIDE DEF B
  <2>. QED  BY <1>3, LeastNatural
<1>5. first \in 1..n /\ first <= i /\ \A k \in first..i : InCorridor(r, k, corridor)
  BY <1>1, <1>4
<1>6. InCorridor(r, first, corridor)
  BY <1>1, <1>5
<1>7. ~InCorridor(r, first - 1, corridor)
  <2> SUFFICES ASSUME InCorridor(r, first - 1, corridor) PROVE FALSE
    OBVIOUS
  <2>1. first - 1 \in 1..n
    BY <1>1 DEF InCorridor
  <2>2. \A k \in (first - 1)..i : k = first - 1 \/ k \in first..i
    BY <1>1, <1>5
  <2>3. first - 1 \in B
    BY <1>1, <1>5, <2>1, <2>2
  <2>. QED  BY <1>4, <1>5, <2>3
<1> DEFINE last == LastOfRun(r, first, corridor)
<1>8. /\ last \in first..n /\ ~InCorridor(r, last + 1, corridor)
      /\ \A k \in first..last : InCorridor(r, k, corridor)
  BY <1>1, <1>5, <1>6, RunGoesOn
<1> HIDE DEF last, B, n
<1>9. i <= last /\ last \in 1..n /\ InCorridor(r, last, corridor)
  <2>1. ASSUME last < i PROVE FALSE
    <3>1. last + 1 \in first..i
      BY <1>1, <1>5, <1>8, <2>1
    <3>. QED  BY <1>5, <1>8, <3>1
  <2>. QED  BY <1>1, <1>5, <1>8, <2>1
<1> DEFINE v == r.segments[first].window
           w == r.segments[last].window
           p == Passage(r, first)
<1>10. v \in Spans /\ w \in Spans
  BY <1>1, <1>5, <1>6, <1>9 DEF InCorridor
<1>11. ASSUME NEW k \in first..last
       PROVE  LET u == r.segments[k].window
              IN  u \in Spans /\ v.start <= u.start /\ u.end <= w.end
  <2> DEFINE u == r.segments[k].window
  <2>1. k \in 1..n /\ InCorridor(r, k, corridor)
    BY <1>1, <1>5, <1>8, <1>9, <1>11
  <2>2. u \in Spans
    BY <1>1, <2>1 DEF InCorridor
  <2>3. first = k \/ first < k
    BY <1>1, <1>5, <1>9, <1>11
  <2>4. k = last \/ k < last
    BY <1>1, <1>5, <1>9, <1>11
  <2>5. v.start <= u.start
    <3>1. CASE first = k
      BY <1>10, <3>1, SpanFields
    <3>2. CASE first < k
      BY <1>1, <1>5, <1>6, <2>1, <3>2 DEF TimeRunsForward, InCorridor
    <3>. QED  BY <2>3, <3>1, <3>2
  <2>6. u.end <= w.end
    <3>1. CASE k = last
      BY <1>10, <3>1, SpanFields
    <3>2. CASE k < last
      BY <1>1, <1>9, <2>1, <3>2 DEF TimeRunsForward, InCorridor
    <3>. QED  BY <2>4, <3>1, <3>2
  <2>. QED  BY <2>2, <2>5, <2>6
<1>12. ResourceOfEdge(r.segments[first].edge) = corridor
  BY <1>6 DEF InCorridor
<1>13. /\ p.robot = r.robot /\ p.resource = corridor /\ p.window = Window(v.start, w.end)
  BY <1>12 DEF Passage, last
<1>14. v.start <= t /\ t < w.end
  <2>1. v.start \in Int /\ w.end \in Int
    BY <1>10, SpanFields
  <2>2. CASE DrivesAt(r, i, corridor, t)
    <3> DEFINE u == r.segments[i].window
    <3>1. i \in first..last
      BY <1>1, <1>5, <1>9
    <3>2. u \in Spans /\ v.start <= u.start /\ u.end <= w.end
      BY <1>11, <3>1
    <3>3. u.start <= t /\ t < u.end
      BY <2>2 DEF DrivesAt, Contains
    <3>4. u.start \in Int /\ u.end \in Int
      BY <3>2, SpanFields
    <3> HIDE DEF u, v, w
    <3>. QED  BY <2>1, <3>2, <3>3, <3>4
  <2>3. CASE PausesAt(r, i, corridor, t)
    <3> DEFINE u == r.segments[i].window
               x == r.segments[i + 1].window
    <3>1. i \in first..last /\ i + 1 \in first..last
      <4>1. i # last
        BY <1>8, <2>3 DEF PausesAt
      <4>. QED  BY <1>1, <1>5, <1>9, <4>1
    <3>2. /\ u \in Spans /\ v.start <= u.start
          /\ x \in Spans /\ x.end <= w.end
      BY <1>11, <3>1
    <3>3. u.end <= t /\ t < x.start
      BY <2>3 DEF PausesAt
    <3>4. /\ u.start \in Int /\ u.end \in Int /\ u.start < u.end
          /\ x.start \in Int /\ x.end \in Int /\ x.start < x.end
      BY <3>2, SpanFields
    <3> HIDE DEF u, v, w, x
    <3>. QED  BY <2>1, <3>2, <3>3, <3>4
  <2>. QED  BY <2>2, <2>3 DEF PassesAt
<1>15. OpensPassage(r, first)
  BY <1>6, <1>7, <1>12 DEF OpensPassage
<1>16. Contains(p.window, t) /\ IsWindow(p.window)
  <2>1. v.start \in Int /\ w.end \in Int
    BY <1>10, SpanFields
  <2> HIDE DEF v, w, p
  <2>. QED  BY <1>13, <1>14, <2>1 DEF Window, Contains, IsWindow
<1>17. p \in PassagesOf(r)
  BY <1>1, <1>5, <1>15, <1>16 DEF PassagesOf
<1>18. i \in first..last /\ first \in DOMAIN r.segments
  BY <1>1, <1>5, <1>9
<1> HIDE DEF v, w
<1>. QED  BY <1>12, <1>13, <1>15, <1>16, <1>17, <1>18 DEF last

LEMMA PassageCovers ==
  ASSUME TimeRunsForward, NEW r \in Intents, NEW i, NEW corridor \in DOMAIN Corridors,
         NEW t \in Int, PassesAt(r, i, corridor, t)
  PROVE  \E c \in PassagesOf(r) :
           c.robot = r.robot /\ c.resource = corridor /\ Contains(c.window, t)
<1>1. PICK first \in DOMAIN r.segments :
           /\ OpensPassage(r, first) /\ ResourceOfEdge(r.segments[first].edge) = corridor
           /\ i \in first..LastOfRun(r, first, corridor)
           /\ Passage(r, first) \in PassagesOf(r)
           /\ Passage(r, first).robot = r.robot /\ Passage(r, first).resource = corridor
           /\ Contains(Passage(r, first).window, t)
  BY PassageOfRun
<1>. QED  BY <1>1

LEMMA ClaimantClaims ==
  ASSUME TimeRunsForward, Asked, NEW place, NEW t \in Int, NEW robot \in ClaimantsAt(place, t)
  PROVE  \E c \in Claims(Listed(routes)) :
           c.robot = robot /\ c.resource = place /\ Contains(c.window, t)
<1>1. PICK r \in Listed(routes) :
        /\ r.robot = robot
        /\ \E i \in DOMAIN r.nodes : PassesAt(r, i, place, t) \/ StandsAt(r, i, place, t)
  BY DEF ClaimantsAt, Listed
<1>2. Listed(routes) \subseteq Intents
  BY SeqIsList DEF Asked
<1>3. PICK i \in DOMAIN r.nodes : PassesAt(r, i, place, t) \/ StandsAt(r, i, place, t)
  BY <1>1
<1>4. CASE PausesAt(r, i, place, t)
  <2>1. place \in DOMAIN Corridors /\ r \in Intents /\ PassesAt(r, i, place, t)
    BY <1>2, <1>4 DEF PausesAt, PassesAt
  <2>2. \E c \in PassagesOf(r) :
          c.robot = r.robot /\ c.resource = place /\ Contains(c.window, t)
    BY <2>1, PassageCovers
  <2>. QED  BY <1>1, <2>2 DEF Claims, Passages
<1>5. CASE ~PausesAt(r, i, place, t)
  BY <1>1, <1>2, <1>3, <1>5, DriveIsClaimed, StandIsClaimed DEF Claims, PassesAt
<1>. QED  BY <1>4, <1>5

LEMMA HolderHolds ==
  ASSUME NEW place, NEW t, NEW robot \in HoldersAt(place, t)
  PROVE  \E g \in HeldOf(Listed(reservations)) :
           g.robot = robot /\ g.resource = place /\ Contains(g.window, t)
BY DEF HoldersAt, HeldOf, Listed

LEMMA GrantsMeet ==
  ASSUME TimeRunsForward, Answered, NEW place \in Places, NEW t \in Int
  PROVE  GrantsThatCrowdMeet(place, t)
<1> DEFINE F == Listed(routes)
           G == Listed(reservations)
           H == HeldOf(G)
           S == H \cup Claims(F)
<1>1. /\ F \subseteq Intents /\ G \subseteq Reservation
      /\ IsFiniteSet(H) /\ IsFiniteSet(S) /\ place # None
  <2>1. IsFiniteSet(G) /\ IsFiniteSet(Claims(F))
    BY SeqIsList, ListedIsFinite, FiniteClaims DEF Answered, Asked
  <2>2. IsFiniteSet(H)
    BY <2>1, FS_Subset DEF HeldOf
  <2>. QED  BY <2>1, <2>2, FS_Union, SeqIsList, MapAssumption DEF Answered, Asked
<1>2. (\A c \in H : IsClaim(c)) /\ \A c \in S : IsClaim(c)
  <2>1. \A c \in H : IsClaim(c)
    BY <1>1, GrantTypes DEF HeldOf
  <2>2. \A c \in Claims(F) : IsClaim(c)
    BY <1>1, ClaimTypes DEF Claims
  <2>. QED  BY <2>1, <2>2
<1>3. HoldersAt(place, t) \subseteq DistinctRobotsAt(H, place, t)
  BY HolderHolds DEF DistinctRobotsAt
<1>4. PresentAt(place, t) \subseteq DistinctRobotsAt(S, place, t)
  BY HolderHolds, ClaimantClaims DEF DistinctRobotsAt, PresentAt, Answered
<1>5. CandidateSet(F, G) = CandidateSet(Listed(routes), Listed(reservations))
  OBVIOUS
<1> HIDE DEF F
<1>6. ASSUME TooMany(HoldersAt(place, t), place),
             NEW a \in HoldersAt(place, t), NEW b \in HoldersAt(place, t), a # b
      PROVE  Reported(a, b, place)
  <2>1. PICK g \in H : g.robot = a /\ g.resource = place /\ Contains(g.window, t)
    BY HolderHolds
  <2>2. PICK h \in H : h.robot = b /\ h.resource = place /\ Contains(h.window, t)
    BY HolderHolds
  <2> HIDE DEF G, H
  <2>3. IsCapacityConflict(g, h, H, CapacityOf(place))
    BY <1>1, <1>2, <1>3, <1>6, <2>1, <2>2, CrowdMeets
  <2>4. ReservationType(H)[<<g, h>>] # None
    BY <2>1, <2>3, MapAssumption DEF ReservationType, ConflictType
  <2>5. Candidate(g, h, g.resource, ReservationType(H)[<<g, h>>]) \in ReservationSet(G)
    BY <2>4, PairIsSaid DEF ReservationSet, H
  <2>6. Candidate(g, h, place, ReservationType(H)[<<g, h>>]) \in CandidateSet(F, G)
    BY <2>1, <2>5 DEF CandidateSet
  <2>. QED  BY <1>2, <1>5, <2>1, <2>2, <2>6, CandidateIsReported
<1>7. ASSUME TooMany(PresentAt(place, t), place),
             NEW a \in ClaimantsAt(place, t), NEW b \in HoldersAt(place, t), a # b
      PROVE  Reported(a, b, place)
  <2>1. PICK c \in Claims(F) : c.robot = a /\ c.resource = place /\ Contains(c.window, t)
    BY ClaimantClaims DEF Answered, F
  <2>2. PICK g \in H : g.robot = b /\ g.resource = place /\ Contains(g.window, t)
    BY HolderHolds
  <2>3. c \in S /\ g \in S
    OBVIOUS
  <2> HIDE DEF S
  <2>4. IsCapacityConflict(g, c, S, CapacityOf(place))
    BY <1>1, <1>2, <1>4, <1>7, <2>1, <2>2, <2>3, CrowdMeets
  <2>5. ExceedsWith(g, c, S)
    BY <2>1, <2>4 DEF ExceedsWith
  <2>6. Candidate(g, c, c.resource, "temporal") \in MixedSet(G, Claims(F))
    BY <2>1, <2>2, <2>5 DEF MixedSet, S
  <2>7. Candidate(g, c, place, "temporal") \in CandidateSet(F, G)
    BY <2>1, <2>6 DEF CandidateSet
  <2>8. Reported(b, a, place)
    BY <1>2, <1>5, <2>1, <2>2, <2>3, <2>7, CandidateIsReported
  <2>. QED  BY <2>8 DEF Reported
<1>. QED  BY <1>6, <1>7 DEF GrantsThatCrowdMeet, AllMeet
LEMMA RoutesMeet ==
  ASSUME SharedEdgesAreLanes, TimeRunsForward, Answered,
         NEW place \in Places, NEW t \in Int
  PROVE  RoutesThatCrowdMeet(place, t)
<1> DEFINE F == Listed(routes)
           G == Listed(reservations)
           R == ClaimantsAt(place, t)
           Drives(r) == \E i \in DOMAIN r.nodes : PassesAt(r, i, place, t)
           Rests(r) == \E i \in DOMAIN r.nodes : StandsAt(r, i, place, t)
<1> SUFFICES ASSUME TooMany(R, place), place \notin DOMAIN Intersections,
                    NEW a \in R, NEW b \in R, a # b
             PROVE  Reported(a, b, place)
  BY DEF RoutesThatCrowdMeet, AllMeet
<1>1. /\ routes \in Seq(Intents) /\ reservations \in Seq(Reservation)
      /\ F \subseteq Intents /\ place # None
  BY SeqIsList, MapAssumption DEF Answered, Asked
<1>2. /\ IsFiniteSet(Visits(F)) /\ IsFiniteSet(Traversals(F)) /\ IsFiniteSet(Passages(F))
  BY <1>1, FiniteClaims
<1>3. \A robot \in R : \E r \in F : r.robot = robot /\ (Drives(r) \/ Rests(r))
  BY DEF ClaimantsAt, Listed
<1>4. \A r \in F : /\ \A i \in DOMAIN r.segments : r.segments[i].edge \in Seqs!ToSet(EdgeIds)
                   /\ \A i \in DOMAIN r.nodes : r.nodes[i] \in Seqs!ToSet(NodeIds)
  BY <1>1, RouteTypes
<1>5. ASSUME NEW r \in F, NEW i, StandsAt(r, i, place, t)
      PROVE  IntersectionAt(r.nodes[i]) = None /\ place \in Seqs!ToSet(NodeIds)
  BY <1>1, <1>4, <1>5, StandIsClaimed DEF StandsAt
<1>6. ASSUME NEW r \in F, NEW i, PassesAt(r, i, place, t)
      PROVE  /\ r.segments[i].edge \in Seqs!ToSet(EdgeIds)
             /\ ResourceOfEdge(r.segments[i].edge) = place
             /\ place \notin Seqs!ToSet(NodeIds)
             /\ place \notin DOMAIN Corridors => DrivesAt(r, i, place, t)
  BY <1>4, <1>6 DEF PassesAt, DrivesAt, PausesAt, InCorridor, SharedEdgesAreLanes
<1> HIDE DEF F
<1>7. CASE place \in Seqs!ToSet(NodeIds)
  <2> DEFINE S == VisitsAt(Visits(F), place)
  <2>1. ASSUME NEW robot \in R
        PROVE  \E c \in S : c.robot = robot /\ c.resource = place /\ c.node = place
                            /\ Contains(c.window, t)
    <3>1. PICK r \in F : r.robot = robot /\ \E i \in DOMAIN r.nodes : StandsAt(r, i, place, t)
      BY <1>3, <1>6, <1>7
    <3>2. PICK i \in DOMAIN r.nodes : StandsAt(r, i, place, t)
      BY <3>1
    <3>3. IntersectionAt(r.nodes[i]) = None
      BY <1>5, <3>2
    <3>4. /\ Visit(r, i) \in Visits(F) /\ Visit(r, i).robot = r.robot
          /\ Visit(r, i).node = place /\ Visit(r, i).resource = place
          /\ Contains(Visit(r, i).window, t)
      BY <1>1, <3>2, <3>3, StandIsClaimed
    <3>. QED  BY <3>1, <3>4 DEF VisitsAt
  <2>2. IsFiniteSet(S) /\ \A c \in S : IsClaim(c)
    BY <1>1, <1>2, FS_Subset, ClaimTypes DEF VisitsAt
  <2> HIDE DEF S, R
  <2>3. R \subseteq DistinctRobotsAt(S, place, t)
    BY <2>1 DEF DistinctRobotsAt
  <2>4. PICK c \in S : c.robot = a /\ c.resource = place /\ c.node = place
                       /\ Contains(c.window, t)
    BY <2>1
  <2>5. PICK d \in S : d.robot = b /\ d.resource = place /\ d.node = place
                       /\ Contains(d.window, t)
    BY <2>1
  <2>6. IsCapacityConflict(c, d, S, CapacityOf(place))
    BY <1>1, <2>2, <2>3, <2>4, <2>5, CrowdMeets
  <2>7. IsNodeConflict(c, d)
    BY <2>4, <2>5, <2>6 DEF IsNodeConflict, IsCapacityConflict, IsTemporalConflict
  <2>8. NodeType(S)[<<c, d>>] # None
    BY <2>4, <2>6, <2>7, MapAssumption DEF NodeType, ConflictType
  <2>9. Candidate(c, d, c.resource, NodeType(S)[<<c, d>>]) \in Pairs(S, NodeType(S))
    BY <2>8, PairIsSaid
  <2>10. Candidate(c, d, place, NodeType(S)[<<c, d>>]) \in NodeSet(Visits(F))
    BY <1>7, <2>4, <2>9 DEF NodeSet, S
  <2>11. Candidate(c, d, place, NodeType(S)[<<c, d>>]) \in CandidateSet(F, G)
    BY <2>10 DEF CandidateSet
  <2>. QED  BY <2>2, <2>4, <2>5, <2>11, CandidateIsReported DEF F
<1>8. ASSUME place \notin Seqs!ToSet(NodeIds), NEW robot \in R
      PROVE  \E r \in F : r.robot = robot /\ \E i \in DOMAIN r.nodes : PassesAt(r, i, place, t)
  BY <1>3, <1>5, <1>8
<1>9. CASE place \notin Seqs!ToSet(NodeIds) /\ place \in DOMAIN Corridors
  <2> DEFINE S == Passages(F)
  <2>1. ASSUME NEW robot \in R
        PROVE  \E c \in S : c.robot = robot /\ c.resource = place /\ Contains(c.window, t)
    <3>1. PICK r \in F : r.robot = robot /\ \E i \in DOMAIN r.nodes : PassesAt(r, i, place, t)
      BY <1>8, <1>9
    <3>2. PICK i \in DOMAIN r.nodes : PassesAt(r, i, place, t)
      BY <3>1
    <3>3. \E c \in PassagesOf(r) :
            c.robot = r.robot /\ c.resource = place /\ Contains(c.window, t)
      BY <1>1, <1>9, <3>2, PassageCovers
    <3>. QED  BY <3>1, <3>3 DEF Passages
  <2>2. IsFiniteSet(S) /\ \A c \in S : IsClaim(c)
    BY <1>1, <1>2, ClaimTypes
  <2> HIDE DEF S, R
  <2>3. R \subseteq DistinctRobotsAt(S, place, t)
    BY <2>1 DEF DistinctRobotsAt
  <2>4. PICK c \in S : c.robot = a /\ c.resource = place /\ Contains(c.window, t)
    BY <2>1
  <2>5. PICK d \in S : d.robot = b /\ d.resource = place /\ Contains(d.window, t)
    BY <2>1
  <2>6. IsCapacityConflict(c, d, S, CapacityOf(place))
    BY <1>1, <2>2, <2>3, <2>4, <2>5, CrowdMeets
  <2>7. CorridorType(S)[<<c, d>>] # None
    BY <2>4, <2>6, MapAssumption DEF CorridorType, ConflictType
  <2>8. Candidate(c, d, c.resource, CorridorType(S)[<<c, d>>]) \in CorridorSet(S)
    BY <2>7, PairIsSaid DEF CorridorSet
  <2>9. Candidate(c, d, place, CorridorType(S)[<<c, d>>]) \in CandidateSet(F, G)
    BY <2>4, <2>8 DEF CandidateSet, S
  <2>. QED  BY <2>2, <2>4, <2>5, <2>9, CandidateIsReported DEF F
<1>10. CASE place \notin Seqs!ToSet(NodeIds) /\ place \notin DOMAIN Corridors
  <2>1. PICK r0 \in F : \E i \in DOMAIN r0.nodes : PassesAt(r0, i, place, t)
    BY <1>8, <1>10
  <2>2. PICK i0 : PassesAt(r0, i0, place, t)
    BY <2>1
  <2> DEFINE edge == r0.segments[i0].edge
             S == TraversalsOn(Traversals(F), edge)
  <2>3. edge \in Seqs!ToSet(EdgeIds) /\ ResourceOfEdge(edge) = place
    BY <1>6, <2>2
  <2>4. ASSUME NEW robot \in R
        PROVE  \E c \in S : c.robot = robot /\ c.resource = place /\ c.edge = edge
                            /\ Contains(c.window, t)
    <3>1. PICK r \in F : r.robot = robot /\ \E i \in DOMAIN r.nodes : PassesAt(r, i, place, t)
      BY <1>8, <1>10
    <3>2. PICK i \in DOMAIN r.nodes : PassesAt(r, i, place, t) /\ DrivesAt(r, i, place, t)
      BY <1>6, <1>10, <3>1
    <3>3. r.segments[i].edge \in Seqs!ToSet(EdgeIds) /\ ResourceOfEdge(r.segments[i].edge) = place
      BY <1>6, <3>2
    <3>4. r.segments[i].edge = edge
      BY <1>10, <2>3, <3>3 DEF SharedEdgesAreLanes
    <3>5. /\ Traversal(r, i) \in Traversals(F)
          /\ Traversal(r, i).robot = r.robot /\ Traversal(r, i).resource = place
          /\ Traversal(r, i).edge = r.segments[i].edge
          /\ Contains(Traversal(r, i).window, t)
      BY <1>1, <3>2, DriveIsClaimed
    <3>. QED  BY <3>1, <3>4, <3>5 DEF TraversalsOn
  <2>5. IsFiniteSet(S) /\ \A c \in S : IsClaim(c)
    BY <1>1, <1>2, FS_Subset, ClaimTypes DEF TraversalsOn
  <2> HIDE DEF S, R, edge
  <2>6. R \subseteq DistinctRobotsAt(S, place, t)
    BY <2>4 DEF DistinctRobotsAt
  <2>7. PICK c \in S : c.robot = a /\ c.resource = place /\ c.edge = edge
                       /\ Contains(c.window, t)
    BY <2>4
  <2>8. PICK d \in S : d.robot = b /\ d.resource = place /\ d.edge = edge
                       /\ Contains(d.window, t)
    BY <2>4
  <2>9. IsCapacityConflict(c, d, S, CapacityOf(place))
    BY <1>1, <2>5, <2>6, <2>7, <2>8, CrowdMeets
  <2>10. IsHeadOnOnEdge(c, d) \/ IsFollowing(c, d)
    BY <2>7, <2>8, <2>9 DEF IsHeadOnOnEdge, IsFollowing, MeetOnEdge,
                            IsCapacityConflict, IsTemporalConflict
  <2>11. EdgeType(S)[<<c, d>>] # None
    BY <2>7, <2>9, <2>10, MapAssumption DEF EdgeType, ConflictType
  <2>12. Candidate(c, d, c.resource, EdgeType(S)[<<c, d>>]) \in Pairs(S, EdgeType(S))
    BY <2>11, PairIsSaid
  <2>13. Candidate(c, d, place, EdgeType(S)[<<c, d>>]) \in EdgeSet(Traversals(F))
    BY <2>3, <2>7, <2>12 DEF EdgeSet, S
  <2>14. Candidate(c, d, place, EdgeType(S)[<<c, d>>]) \in CandidateSet(F, G)
    BY <2>13 DEF CandidateSet
  <2>. QED  BY <2>5, <2>7, <2>8, <2>14, CandidateIsReported DEF F
<1>. QED  BY <1>7, <1>9, <1>10

(* No contention of grants, or of routes with grants, goes unseen, on any  *)
(* map.                                                                    *)
THEOREM GrantedContentionIsFound ==
  ASSUME TimeRunsForward
  PROVE  Spec => [](\A place \in Places, t \in Int : GrantsThatCrowdMeet(place, t))
<1>1. Answered => \A place \in Places, t \in Int : GrantsThatCrowdMeet(place, t)
  BY GrantsMeet
<1>. QED  BY <1>1, DetectorAnswers, PTL

(* No contention at all, where edges that exclude each other are lanes of  *)
(* one corridor and routes are timed in the order they are driven.         *)
THEOREM ContentionIsFound ==
  ASSUME SharedEdgesAreLanes, TimeRunsForward
  PROVE  Spec => []EveryContentionIsFound
<1>1. Answered => EveryContentionIsFound
  BY GrantsMeet, RoutesMeet, FleetAssumption DEF EveryContentionIsFound
<1>. QED  BY <1>1, DetectorAnswers, PTL
-----------------------------------------------------------------------------
(* False alarms.  Whoever claims a place at an instant is there then.      *)
LEMMA PassageIsPresence ==
  ASSUME NEW r \in Intents, NEW first \in DOMAIN r.segments, OpensPassage(r, first),
         NEW t \in Int, Contains(Passage(r, first).window, t)
  PROVE  \E i \in DOMAIN r.segments : PassesAt(r, i, Passage(r, first).resource, t)
<1> DEFINE n == Len(r.segments)
           corridor == ResourceOfEdge(r.segments[first].edge)
           last == LastOfRun(r, first, corridor)
           start == [j \in 1..n |-> r.segments[j].window.start]
           B == {j \in first..last : start[j] <= t}
<1>1. /\ n \in Nat /\ DOMAIN r.segments = 1..n /\ first \in 1..n
      /\ \A k \in 1..n : r.segments[k].window \in Spans \cup {None}
  BY RouteTypes
<1>2. /\ corridor \in DOMAIN Corridors /\ InCorridor(r, first, corridor)
      /\ Passage(r, first).resource = corridor
      /\ Passage(r, first).window = Window(r.segments[first].window.start,
                                           r.segments[last].window.end)
  BY DEF OpensPassage, Passage
<1> HIDE DEF corridor
<1>3. /\ last \in first..n /\ \A k \in first..last : InCorridor(r, k, corridor)
  BY <1>2, RunGoesOn
<1> HIDE DEF last, n
<1>4. ASSUME NEW k \in first..last
      PROVE  /\ k \in 1..n /\ start[k] = r.segments[k].window.start
             /\ InCorridor(r, k, corridor)
             /\ r.segments[k].window # None
             /\ ResourceOfEdge(r.segments[k].edge) = corridor
             /\ r.segments[k].window.start \in Int /\ r.segments[k].window.end \in Int
  <2>1. k \in 1..n
    BY <1>1, <1>3
  <2>2. InCorridor(r, k, corridor)
    BY <1>3
  <2>3. r.segments[k].window \in Spans
    BY <1>1, <2>1, <2>2 DEF InCorridor
  <2>. QED  BY <2>1, <2>2, <2>3, SpanFields DEF InCorridor
<1>5. /\ r.segments[first].window.start <= t /\ t < r.segments[last].window.end
  BY <1>2 DEF Contains, Window
<1>6. first \in first..last /\ last \in first..last
  BY <1>1, <1>3
<1> HIDE DEF start
<1>7. first \in B /\ IsFiniteSet(B) /\ B \subseteq Int
  <2>1. start[first] <= t
    BY <1>4, <1>5, <1>6
  <2>2. IsFiniteSet(first..last) /\ first..last \subseteq Int
    BY <1>1, <1>3, FS_Interval
  <2>. QED  BY <1>6, <2>1, <2>2, FS_Subset
<1>8. PICK m \in B : \A j \in B : j <= m
  <2> HIDE DEF B
  <2>. QED  BY <1>7, LatestInstant
<1>9. m \in first..last /\ m \in 1..n /\ r.segments[m].window.start <= t
  BY <1>4, <1>8
<1>10. CASE t < r.segments[m].window.end
  <2>1. DrivesAt(r, m, corridor, t)
    BY <1>1, <1>4, <1>9, <1>10 DEF DrivesAt, Contains
  <2>. QED  BY <1>1, <1>2, <1>9, <2>1 DEF PassesAt
<1>11. CASE ~(t < r.segments[m].window.end)
  <2>1. m # last
    BY <1>5, <1>11
  <2>2. m + 1 \in first..last /\ ~(m + 1 <= m)
    BY <1>1, <1>3, <1>9, <2>1
  <2>3. m + 1 \notin B
    BY <1>8, <2>2
  <2>4. ~(start[m + 1] <= t)
    BY <2>2, <2>3
  <2>5. t < r.segments[m + 1].window.start /\ r.segments[m].window.end <= t
    BY <1>4, <1>9, <1>11, <2>2, <2>4
  <2>6. PausesAt(r, m, corridor, t)
    BY <1>2, <1>4, <1>9, <2>2, <2>5 DEF PausesAt
  <2>. QED  BY <1>1, <1>2, <1>9, <2>6 DEF PassesAt
<1>. QED  BY <1>10, <1>11

LEMMA ClaimIsPresence ==
  ASSUME Asked, NEW c \in Claims(Listed(routes)), NEW t \in Int, Contains(c.window, t)
  PROVE  c.robot \in ClaimantsAt(c.resource, t)
<1> DEFINE F == Listed(routes)
<1>1. F \subseteq Intents
  BY SeqIsList DEF Asked
<1>2. ASSUME NEW r \in F, NEW i \in DOMAIN r.nodes, NEW place,
             PassesAt(r, i, place, t) \/ StandsAt(r, i, place, t)
      PROVE  r.robot \in ClaimantsAt(place, t)
  BY <1>2 DEF ClaimantsAt, Listed
<1>3. \A r \in F : DOMAIN r.segments \subseteq DOMAIN r.nodes
  <2> SUFFICES ASSUME NEW r \in F PROVE DOMAIN r.segments \subseteq DOMAIN r.nodes
    OBVIOUS
  <2>. QED  BY <1>1, RouteTypes
<1>4. CASE c \in Visits(F)
  <2>1. PICK r \in F : c \in VisitsOf(r)
    BY <1>4 DEF Visits
  <2>2. PICK i \in DOMAIN r.nodes : /\ IntersectionAt(r.nodes[i]) = None
                                    /\ NodeWindow(r, i) # None /\ c = Visit(r, i)
    BY <2>1 DEF VisitsOf
  <2>3. StandsAt(r, i, c.resource, t) /\ c.robot = r.robot
    BY <2>2 DEF StandsAt, Visit
  <2>. QED  BY <1>2, <2>3
<1>5. CASE c \in Traversals(F)
  <2>1. PICK r \in F : c \in TraversalsOf(r)
    BY <1>5 DEF Traversals
  <2>2. PICK i \in DOMAIN r.segments : r.segments[i].window # None /\ c = Traversal(r, i)
    BY <2>1 DEF TraversalsOf
  <2>3. PassesAt(r, i, c.resource, t) /\ c.robot = r.robot
    BY <2>2 DEF PassesAt, DrivesAt, Traversal
  <2>. QED  BY <1>2, <1>3, <2>3
<1>6. CASE c \in Passages(F)
  <2>1. PICK r \in F : c \in PassagesOf(r)
    BY <1>6 DEF Passages
  <2>2. PICK first \in DOMAIN r.segments : OpensPassage(r, first) /\ c = Passage(r, first)
    BY <2>1 DEF PassagesOf
  <2>3. c.robot = r.robot
    BY <2>2 DEF Passage
  <2>4. PICK i \in DOMAIN r.segments : PassesAt(r, i, c.resource, t)
    BY <1>1, <2>2, PassageIsPresence
  <2>. QED  BY <1>2, <1>3, <2>3, <2>4
<1>7. CASE c \in Crossings(F)
  <2>1. PICK r \in F : c \in CrossingsOf(r)
    BY <1>7 DEF Crossings
  <2>2. PICK i \in DOMAIN r.nodes : /\ IntersectionAt(r.nodes[i]) # None
                                    /\ NodeWindow(r, i) # None /\ c = Crossing(r, i)
    BY <2>1 DEF CrossingsOf
  <2>3. StandsAt(r, i, c.resource, t) /\ c.robot = r.robot
    BY <2>2 DEF StandsAt, Crossing
  <2>. QED  BY <1>2, <2>3
<1>. QED  BY <1>4, <1>5, <1>6, <1>7 DEF Claims

LEMMA HeldIsPresence ==
  ASSUME NEW g \in HeldOf(Listed(reservations)), NEW t, Contains(g.window, t)
  PROVE  g.robot \in HoldersAt(g.resource, t)
BY DEF HeldOf, HoldersAt, Listed

LEMMA PresentIsFinite ==
  ASSUME Asked, NEW place, NEW t
  PROVE  IsFiniteSet(PresentAt(place, t)) /\ Cardinality(PresentAt(place, t)) \in Nat
<1> DEFINE R == {r \in Listed(routes) :
                   \E i \in DOMAIN r.nodes : PassesAt(r, i, place, t) \/ StandsAt(r, i, place, t)}
           H == {g \in Listed(reservations) :
                   g.state \in Holding /\ g.resource = place /\ Contains(g.window, t)}
           driver == [r \in R |-> r.robot]
           holder == [g \in H |-> g.robot]
<1>1. IsFiniteSet(R) /\ IsFiniteSet(H)
  <2>1. IsFiniteSet(Listed(routes)) /\ IsFiniteSet(Listed(reservations))
    BY SeqIsList, ListedIsFinite DEF Asked
  <2>. QED  BY <2>1, FS_Subset
<1>2. /\ ClaimantsAt(place, t) = {driver[r] : r \in R}
      /\ HoldersAt(place, t) = {holder[g] : g \in H}
  BY DEF ClaimantsAt, HoldersAt, Listed
<1> HIDE DEF R, H, driver, holder
<1>3. IsFiniteSet(ClaimantsAt(place, t)) /\ IsFiniteSet(HoldersAt(place, t))
  BY <1>1, <1>2, FiniteRange
<1>. QED  BY <1>3, FS_Union, FS_CardinalityType DEF PresentAt

(* A conflict of a and b in place, told to start at `start', happens.      *)
Happens(a, b, place, start) ==
  \E t \in Int :
    /\ t >= start
    /\ {a, b} \subseteq PresentAt(place, t)
    /\ \/ Cardinality(PresentAt(place, t)) > CapacityOf(place)
       \/ CannotCross(a, b, place, t)

LEMMA CrossingIsMutual ==
  ASSUME NEW a, NEW b, NEW place, NEW t, CannotCross(a, b, place, t)
  PROVE  CannotCross(b, a, place, t)
<1>1. PICK r \in Seqs!ToSet(routes), s \in Seqs!ToSet(routes) :
        \E i \in DOMAIN r.nodes, j \in DOMAIN s.nodes :
          /\ r.robot = a /\ s.robot = b /\ a # b
          /\ place \in DOMAIN Intersections
          /\ StandsAt(r, i, place, t) /\ StandsAt(s, j, place, t)
          /\ Excludes(place, MovementAt(r, i), MovementAt(s, j))
  BY DEF CannotCross
<1>2. ASSUME NEW m, NEW n PROVE Excludes(place, m, n) => Excludes(place, n, m)
  <2>1. {m, n} = {n, m}
    OBVIOUS
  <2>. QED  BY <2>1 DEF Excludes
<1>3. PICK i \in DOMAIN r.nodes, j \in DOMAIN s.nodes :
          /\ r.robot = a /\ s.robot = b /\ a # b
          /\ place \in DOMAIN Intersections
          /\ StandsAt(r, i, place, t) /\ StandsAt(s, j, place, t)
          /\ Excludes(place, MovementAt(r, i), MovementAt(s, j))
  BY <1>1
<1>4. Excludes(place, MovementAt(s, j), MovementAt(r, i))
  BY <1>2, <1>3
<1>. QED  BY <1>3, <1>4 DEF CannotCross

LEMMA CandidateHappens ==
  ASSUME NEW a, IsClaim(a), NEW b, IsClaim(b), NEW place, NEW type, NEW c,
         c = Candidate(a, b, place, type),
         Happens(a.robot, b.robot, place, OverlapOf(a.window, b.window).start)
  PROVE  Happens(c.robot_a, c.robot_b, c.resource, c.overlap.start)
<1>1. /\ c.resource = place /\ c.overlap.start = OverlapOf(a.window, b.window).start
      /\ \/ c.robot_a = a.robot /\ c.robot_b = b.robot
         \/ c.robot_a = b.robot /\ c.robot_b = a.robot
  BY DEF Candidate, IsClaim
<1>2. Happens(b.robot, a.robot, place, OverlapOf(a.window, b.window).start)
  BY CrossingIsMutual DEF Happens
<1>. QED  BY <1>1, <1>2

(* Claims that stand for presence, too many of them at once.               *)
LEMMA CapacityAlarmIsTrue ==
  ASSUME Asked, NEW S, IsFiniteSet(S),
         \A c \in S : IsClaim(c),
         \A c \in S, t \in Int : Contains(c.window, t) => c.robot \in PresentAt(c.resource, t),
         NEW a \in S, NEW b \in S, NEW place, a.resource = place,
         IsCapacityConflict(a, b, S, CapacityOf(place))
  PROVE  Happens(a.robot, b.robot, place, OverlapOf(a.window, b.window).start)
<1>1. /\ a.robot # b.robot /\ a.resource # None /\ a.resource = b.resource
      /\ CapacityOf(place) \in Nat
  BY CapacityIsACount DEF IsCapacityConflict, IsTemporalConflict
<1>2. \A c \in S : c.window.start \in Int /\ c.window.end \in Int /\ IsWindow(c.window)
  BY SpanFields DEF IsClaim
<1>3. PICK t \in Int :
        /\ Contains(a.window, t) /\ Contains(b.window, t)
        /\ Cardinality(DistinctRobotsAt(S, place, t)) > CapacityOf(place)
  BY <1>1, <1>2, CapacityConflictIsExact
<1>4. {a.robot, b.robot} \subseteq PresentAt(place, t)
  BY <1>1, <1>3
<1>5. Cardinality(PresentAt(place, t)) > CapacityOf(place)
  <2>1. DistinctRobotsAt(S, place, t) \subseteq PresentAt(place, t)
    BY DEF DistinctRobotsAt
  <2>2. IsFiniteSet(PresentAt(place, t)) /\ Cardinality(PresentAt(place, t)) \in Nat
    BY PresentIsFinite
  <2>3. /\ Cardinality(DistinctRobotsAt(S, place, t)) <= Cardinality(PresentAt(place, t))
        /\ Cardinality(DistinctRobotsAt(S, place, t)) \in Nat
    BY <2>1, <2>2, FS_Subset, FS_CardinalityType
  <2>. QED  BY <1>1, <1>3, <2>2, <2>3
<1>6. t >= OverlapOf(a.window, b.window).start
  <2>1. a.window \in Spans /\ b.window \in Spans
    BY DEF IsClaim
  <2>2. Contains(OverlapOf(a.window, b.window), t)
    BY <1>2, <1>3, SharedSpan
  <2>3. OverlapOf(a.window, b.window).start \in Int
    BY <2>1, OverlapIsShared
  <2>. QED  BY <2>2, <2>3 DEF Contains
<1>. QED  BY <1>4, <1>5, <1>6 DEF Happens

LEMMA PairIsTooMany ==
  ASSUME Asked, NEW a, NEW b, a # b, NEW place, NEW t, CapacityOf(place) <= 1,
         {a, b} \subseteq PresentAt(place, t)
  PROVE  Cardinality(PresentAt(place, t)) > CapacityOf(place)
<1>1. IsFiniteSet(PresentAt(place, t)) /\ Cardinality(PresentAt(place, t)) \in Nat
  BY PresentIsFinite
<1>2. Cardinality({a, b}) = 2
  <2>1. Cardinality({a}) = 1 /\ IsFiniteSet({a}) /\ {a} \cup {b} = {a, b}
    BY FS_Singleton
  <2>2. Cardinality({a} \cup {b}) = Cardinality({a}) + 1
    BY <2>1, FS_AddElement
  <2>. QED  BY <2>1, <2>2
<1>3. Cardinality({a, b}) <= Cardinality(PresentAt(place, t))
  BY <1>1, FS_Subset
<1>. QED  BY <1>1, <1>2, <1>3, CapacityIsACount

(* Two on one lane against each other are one too many.                    *)
LEMMA HeadOnAlarmIsTrue ==
  ASSUME Asked, NEW a \in Passages(Listed(routes)), NEW b \in Passages(Listed(routes)),
         IsHeadOnInCorridor(Corridors[a.resource], CapacityOf(a.resource), a, b)
  PROVE  Happens(a.robot, b.robot, a.resource, OverlapOf(a.window, b.window).start)
<1> DEFINE place == a.resource
           t == OverlapOf(a.window, b.window).start
<1>1. a.window \in Spans /\ b.window \in Spans
  BY SeqIsList, ClaimTypes DEF Asked, IsClaim
<1>2. /\ a.robot # b.robot /\ b.resource = place /\ CapacityOf(place) = 1
      /\ Overlaps(a.window, b.window)
  BY DEF IsHeadOnInCorridor, CanDeadlockHeadOn
<1>3. t \in Int /\ Contains(a.window, t) /\ Contains(b.window, t)
  BY <1>1, <1>2, SpanFields DEF OverlapOf, Window, Overlaps, Contains
<1> HIDE DEF t
<1>4. {a.robot, b.robot} \subseteq PresentAt(place, t)
  BY <1>2, <1>3, ClaimIsPresence DEF Claims, PresentAt
<1>5. Cardinality(PresentAt(place, t)) > CapacityOf(place)
  BY <1>2, <1>4, PairIsTooMany
<1>. QED  BY <1>3, <1>4, <1>5 DEF Happens, t

(* Two whose movements exclude each other meet where they do.              *)
LEMMA CrossingAlarmIsTrue ==
  ASSUME Asked, NEW a \in Crossings(Listed(routes)), NEW b \in Crossings(Listed(routes)),
         IsCrossing(Intersections[a.resource], a, b)
  PROVE  Happens(a.robot, b.robot, a.resource, OverlapOf(a.window, b.window).start)
<1> DEFINE place == a.resource
           t == OverlapOf(a.window, b.window).start
<1>1. a.window \in Spans /\ b.window \in Spans
  BY SeqIsList, ClaimTypes DEF Asked, IsClaim
<1>2. /\ a.robot # b.robot /\ b.resource = place /\ Overlaps(a.window, b.window)
      /\ \/ None \in {a.movement, b.movement}
         \/ /\ a.movement # b.movement
            /\ \E group \in Intersections[place].groups :
                 {a.movement, b.movement} \subseteq group
  BY DEF IsCrossing, MovementsConflict
<1>3. t \in Int /\ Contains(a.window, t) /\ Contains(b.window, t)
  BY <1>1, <1>2, SpanFields DEF OverlapOf, Window, Overlaps, Contains
<1> HIDE DEF t
<1>4. {a.robot, b.robot} \subseteq PresentAt(place, t)
  BY <1>2, <1>3, ClaimIsPresence DEF Claims, PresentAt
<1>5. ASSUME NEW c \in Crossings(Listed(routes)), Contains(c.window, t), c.resource = place
      PROVE  \E r \in Seqs!ToSet(routes) : \E i \in DOMAIN r.nodes :
               /\ r.robot = c.robot /\ StandsAt(r, i, place, t)
               /\ MovementAt(r, i) = c.movement /\ place \in DOMAIN Intersections
  <2>1. PICK r \in Listed(routes) : c \in CrossingsOf(r)
    BY DEF Crossings
  <2>2. PICK i \in DOMAIN r.nodes : /\ IntersectionAt(r.nodes[i]) # None
                                    /\ NodeWindow(r, i) # None /\ c = Crossing(r, i)
    BY <2>1 DEF CrossingsOf
  <2>3. /\ StandsAt(r, i, place, t) /\ c.robot = r.robot
        /\ MovementAt(r, i) = c.movement /\ place = IntersectionAt(r.nodes[i])
    BY <1>5, <2>2 DEF StandsAt, Crossing
  <2>4. place \in DOMAIN Intersections
    BY <2>2, <2>3 DEF IntersectionAt
  <2>. QED  BY <2>2, <2>3, <2>4 DEF Listed
<1>6. PICK r \in Seqs!ToSet(routes) : \E i \in DOMAIN r.nodes :
        /\ r.robot = a.robot /\ StandsAt(r, i, place, t)
        /\ MovementAt(r, i) = a.movement /\ place \in DOMAIN Intersections
  BY <1>3, <1>5
<1>7. PICK s \in Seqs!ToSet(routes) : \E j \in DOMAIN s.nodes :
        /\ s.robot = b.robot /\ StandsAt(s, j, place, t)
        /\ MovementAt(s, j) = b.movement /\ place \in DOMAIN Intersections
  BY <1>2, <1>3, <1>5
<1>8. a.movement # b.movement => Cardinality({a.movement, b.movement}) = 2
  <2> SUFFICES ASSUME a.movement # b.movement
               PROVE  Cardinality({a.movement, b.movement}) = 2
    OBVIOUS
  <2>1. /\ Cardinality({a.movement}) = 1 /\ IsFiniteSet({a.movement})
        /\ {a.movement} \cup {b.movement} = {a.movement, b.movement}
    BY FS_Singleton
  <2>2. Cardinality({a.movement} \cup {b.movement}) = Cardinality({a.movement}) + 1
    BY <2>1, FS_AddElement
  <2>. QED  BY <2>1, <2>2
<1>9. CannotCross(a.robot, b.robot, place, t)
  <2>1. PICK i \in DOMAIN r.nodes :
          /\ r.robot = a.robot /\ StandsAt(r, i, place, t)
          /\ MovementAt(r, i) = a.movement /\ place \in DOMAIN Intersections
    BY <1>6
  <2>2. PICK j \in DOMAIN s.nodes :
          /\ s.robot = b.robot /\ StandsAt(s, j, place, t) /\ MovementAt(s, j) = b.movement
    BY <1>7
  <2>3. Excludes(place, a.movement, b.movement)
    BY <1>2, <1>8 DEF Excludes
  <2> HIDE DEF place
  <2>. QED  BY <1>2, <2>1, <2>2, <2>3 DEF CannotCross
<1>. QED  BY <1>3, <1>4, <1>9 DEF Happens, t

CandidateIsTrue(c) == Happens(c.robot_a, c.robot_b, c.resource, c.overlap.start)

(* Presence of whoever claims by route or by grant.                        *)
LEMMA AnyClaimIsPresence ==
  ASSUME Asked
  PROVE  \A c \in HeldOf(Listed(reservations)) \cup Claims(Listed(routes)), t \in Int :
           Contains(c.window, t) => c.robot \in PresentAt(c.resource, t)
<1> SUFFICES ASSUME NEW c \in HeldOf(Listed(reservations)) \cup Claims(Listed(routes)),
                    NEW t \in Int, Contains(c.window, t)
             PROVE  c.robot \in PresentAt(c.resource, t)
  OBVIOUS
<1>1. CASE c \in HeldOf(Listed(reservations))
  BY <1>1, HeldIsPresence DEF PresentAt
<1>2. CASE c \in Claims(Listed(routes))
  BY <1>2, ClaimIsPresence DEF PresentAt
<1>. QED  BY <1>1, <1>2

(* A pass that says only what is true of pairs.                            *)
LEMMA PairsAreTrue ==
  ASSUME NEW S, \A c \in S : IsClaim(c), NEW type,
         \A a, b \in S : type[<<a, b>>] # None =>
           Happens(a.robot, b.robot, a.resource, OverlapOf(a.window, b.window).start),
         NEW c \in Pairs(S, type)
  PROVE  CandidateIsTrue(c)
<1>1. PICK p \in S \X S : type[p] # None /\ c = Candidate(p[1], p[2], p[1].resource, type[p])
  BY DEF Pairs
<1>2. p[1] \in S /\ p[2] \in S /\ p = <<p[1], p[2]>>
  OBVIOUS
<1>3. Happens(p[1].robot, p[2].robot, p[1].resource, OverlapOf(p[1].window, p[2].window).start)
  BY <1>1, <1>2
<1>. QED  BY <1>1, <1>2, <1>3, CandidateHappens DEF CandidateIsTrue

(* Nothing any pass says is false.                                         *)
LEMMA CandidatesAreTrue ==
  ASSUME Asked, NEW c \in CandidateSet(Listed(routes), Listed(reservations))
  PROVE  CandidateIsTrue(c)
<1> DEFINE F == Listed(routes)
           G == Listed(reservations)
           H == HeldOf(G)
           Whole == H \cup Claims(F)
<1>1. F \subseteq Intents /\ G \subseteq Reservation /\ IsFiniteSet(F) /\ IsFiniteSet(G)
  BY SeqIsList, ListedIsFinite DEF Asked
<1>2. /\ \A d \in Visits(F) : IsClaim(d) /\ d.resource = d.node
      /\ \A d \in Claims(F) : IsClaim(d)
  BY <1>1, ClaimTypes DEF Claims
<1>3. IsFiniteSet(Visits(F)) /\ IsFiniteSet(Traversals(F)) /\ IsFiniteSet(Passages(F))
      /\ IsFiniteSet(Crossings(F))
  BY FiniteClaims DEF Asked
<1>4. /\ \A d \in H : IsClaim(d)
      /\ IsFiniteSet(H)
  BY <1>1, GrantTypes, FS_Subset DEF HeldOf
<1>5. IsFiniteSet(Whole) /\ \A d \in Whole : IsClaim(d)
  BY <1>2, <1>3, <1>4, FS_Union DEF Claims
<1>6. \A d \in Whole, t \in Int : Contains(d.window, t) => d.robot \in PresentAt(d.resource, t)
  BY AnyClaimIsPresence
<1>7. ASSUME NEW S \in SUBSET Whole, NEW a \in S, NEW b \in S,
             IsCapacityConflict(a, b, S, CapacityOf(a.resource))
      PROVE  Happens(a.robot, b.robot, a.resource, OverlapOf(a.window, b.window).start)
  <2>1. IsFiniteSet(S)
    BY <1>5, FS_Subset
  <2>2. \A d \in S : IsClaim(d)
    BY <1>5
  <2>3. \A d \in S, t \in Int : Contains(d.window, t) => d.robot \in PresentAt(d.resource, t)
    BY <1>6
  <2>. QED  BY <1>7, <2>1, <2>2, <2>3, CapacityAlarmIsTrue
<1>8. /\ Visits(F) \subseteq Whole /\ Traversals(F) \subseteq Whole
      /\ Passages(F) \subseteq Whole /\ H \subseteq Whole /\ Crossings(F) \subseteq Whole
  BY DEF Claims
<1> HIDE DEF Whole, H, F, G
<1>9. CASE c \in NodeSet(Visits(F))
  <2>1. PICK node \in Seqs!ToSet(NodeIds) :
          c \in Pairs(VisitsAt(Visits(F), node), NodeType(VisitsAt(Visits(F), node)))
    BY <1>9 DEF NodeSet
  <2> DEFINE S == VisitsAt(Visits(F), node)
  <2>2. S \in SUBSET Whole /\ \A d \in S : IsClaim(d) /\ d.resource = d.node
    BY <1>2, <1>8 DEF VisitsAt
  <2>3. \A a, b \in S : NodeType(S)[<<a, b>>] # None =>
          IsCapacityConflict(a, b, S, CapacityOf(a.resource))
    BY <2>2 DEF NodeType
  <2> HIDE DEF S
  <2>4. \A a, b \in S : NodeType(S)[<<a, b>>] # None =>
          Happens(a.robot, b.robot, a.resource, OverlapOf(a.window, b.window).start)
    BY <1>7, <2>2, <2>3
  <2>. QED  BY <2>1, <2>2, <2>4, PairsAreTrue DEF S
<1>10. CASE c \in EdgeSet(Traversals(F))
  <2>1. PICK edge \in Seqs!ToSet(EdgeIds) :
          c \in Pairs(TraversalsOn(Traversals(F), edge), EdgeType(TraversalsOn(Traversals(F), edge)))
    BY <1>10 DEF EdgeSet
  <2> DEFINE S == TraversalsOn(Traversals(F), edge)
  <2>2. S \in SUBSET Whole /\ \A d \in S : IsClaim(d)
    BY <1>5, <1>8 DEF TraversalsOn
  <2>3. \A a, b \in S : EdgeType(S)[<<a, b>>] # None =>
          IsCapacityConflict(a, b, S, CapacityOf(a.resource))
    BY DEF EdgeType
  <2> HIDE DEF S
  <2>4. \A a, b \in S : EdgeType(S)[<<a, b>>] # None =>
          Happens(a.robot, b.robot, a.resource, OverlapOf(a.window, b.window).start)
    BY <1>7, <2>2, <2>3
  <2>. QED  BY <2>1, <2>2, <2>4, PairsAreTrue DEF S
<1>11. CASE c \in CorridorSet(Passages(F))
  <2> DEFINE S == Passages(F)
  <2>1. S \in SUBSET Whole /\ \A d \in S : IsClaim(d)
    BY <1>5, <1>8
  <2>2. \A a, b \in S : CorridorType(S)[<<a, b>>] # None =>
          \/ IsHeadOnInCorridor(Corridors[a.resource], CapacityOf(a.resource), a, b)
          \/ IsCapacityConflict(a, b, S, CapacityOf(a.resource))
    BY DEF CorridorType
  <2>3. ASSUME NEW a \in S, NEW b \in S, CorridorType(S)[<<a, b>>] # None
        PROVE  Happens(a.robot, b.robot, a.resource, OverlapOf(a.window, b.window).start)
    <3>1. CASE IsHeadOnInCorridor(Corridors[a.resource], CapacityOf(a.resource), a, b)
      BY <3>1, HeadOnAlarmIsTrue DEF F
    <3>2. CASE IsCapacityConflict(a, b, S, CapacityOf(a.resource))
      <4> HIDE DEF S
      <4>. QED  BY <1>7, <2>1, <3>2
    <3>. QED  BY <2>2, <2>3, <3>1, <3>2
  <2>4. c \in Pairs(S, CorridorType(S))
    BY <1>11 DEF CorridorSet
  <2> HIDE DEF S
  <2>. QED  BY <2>1, <2>3, <2>4, PairsAreTrue
<1>12. CASE c \in CrossingSet(Crossings(F))
  <2> DEFINE S == Crossings(F)
  <2>1. \A d \in S : IsClaim(d)
    BY <1>5, <1>8
  <2>2. \A a, b \in S : CrossingType(S)[<<a, b>>] # None =>
          IsCrossing(Intersections[a.resource], a, b)
    BY DEF CrossingType
  <2>3. ASSUME NEW a \in S, NEW b \in S, CrossingType(S)[<<a, b>>] # None
        PROVE  Happens(a.robot, b.robot, a.resource, OverlapOf(a.window, b.window).start)
    BY <2>2, <2>3, CrossingAlarmIsTrue DEF F
  <2>4. c \in Pairs(S, CrossingType(S))
    BY <1>12 DEF CrossingSet
  <2> HIDE DEF S
  <2>. QED  BY <2>1, <2>3, <2>4, PairsAreTrue
<1>13. CASE c \in ReservationSet(G)
  <2>1. \A a, b \in H : ReservationType(H)[<<a, b>>] # None =>
          IsCapacityConflict(a, b, H, CapacityOf(a.resource))
    BY DEF ReservationType
  <2>2. \A a, b \in H : ReservationType(H)[<<a, b>>] # None =>
          Happens(a.robot, b.robot, a.resource, OverlapOf(a.window, b.window).start)
    BY <1>7, <1>8, <2>1
  <2>3. c \in Pairs(H, ReservationType(H))
    BY <1>13 DEF ReservationSet, H
  <2>. QED  BY <1>4, <2>2, <2>3, PairsAreTrue
<1>14. CASE c \in MixedSet(G, Claims(F))
  <2>1. PICK g \in H, d \in Claims(F) :
          ExceedsWith(g, d, Whole) /\ c = Candidate(g, d, d.resource, "temporal")
    BY <1>14 DEF MixedSet, H, Whole
  <2>2. g \in Whole /\ d \in Whole
    BY <2>1 DEF Whole
  <2>3. IsCapacityConflict(g, d, Whole, CapacityOf(g.resource)) /\ g.resource = d.resource
    BY <2>1 DEF ExceedsWith, IsCapacityConflict, IsTemporalConflict
  <2>4. Happens(g.robot, d.robot, d.resource, OverlapOf(g.window, d.window).start)
    BY <1>7, <2>2, <2>3
  <2>. QED  BY <1>5, <2>1, <2>2, <2>4, CandidateHappens DEF CandidateIsTrue
<1>. QED  BY <1>9, <1>10, <1>11, <1>12, <1>13, <1>14 DEF CandidateSet, F, G

(* No alarm is false: robots that are said to be in conflict are in the    *)
(* place together, and it is full or their ways exclude each other.        *)
THEOREM AlarmsAreTrue ==
  ASSUME Instants = Int
  PROVE  Spec => []NoFalseAlarm
<1>1. Answered => NoFalseAlarm
  <2> SUFFICES ASSUME Answered, NEW key \in DOMAIN conflicts
               PROVE  \E t \in Int :
                        /\ t >= conflicts[key].start
                        /\ {key[1], key[2]} \subseteq PresentAt(key[3], t)
                        /\ \/ Cardinality(PresentAt(key[3], t)) > CapacityOf(key[3])
                           \/ CannotCross(key[1], key[2], key[3], t)
    BY DEF NoFalseAlarm
  <2> DEFINE best == Best(Candidates(routes, reservations))
             C == CandidateSet(Listed(routes), Listed(reservations))
  <2>1. IsTable(best, C)
    BY DetectorTable DEF Answered, Asked
  <2>2. conflicts = [k \in DOMAIN best |-> Told(best[k], now)]
    BY DEF Answered, Detect
  <2> HIDE DEF best, C
  <2>3. /\ best[key] \in C /\ KeyOfContention(best[key]) = key
        /\ conflicts[key].start = best[key].overlap.start
    BY <2>1, <2>2 DEF IsTable, Told
  <2>4. CandidateIsTrue(best[key])
    BY <2>3, CandidatesAreTrue DEF Answered, C
  <2>5. /\ key[1] = best[key].robot_a /\ key[2] = best[key].robot_b
        /\ key[3] = best[key].resource
    BY <2>3 DEF KeyOfContention
  <2>. QED  BY <2>3, <2>4, <2>5 DEF CandidateIsTrue, Happens
<1>. QED  BY <1>1, DetectorAnswers, PTL
-----------------------------------------------------------------------------
(* Exclusion.  A robot that runs along a corridor one way at one segment   *)
(* does so at every segment of the run, and from end to end.               *)
IsLine(order, L) == \A k, l \in 1..L : order[k] = order[l] => k = l

GoesAlong(order, L, nodes, first, m) ==
  /\ \A j \in 0..m : \E k \in 1..(L - 1) :
       {nodes[first + j], nodes[first + j + 1]} = {order[k], order[k + 1]}
  /\ \A j \in 1..m : nodes[first + j - 1] # nodes[first + j + 1]

(* From the node at `start' one way or the other.                          *)
GoesFrom(order, L, nodes, first, m, start, dir) ==
  \A j \in 0..m :
    LET here == IF dir = 1 THEN start + j ELSE start - j
        next == IF dir = 1 THEN start + j + 1 ELSE start - j - 1
    IN  /\ here \in 1..L /\ order[here] = nodes[first + j]
        /\ next \in 1..L /\ order[next] = nodes[first + j + 1]

LEMMA RunKeepsStep ==
  ASSUME NEW L \in Nat, NEW order, IsLine(order, L),
         NEW nodes, NEW m \in Nat, NEW first \in Int, GoesAlong(order, L, nodes, first, m),
         NEW start \in 1..L, NEW dir \in {1, -1},
         order[start] = nodes[first],
         dir = 1 => start + 1 \in 1..L /\ order[start + 1] = nodes[first + 1],
         dir = -1 => start - 1 \in 1..L /\ order[start - 1] = nodes[first + 1]
  PROVE  GoesFrom(order, L, nodes, first, m, start, dir)
<1> DEFINE here(j) == IF dir = 1 THEN start + j ELSE start - j
           next(j) == IF dir = 1 THEN start + j + 1 ELSE start - j - 1
           P == {j \in 0..m : /\ here(j) \in 1..L /\ order[here(j)] = nodes[first + j]
                              /\ next(j) \in 1..L /\ order[next(j)] = nodes[first + j + 1]}
<1>0. /\ \A k, l \in 1..L : order[k] = order[l] => k = l
      /\ \A j \in 0..m : \E k \in 1..(L - 1) :
           {nodes[first + j], nodes[first + j + 1]} = {order[k], order[k + 1]}
      /\ \A j \in 1..m : nodes[first + j - 1] # nodes[first + j + 1]
  BY DEF IsLine, GoesAlong
<1>1. 0 \in P
  OBVIOUS
<1>2. ASSUME NEW j \in 1..m, j - 1 \in P
      PROVE  j \in P
  <2>1. /\ here(j - 1) \in 1..L /\ order[here(j - 1)] = nodes[first + j - 1]
        /\ next(j - 1) \in 1..L /\ order[next(j - 1)] = nodes[first + j]
    <3>1. first + (j - 1) = first + j - 1 /\ first + (j - 1) + 1 = first + j
      OBVIOUS
    <3>. QED  BY <1>2, <3>1
  <2>2. next(j - 1) = here(j) /\ here(j) \in Int /\ j \in 0..m
    OBVIOUS
  <2>3. PICK k \in 1..(L - 1) :
          {nodes[first + j], nodes[first + j + 1]} = {order[k], order[k + 1]}
    BY <1>0, <2>2
  <2>4. nodes[first + j - 1] # nodes[first + j + 1]
    BY <1>0
  <2>5. k \in 1..L /\ k + 1 \in 1..L
    OBVIOUS
  <2>6. CASE nodes[first + j] = order[k] /\ nodes[first + j + 1] = order[k + 1]
    <3>1. here(j) = k
      BY <1>0, <2>1, <2>2, <2>5, <2>6
    <3>2. here(j - 1) # k + 1
      BY <2>1, <2>4, <2>6
    <3>3. dir = 1
      BY <3>1, <3>2
    <3>4. next(j) = k + 1
      BY <3>1, <3>3
    <3> HIDE DEF here, next
    <3>. QED  BY <2>2, <2>5, <2>6, <3>1, <3>4
  <2>7. CASE nodes[first + j] = order[k + 1] /\ nodes[first + j + 1] = order[k]
    <3>1. here(j) = k + 1
      BY <1>0, <2>1, <2>2, <2>5, <2>7
    <3>2. here(j - 1) # k
      BY <2>1, <2>4, <2>7
    <3>3. dir = -1
      BY <3>1, <3>2
    <3>4. next(j) = k
      BY <3>1, <3>3
    <3> HIDE DEF here, next
    <3>. QED  BY <2>2, <2>5, <2>7, <3>1, <3>4
  <2>. QED  BY <2>3, <2>6, <2>7
<1>3. 0..m \subseteq P
  <2> HIDE DEF P
  <2>. QED  BY <1>1, <1>2, InductionUpTo
<1>. QED  BY <1>3 DEF GoesFrom

(* The one place of a node in a corridor is its first.                     *)
LEMMA OnlyPlaceIsFirst ==
  ASSUME NEW order, \A x, y \in DOMAIN order : order[x] = order[y] => x = y,
         NEW node, NEW p \in DOMAIN order, p \in Int, order[p] = node
  PROVE  Sets!Min({i \in DOMAIN order : order[i] = node}) = p
<1>1. {i \in DOMAIN order : order[i] = node} = {p}
  OBVIOUS
<1>2. Sets!Min({p}) = CHOOSE x \in {p} : \A y \in {p} : x <= y
  BY DEF Sets!Min
<1>3. p <= p
  OBVIOUS
<1>. QED  BY <1>1, <1>2, <1>3

LEMMA PassageRunsAsDriven ==
  ASSUME CorridorsAreLines, RoutesFollowCorridors,
         NEW r \in Intents, NEW first \in DOMAIN r.segments, OpensPassage(r, first),
         NEW corridor, corridor = ResourceOfEdge(r.segments[first].edge),
         NEW i \in first..LastOfRun(r, first, corridor)
  PROVE  Passage(r, first).direction =
           IF RunsForward(r, i, Corridors[corridor]) THEN "entry_to_exit" ELSE "exit_to_entry"
<1> DEFINE n == Len(r.segments)
           last == LastOfRun(r, first, corridor)
           order == CorridorNodeOrder(Corridors[corridor])
           L == Len(order)
           m == last - first
           nodes == r.nodes
<1>1. /\ n \in Nat /\ DOMAIN r.segments = 1..n /\ first \in 1..n
      /\ corridor \in DOMAIN Corridors /\ InCorridor(r, first, corridor)
  BY RouteTypes DEF OpensPassage
<1>2. last \in first..n /\ \A k \in first..last : InCorridor(r, k, corridor)
  BY <1>1, RunGoesOn
<1>3. /\ L \in Nat /\ DOMAIN order = 1..L
      /\ \A k, l \in 1..L : order[k] = order[l] => k = l
  <2>1. order \in Seq(Seqs!ToSet(NodeIds))
    BY <1>1 DEF CorridorsAreLines
  <2>2. L \in Nat /\ DOMAIN order = 1..L
    <3> HIDE DEF order
    <3>. QED  BY <2>1, LenProperties
  <2>3. \A x, y \in DOMAIN order : order[x] = order[y] => x = y
    BY <1>1 DEF CorridorsAreLines
  <2> HIDE DEF order, L
  <2>. QED  BY <2>2, <2>3
<1>4. ASSUME NEW k \in first..last
      PROVE  /\ \E l \in 1..(L - 1) : {nodes[k], nodes[k + 1]} = {order[l], order[l + 1]}
             /\ k < last => nodes[k] # nodes[k + 2]
  <2>1. k \in 1..n /\ InCorridor(r, k, corridor)
    BY <1>1, <1>2
  <2>2. k < last => InCorridor(r, k + 1, corridor)
    <3>1. k < last => k + 1 \in first..last
      BY <1>1, <1>2
    <3>. QED  BY <1>2, <3>1
  <2>3. k \in DOMAIN r.segments
    BY <1>1, <2>1
  <2>4. /\ \E l \in 1..(L - 1) : {nodes[k], nodes[k + 1]} = {order[l], order[l + 1]}
        /\ InCorridor(r, k + 1, corridor) => nodes[k] # nodes[k + 2]
    <3>1. GoesOnAlong(r, k, corridor)
      BY <1>1, <2>1, <2>3 DEF RoutesFollowCorridors
    <3>. QED  BY <3>1 DEF GoesOnAlong
  <2>. QED  BY <2>2, <2>4
<1>5. Passage(r, first).direction =
        LET First(node) == Sets!Min({x \in DOMAIN order : order[x] = node})
        IN  IF First(nodes[first]) < First(nodes[last + 1])
            THEN "entry_to_exit" ELSE "exit_to_entry"
  BY DEF Passage, PassageDirection
<1>6. m \in Nat /\ first \in Int /\ i - first \in 0..m /\ m \in 0..m /\ last = first + m
  BY <1>1, <1>2
<1>7. RunsForward(r, i, Corridors[corridor]) <=>
        \E k \in 1..(L - 1) : order[k] = nodes[i] /\ order[k + 1] = nodes[i + 1]
  BY DEF RunsForward
<1> HIDE DEF order, L, last, m, nodes
<1>8. PICK l \in 1..(L - 1) :
        {nodes[first], nodes[first + 1]} = {order[l], order[l + 1]}
  <2>1. first \in first..last
    BY <1>1, <1>2
  <2>. QED  BY <1>4, <2>1
<1>9. GoesAlong(order, L, nodes, first, m)
  <2>1. ASSUME NEW j \in 0..m
        PROVE  \E k \in 1..(L - 1) :
                 {nodes[first + j], nodes[first + j + 1]} = {order[k], order[k + 1]}
    <3>1. first + j \in first..last
      BY <1>6
    <3>. QED  BY <1>4, <3>1
  <2>2. ASSUME NEW j \in 1..m
        PROVE  nodes[first + j - 1] # nodes[first + j + 1]
    <3>1. /\ first + j - 1 \in first..last /\ first + j - 1 < last
          /\ (first + j - 1) + 2 = first + j + 1
      BY <1>6
    <3>. QED  BY <1>4, <3>1
  <2>. QED  BY <2>1, <2>2 DEF GoesAlong
<1> DEFINE Runs(start, dir) == GoesFrom(order, L, nodes, first, m, start, dir)
<1>10. ASSUME NEW start \in 1..L, NEW dir \in {1, -1}, order[start] = nodes[first],
              dir = 1 => start + 1 \in 1..L /\ order[start + 1] = nodes[first + 1],
              dir = -1 => start - 1 \in 1..L /\ order[start - 1] = nodes[first + 1]
       PROVE  Runs(start, dir)
  <2>1. IsLine(order, L)
    BY <1>3 DEF IsLine
  <2>2. L \in Nat /\ m \in Nat /\ first \in Int
    BY <1>3, <1>6
  <2>3. GoesAlong(order, L, nodes, first, m)
    BY <1>9
  <2>4. /\ order[start] = nodes[first]
        /\ dir = 1 => start + 1 \in 1..L /\ order[start + 1] = nodes[first + 1]
        /\ dir = -1 => start - 1 \in 1..L /\ order[start - 1] = nodes[first + 1]
    BY <1>10
  <2>5. start \in 1..L /\ dir \in {1, -1}
    OBVIOUS
  <2>6. GoesFrom(order, L, nodes, first, m, start, dir)
    BY <2>1, <2>2, <2>3, <2>4, <2>5, RunKeepsStep, Zenon
  <2>. QED  BY <2>6
<1>11. ASSUME NEW start \in 1..L, NEW dir \in {1, -1}, order[start] = nodes[first],
              Runs(start, dir)
       PROVE  /\ RunsForward(r, i, Corridors[corridor]) <=> dir = 1
              /\ Passage(r, first).direction = IF dir = 1 THEN "entry_to_exit" ELSE "exit_to_entry"
  <2> DEFINE j == i - first
             here == IF dir = 1 THEN start + j ELSE start - j
             next == IF dir = 1 THEN start + j + 1 ELSE start - j - 1
             exit == IF dir = 1 THEN start + m + 1 ELSE start - m - 1
  <2>1. /\ here \in 1..L /\ order[here] = nodes[i]
        /\ next \in 1..L /\ order[next] = nodes[i + 1]
    <3>1. first + j = i /\ first + j + 1 = i + 1 /\ i \in Int
      BY <1>1, <1>2, <1>6
    <3>. QED  BY <1>6, <1>11, <3>1 DEF GoesFrom
  <2>2. exit \in 1..L /\ order[exit] = nodes[last + 1]
    BY <1>6, <1>11 DEF GoesFrom
  <2>3. j \in Nat /\ start \in Int
    BY <1>6
  <2>4. Sets!Min({x \in DOMAIN order : order[x] = nodes[first]}) = start
    <3>1. start \in DOMAIN order /\ start \in Int
      BY <1>3
    <3>2. \A x, y \in DOMAIN order : order[x] = order[y] => x = y
      BY <1>3
    <3>. QED  BY <1>11, <3>1, <3>2, OnlyPlaceIsFirst, Zenon
  <2>5. Sets!Min({x \in DOMAIN order : order[x] = nodes[last + 1]}) = exit
    <3> HIDE DEF exit
    <3>1. exit \in DOMAIN order /\ exit \in Int
      BY <1>3, <2>2
    <3>2. \A x, y \in DOMAIN order : order[x] = order[y] => x = y
      BY <1>3
    <3>. QED  BY <2>2, <3>1, <3>2, OnlyPlaceIsFirst, Zenon
  <2>6. (start < exit) <=> dir = 1
    BY <1>6
  <2> HIDE DEF j, exit
  <2>7. RunsForward(r, i, Corridors[corridor]) <=> dir = 1
    <3>1. CASE dir = 1
      <4>1. here \in 1..(L - 1) /\ next = here + 1
        BY <1>3, <2>1, <2>3, <3>1
      <4> HIDE DEF here, next
      <4>. QED  BY <1>7, <2>1, <3>1, <4>1
    <3>2. CASE dir = -1
      <4>1. next # here + 1
        BY <2>3, <3>2
      <4> HIDE DEF here, next
      <4>2. ASSUME NEW k \in 1..(L - 1), order[k] = nodes[i], order[k + 1] = nodes[i + 1]
            PROVE  FALSE
        <5>1. k \in 1..L /\ k + 1 \in 1..L
          BY <1>3
        <5>2. k = here /\ k + 1 = next
          BY <1>3, <2>1, <4>2, <5>1
        <5>. QED  BY <4>1, <5>2
      <4>. QED  BY <1>7, <3>2, <4>2
    <3>. QED  BY <3>1, <3>2
  <2>. QED  BY <1>5, <2>4, <2>5, <2>6, <2>7
<1>12. CASE nodes[first] = order[l] /\ nodes[first + 1] = order[l + 1]
  <2>1. l \in 1..L /\ l + 1 \in 1..L
    BY <1>3
  <2>2. Runs(l, 1)
    BY <1>10, <1>12, <2>1
  <2> HIDE DEF Runs
  <2>. QED  BY <1>11, <1>12, <2>1, <2>2
<1>13. CASE nodes[first] = order[l + 1] /\ nodes[first + 1] = order[l]
  <2>1. l + 1 \in 1..L /\ (l + 1) - 1 = l /\ l \in 1..L
    BY <1>3
  <2>2. Runs(l + 1, -1)
    BY <1>10, <1>13, <2>1
  <2> HIDE DEF Runs
  <2>. QED  BY <1>11, <1>13, <2>1, <2>2
<1>. QED  BY <1>8, <1>12, <1>13

(* What is found is told, and told of nothing less.                        *)
LEMMA CandidateIsTold ==
  ASSUME Answered, NEW a, IsClaim(a), NEW b, IsClaim(b), a.robot < b.robot,
         NEW place, NEW type \in ConflictType,
         Candidate(a, b, place, type) \in CandidateSet(Listed(routes), Listed(reservations)),
         NEW key, key = <<a.robot, b.robot, place>>
  PROVE  /\ key \in DOMAIN conflicts
         /\ \E c \in CandidateSet(Listed(routes), Listed(reservations)) :
              /\ c.resource = place /\ c.type \in ConflictType /\ c.overlap.start \in Int
              /\ Precedence(c.type) >= Precedence(type)
              /\ conflicts[key].type = c.type
              /\ conflicts[key].severity = SeverityFor(c.type, c.overlap, now)
<1> DEFINE best == Best(Candidates(routes, reservations))
           C == CandidateSet(Listed(routes), Listed(reservations))
           new == Candidate(a, b, place, type)
<1>1. IsTable(best, C) /\ conflicts = [k \in DOMAIN best |-> Told(best[k], now)]
  BY DetectorTable DEF Answered, Asked, Detect
<1>2. C \subseteq Descriptions(AnyPlace)
  BY SeqIsList, CandidatesAreDescriptions DEF Answered, Asked
<1>3. KeyOfContention(new) = key /\ new.type = type
  BY DEF KeyOfContention, Candidate, IsClaim
<1>4. new \in C
  OBVIOUS
<1> HIDE DEF best, C, new
<1>5. /\ key \in DOMAIN best /\ best[key] \in C /\ KeyOfContention(best[key]) = key
      /\ ~IsBetterDescription(new, best[key])
  BY <1>1, <1>3, <1>4 DEF IsTable
<1>6. best[key].resource = place
  BY <1>5 DEF KeyOfContention
<1>7. /\ best[key].type \in ConflictType /\ best[key].overlap.start \in Int
  BY <1>2, <1>5 DEF Descriptions
<1>8. Precedence(best[key].type) >= Precedence(type)
  <2>1. Precedence(best[key].type) \in Int /\ Precedence(type) \in Int
    BY <1>7, PrecedenceOrdersTypes
  <2>. QED  BY <1>3, <1>5, <2>1 DEF IsBetterDescription
<1>. QED  BY <1>1, <1>5, <1>6, <1>7, <1>8 DEF Told, C

LEMMA RanksOfExclusion ==
  /\ \A type \in ConflictType : Precedence(type) >= Precedence("head_on") => type = "head_on"
  /\ \A type \in ConflictType :
       Precedence(type) >= Precedence("crossing") => type \in {"crossing", "head_on"}
  /\ {"head_on", "crossing"} \subseteq ConflictType
<1>1. /\ Precedence("temporal") = 0 /\ Precedence("resource") = 1
      /\ Precedence("node") = 2 /\ Precedence("edge") = 3
      /\ Precedence("corridor") = 4 /\ Precedence("crossing") = 5
      /\ Precedence("head_on") = 6
  BY DEF Precedence
<1>. QED  BY <1>1 DEF ConflictType

(* Both claim the place at one instant.                                    *)
LEMMA MeetAtInstant ==
  ASSUME NEW v \in Spans, NEW w \in Spans, NEW t \in Int, Contains(v, t), Contains(w, t)
  PROVE  Overlaps(v, w)
BY SpanFields DEF Contains, Overlaps

LEMMA CannotPassIsTold ==
  ASSUME TimeRunsForward, CorridorsAreLines, RoutesFollowCorridors, Answered,
         NEW a \in Nat, NEW b \in Nat, a < b, NEW place, NEW t \in Int,
         CannotPass(a, b, place, t)
  PROVE  /\ Reported(a, b, place)
         /\ conflicts[<<a, b, place>>].type = "head_on"
         /\ conflicts[<<a, b, place>>].severity # "low"
<1> DEFINE F == Listed(routes)
           S == Passages(F)
<1>1. F \subseteq Intents
  BY SeqIsList DEF Answered, Asked
<1>2. PICK r \in F, s \in F : \E i \in DOMAIN r.segments, j \in DOMAIN s.segments :
        /\ r.robot = a /\ s.robot = b /\ a # b
        /\ place \in DOMAIN Corridors
        /\ CanDeadlockHeadOn(Corridors[place], CapacityOf(place))
        /\ PassesAt(r, i, place, t) /\ PassesAt(s, j, place, t)
        /\ ~(RunsForward(r, i, Corridors[place]) <=> RunsForward(s, j, Corridors[place]))
  BY DEF CannotPass, Listed
<1>3. PICK i \in DOMAIN r.segments, j \in DOMAIN s.segments :
        /\ r.robot = a /\ s.robot = b /\ a # b
        /\ place \in DOMAIN Corridors
        /\ CanDeadlockHeadOn(Corridors[place], CapacityOf(place))
        /\ PassesAt(r, i, place, t) /\ PassesAt(s, j, place, t)
        /\ ~(RunsForward(r, i, Corridors[place]) <=> RunsForward(s, j, Corridors[place]))
  BY <1>2
<1>4. r \in Intents /\ s \in Intents
  BY <1>1
<1>5. PICK first \in DOMAIN r.segments :
           /\ OpensPassage(r, first) /\ ResourceOfEdge(r.segments[first].edge) = place
           /\ i \in first..LastOfRun(r, first, place)
           /\ Passage(r, first) \in PassagesOf(r)
           /\ Passage(r, first).robot = r.robot /\ Passage(r, first).resource = place
           /\ Contains(Passage(r, first).window, t)
  BY <1>3, <1>4, PassageOfRun
<1>6. PICK other \in DOMAIN s.segments :
           /\ OpensPassage(s, other) /\ ResourceOfEdge(s.segments[other].edge) = place
           /\ j \in other..LastOfRun(s, other, place)
           /\ Passage(s, other) \in PassagesOf(s)
           /\ Passage(s, other).robot = s.robot /\ Passage(s, other).resource = place
           /\ Contains(Passage(s, other).window, t)
  BY <1>3, <1>4, PassageOfRun
<1> DEFINE c == Passage(r, first)
           d == Passage(s, other)
<1>7. c.direction = IF RunsForward(r, i, Corridors[place]) THEN "entry_to_exit"
                    ELSE "exit_to_entry"
  BY <1>4, <1>5, PassageRunsAsDriven
<1>8. d.direction = IF RunsForward(s, j, Corridors[place]) THEN "entry_to_exit"
                    ELSE "exit_to_entry"
  BY <1>4, <1>6, PassageRunsAsDriven
<1>9. c \in S /\ d \in S
  BY <1>5, <1>6 DEF Passages
<1>10. \A x \in S : IsClaim(x)
  BY <1>1, ClaimTypes
<1>11. /\ c.robot = a /\ d.robot = b /\ c.resource = place /\ d.resource = place
       /\ Contains(c.window, t) /\ Contains(d.window, t)
  BY <1>3, <1>5, <1>6
<1> HIDE DEF c, d, S
<1>12. Overlaps(c.window, d.window)
  BY <1>9, <1>10, <1>11, MeetAtInstant DEF IsClaim
<1>13. c.direction # d.direction
  BY <1>3, <1>7, <1>8
<1>14. CorridorType(S)[<<c, d>>] = "head_on"
  BY <1>3, <1>9, <1>11, <1>12, <1>13 DEF CorridorType, IsHeadOnInCorridor
<1>15. "head_on" # None
  BY MapAssumption, RanksOfExclusion
<1>16. Candidate(c, d, place, "head_on") \in CandidateSet(F, Listed(reservations))
  BY <1>9, <1>11, <1>14, <1>15, PairIsSaid DEF CandidateSet, CorridorSet, S
<1>17. /\ <<a, b, place>> \in DOMAIN conflicts
       /\ \E x \in CandidateSet(F, Listed(reservations)) :
              /\ x.resource = place /\ x.type \in ConflictType /\ x.overlap.start \in Int
              /\ Precedence(x.type) >= Precedence("head_on")
              /\ conflicts[<<a, b, place>>].type = x.type
              /\ conflicts[<<a, b, place>>].severity = SeverityFor(x.type, x.overlap, now)
  BY <1>9, <1>10, <1>11, <1>16, RanksOfExclusion, CandidateIsTold
<1>18. PICK x \in CandidateSet(F, Listed(reservations)) :
              /\ x.type = "head_on" /\ x.overlap.start \in Int
              /\ conflicts[<<a, b, place>>].type = x.type
              /\ conflicts[<<a, b, place>>].severity = SeverityFor(x.type, x.overlap, now)
  BY <1>17, RanksOfExclusion
<1>19. SeverityFor("head_on", x.overlap, now) # "low"
  <2>1. now \in Int /\ CriticalLead \in Int
    BY ThresholdAssumption DEF Answered, Asked
  <2>. QED  BY <1>18, <2>1 DEF SeverityFor
<1>. QED  BY <1>17, <1>18, <1>19 DEF Reported

(* At an intersection nothing is head on.                                  *)
LEMMA NothingHeadOnAtCrossroads ==
  ASSUME CrossroadsAreNamed, Asked, NEW place \in DOMAIN Intersections,
         NEW c \in CandidateSet(Listed(routes), Listed(reservations)), c.resource = place
  PROVE  c.type # "head_on"
<1> DEFINE F == Listed(routes)
           G == Listed(reservations)
<1>1. F \subseteq Intents /\ G \subseteq Reservation
  BY SeqIsList DEF Asked
<1>2. ASSUME NEW S, NEW type, c \in Pairs(S, type)
      PROVE  \E p \in S, q \in S : /\ type[<<p, q>>] # None /\ c.resource = p.resource
                                   /\ c.type = type[<<p, q>>]
  <2>1. PICK pq \in S \X S : type[pq] # None /\ c = Candidate(pq[1], pq[2], pq[1].resource, type[pq])
    BY <1>2 DEF Pairs
  <2>2. pq[1] \in S /\ pq[2] \in S /\ pq = <<pq[1], pq[2]>>
    OBVIOUS
  <2>. QED  BY <2>1, <2>2 DEF Candidate
<1>3. /\ \A x \in Visits(F) : IsClaim(x) /\ x.resource = x.node
      /\ \A x \in Traversals(F) :
           /\ IsClaim(x) /\ x.edge \in Seqs!ToSet(EdgeIds)
           /\ x.resource = ResourceOfEdge(x.edge)
      /\ \A x \in Passages(F) : IsClaim(x) /\ x.resource \in DOMAIN Corridors
  BY <1>1, ClaimTypes
<1>4. \A x \in HeldOf(G) : IsClaim(x)
  BY <1>1, GrantTypes DEF HeldOf
<1>5. CASE c \in NodeSet(Visits(F))
  <2>1. PICK node \in Seqs!ToSet(NodeIds) :
          c \in Pairs(VisitsAt(Visits(F), node), NodeType(VisitsAt(Visits(F), node)))
    BY <1>5 DEF NodeSet
  <2> DEFINE S == VisitsAt(Visits(F), node)
  <2>2. \A x \in S : IsClaim(x) /\ x.resource = x.node
    BY <1>3 DEF VisitsAt
  <2>3. c \in Pairs(S, NodeType(S))
    BY <2>1
  <2> HIDE DEF S
  <2>4. PICK p \in S, q \in S : NodeType(S)[<<p, q>>] # None /\ c.type = NodeType(S)[<<p, q>>]
    BY <1>2, <2>3
  <2>5. NodeType(S)[<<p, q>>] \in {"node"}
    BY <2>2, <2>4, NodePass
  <2>. QED  BY <2>4, <2>5
<1>6. CASE c \in EdgeSet(Traversals(F))
  <2>1. PICK edge \in Seqs!ToSet(EdgeIds) :
          c \in Pairs(TraversalsOn(Traversals(F), edge), EdgeType(TraversalsOn(Traversals(F), edge)))
    BY <1>6 DEF EdgeSet
  <2>2. PICK p \in TraversalsOn(Traversals(F), edge) : c.resource = p.resource
    BY <1>2, <2>1
  <2>3. p.resource = ResourceOfEdge(p.edge) /\ p.edge \in Seqs!ToSet(EdgeIds)
    BY <1>3 DEF TraversalsOn
  <2>. QED  BY <2>2, <2>3 DEF CrossroadsAreNamed
<1>7. CASE c \in CorridorSet(Passages(F))
  <2>1. PICK p \in Passages(F) : c.resource = p.resource
    BY <1>2, <1>7 DEF CorridorSet
  <2>. QED  BY <1>3, <2>1 DEF CrossroadsAreNamed
<1>8. CASE c \in CrossingSet(Crossings(F))
  <2> DEFINE S == Crossings(F)
  <2>1. PICK p \in S, q \in S : CrossingType(S)[<<p, q>>] # None /\ c.type = CrossingType(S)[<<p, q>>]
    BY <1>2, <1>8 DEF CrossingSet
  <2> HIDE DEF S
  <2>2. c.type \in {"crossing"}
    BY <2>1, CrossingPass
  <2>. QED  BY <2>2
<1>9. CASE c \in ReservationSet(G)
  <2> DEFINE S == HeldOf(G)
  <2>1. PICK p \in S, q \in S :
          ReservationType(S)[<<p, q>>] # None /\ c.type = ReservationType(S)[<<p, q>>]
    BY <1>2, <1>9 DEF ReservationSet
  <2>2. \A x \in S : IsClaim(x)
    BY <1>4
  <2> HIDE DEF S
  <2>3. c.type \in {"resource"}
    BY <2>1, <2>2, ReservationPass
  <2>. QED  BY <2>3
<1>10. CASE c \in MixedSet(G, Claims(F))
  <2>1. c.type \in {"temporal"}
    BY <1>10 DEF MixedSet, Candidate
  <2>. QED  BY <2>1
<1>. QED  BY <1>5, <1>6, <1>7, <1>8, <1>9, <1>10 DEF CandidateSet

LEMMA CannotCrossIsTold ==
  ASSUME CrossroadsAreNamed, Answered,
         NEW a \in Nat, NEW b \in Nat, a < b, NEW place, NEW t \in Int,
         CannotCross(a, b, place, t)
  PROVE  Reported(a, b, place) /\ conflicts[<<a, b, place>>].type = "crossing"
<1> DEFINE F == Listed(routes)
           S == Crossings(F)
<1>1. F \subseteq Intents
  BY SeqIsList DEF Answered, Asked
<1>2. PICK r \in F, s \in F : \E i \in DOMAIN r.nodes, j \in DOMAIN s.nodes :
        /\ r.robot = a /\ s.robot = b /\ a # b /\ place \in DOMAIN Intersections
        /\ StandsAt(r, i, place, t) /\ StandsAt(s, j, place, t)
        /\ Excludes(place, MovementAt(r, i), MovementAt(s, j))
  BY DEF CannotCross, Listed
<1>3. PICK i \in DOMAIN r.nodes, j \in DOMAIN s.nodes :
        /\ r.robot = a /\ s.robot = b /\ a # b /\ place \in DOMAIN Intersections
        /\ StandsAt(r, i, place, t) /\ StandsAt(s, j, place, t)
        /\ Excludes(place, MovementAt(r, i), MovementAt(s, j))
  BY <1>2
<1>4. ASSUME NEW x \in F, NEW k \in DOMAIN x.nodes, StandsAt(x, k, place, t)
      PROVE  /\ Crossing(x, k) \in S /\ Crossing(x, k).robot = x.robot
             /\ Crossing(x, k).resource = place
             /\ Crossing(x, k).movement = MovementAt(x, k)
             /\ Contains(Crossing(x, k).window, t)
  <2>1. x.nodes[k] \in Seqs!ToSet(NodeIds)
    BY <1>1, RouteTypes
  <2>2. IntersectionAt(x.nodes[k]) # None
    BY <1>3, <1>4, <2>1 DEF StandsAt, CrossroadsAreNamed
  <2>3. Crossing(x, k).movement = MovementAt(x, k)
    BY DEF Crossing
  <2>. QED  BY <1>1, <1>4, <2>2, <2>3, StandIsClaimed
<1> DEFINE c == Crossing(r, i)
           d == Crossing(s, j)
<1>5. /\ c \in S /\ c.robot = a /\ c.resource = place /\ c.movement = MovementAt(r, i)
      /\ Contains(c.window, t)
  BY <1>3, <1>4
<1>6. /\ d \in S /\ d.robot = b /\ d.resource = place /\ d.movement = MovementAt(s, j)
      /\ Contains(d.window, t)
  BY <1>3, <1>4
<1>7. \A x \in S : IsClaim(x)
  BY <1>1, ClaimTypes
<1> HIDE DEF c, d, S
<1>8. Overlaps(c.window, d.window)
  BY <1>5, <1>6, <1>7, MeetAtInstant DEF IsClaim
<1>9. \/ None \in {c.movement, d.movement}
      \/ MovementsConflict(Intersections[place].groups, c.movement, d.movement)
  <2>1. Excludes(place, c.movement, d.movement)
    BY <1>3, <1>5, <1>6
  <2>2. c.movement = d.movement => Cardinality({c.movement, d.movement}) = 1
    <3>1. c.movement = d.movement => {c.movement, d.movement} = {c.movement}
      OBVIOUS
    <3>. QED  BY <3>1, FS_Singleton
  <2>. QED  BY <2>1, <2>2 DEF Excludes, MovementsConflict
<1>10. IsCrossing(Intersections[place], c, d)
  BY <1>3, <1>5, <1>6, <1>8, <1>9 DEF IsCrossing
<1>11. CrossingType(S)[<<c, d>>] = "crossing"
  BY <1>5, <1>6, <1>10 DEF CrossingType
<1>12. "crossing" # None
  BY MapAssumption, RanksOfExclusion
<1>13. Candidate(c, d, place, "crossing") \in CandidateSet(F, Listed(reservations))
  BY <1>5, <1>6, <1>11, <1>12, PairIsSaid DEF CandidateSet, CrossingSet, S
<1>14. /\ <<a, b, place>> \in DOMAIN conflicts
       /\ \E x \in CandidateSet(F, Listed(reservations)) :
              /\ x.resource = place /\ x.type \in ConflictType /\ x.overlap.start \in Int
              /\ Precedence(x.type) >= Precedence("crossing")
              /\ conflicts[<<a, b, place>>].type = x.type
              /\ conflicts[<<a, b, place>>].severity = SeverityFor(x.type, x.overlap, now)
  BY <1>5, <1>6, <1>7, <1>13, RanksOfExclusion, CandidateIsTold
<1>15. PICK x \in CandidateSet(F, Listed(reservations)) :
         /\ x.resource = place /\ x.type \in {"crossing", "head_on"}
         /\ conflicts[<<a, b, place>>].type = x.type
  BY <1>14, RanksOfExclusion
<1>16. x.type # "head_on"
  BY <1>3, <1>15, NothingHeadOnAtCrossroads DEF Answered
<1>. QED  BY <1>14, <1>15, <1>16 DEF Reported

(* What waiting does not solve is told as such: who cannot pass is told to *)
(* be head on and of some severity, who cannot cross to cross, whatever    *)
(* else the passes say of them.                                            *)
THEOREM ExclusionIsTold ==
  ASSUME TimeRunsForward, CorridorsAreLines, RoutesFollowCorridors, CrossroadsAreNamed
  PROVE  Spec => []ExclusionIsNamed
<1>1. Answered => ExclusionIsNamed
  <2>1. Robot \subseteq Nat /\ Instants \subseteq Int
    BY FleetAssumption
  <2>2. ASSUME Answered, NEW a \in Robot, NEW b \in Robot, NEW place \in Places,
               NEW t \in Instants, a < b
        PROVE  /\ CannotPass(a, b, place, t) =>
                    /\ Reported(a, b, place)
                    /\ conflicts[<<a, b, place>>].type = "head_on"
                    /\ conflicts[<<a, b, place>>].severity # "low"
               /\ CannotCross(a, b, place, t) =>
                    /\ Reported(a, b, place)
                    /\ conflicts[<<a, b, place>>].type = "crossing"
    <3>1. a \in Nat /\ b \in Nat /\ t \in Int
      BY <2>1
    <3>. QED  BY <2>2, <3>1, CannotPassIsTold, CannotCrossIsTold
  <2>. QED  BY <2>2 DEF ExclusionIsNamed
<1>. QED  BY <1>1, DetectorAnswers, PTL
=============================================================================
