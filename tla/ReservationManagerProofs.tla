---------------------- MODULE ReservationManagerProofs ----------------------
(***************************************************************************)
(* Type correctness and safety of the reservation manager, for every       *)
(* fleet, map, set of requests and policy: facts about the admission check *)
(* and the index of the table, the manager that writes it, its grants next *)
(* to the conflict rules, the ledger it implements, and restarts.          *)
(***************************************************************************)
EXTENDS ReservationRecovery, ReservationRefinement, FiniteSetFacts

-----------------------------------------------------------------------------
(* The table: what its admission check and its hand-kept index promise.    *)

(* The robots of a finite set of claims are finitely many.                 *)
LEMMA RobotsFinite ==
  ASSUME NEW recs, NEW ids, IsFiniteSet(ids)
  PROVE  /\ IsFiniteSet({recs[id].robot : id \in ids})
         /\ Cardinality({recs[id].robot : id \in ids}) \in Nat
<1> DEFINE owner == [id \in ids |-> recs[id].robot]
<1>1. {recs[id].robot : id \in ids} = {owner[id] : id \in ids}
  OBVIOUS
<1>2. IsFiniteSet({owner[id] : id \in ids})
  BY FiniteRange
<1>. QED  BY <1>1, <1>2, FS_CardinalityType

(* A set with at most one element more is at most one larger.              *)
LEMMA AtMostOneMore ==
  ASSUME NEW S, IsFiniteSet(S), NEW x, NEW T, T \subseteq S \cup {x}
  PROVE  Cardinality(T) \in Nat /\ Cardinality(T) <= Cardinality(S) + 1
<1>1. IsFiniteSet(S \cup {x})
  BY FS_AddElement
<1>2. Cardinality(S) \in Nat
  BY FS_CardinalityType
<1>3. \/ Cardinality(S \cup {x}) = Cardinality(S)
      \/ Cardinality(S \cup {x}) = Cardinality(S) + 1
  BY FS_AddElement
<1>. QED  BY <1>1, <1>2, <1>3, FS_Subset, FS_CardinalityType

(* A robot set is no larger than one that contains it.                     *)
LEMMA RobotsOfMonotone ==
  ASSUME NEW ids, NEW more, ids \subseteq more, IsFiniteSet(more)
  PROVE  /\ IsFiniteSet(RobotsOf(ids)) /\ IsFiniteSet(RobotsOf(more))
         /\ Cardinality(RobotsOf(ids)) \in Nat
         /\ Cardinality(RobotsOf(ids)) <= Cardinality(RobotsOf(more))
<1> DEFINE owner == [id \in more |-> records[id].robot]
<1>1. RobotsOf(more) = {owner[id] : id \in more}
  BY DEF RobotsOf
<1>2. IsFiniteSet({owner[id] : id \in more})
  BY FiniteRange
<1>3. IsFiniteSet(RobotsOf(more))
  BY <1>1, <1>2
<1>4. RobotsOf(ids) \subseteq RobotsOf(more)
  BY DEF RobotsOf
<1>. QED  BY <1>3, <1>4, FS_Subset, FS_CardinalityType

(* "Sampling those instants is exact, not an approximation": where the     *)
(* peak stays below n, so does the occupancy at every instant of the       *)
(* window (peak_occupancy).                                                *)
THEOREM SamplingIsExact ==
  ASSUME NEW ids, IsFiniteSet(ids), NEW n \in Nat,
         \A id \in ids : records[id].window.start \in Int,
         \A id \in ids : records[id].window.end \in Int,
         NEW w, w.start \in Int, w.end \in Int,
         NEW t \in Int, Contains(w, t),
         ~PeakOccupancyReaches(n, ids, w)
  PROVE  Cardinality(OccupantsAt(ids, t)) < n
<1> DEFINE inside == {id \in ids : Contains(records[id].window, t)}
           start  == [id \in inside |-> records[id].window.start]
           starts == {start[id] : id \in inside}
           S      == {w.start} \cup starts
<1>1. IsFiniteSet(inside)
  BY FS_Subset
<1>2. IsFiniteSet(starts)
  BY <1>1, FiniteRange
<1>3. IsFiniteSet(S)
  <2>1. IsFiniteSet(starts \cup {w.start})
    BY <1>2, FS_AddElement
  <2>. QED  BY <2>1
<1>4. S \subseteq Int
  OBVIOUS
<1>5. PICK s \in S : \A x \in S : x <= s
  BY <1>3, <1>4, LatestInstant
<1>6. /\ s \in Int /\ w.start <= s
      /\ \A id \in inside : records[id].window.start <= s
  BY <1>4, <1>5
<1>7. s <= t /\ Contains(w, s)
  <2>1. w.start <= t /\ t < w.end
    BY DEF Contains
  <2>2. \A x \in starts : x <= t
    BY DEF Contains
  <2>3. s <= t
    BY <2>1, <2>2
  <2>. QED  BY <1>6, <2>1, <2>3 DEF Contains
<1>8. s \in SampledInstants(ids, w)
  BY <1>7 DEF SampledInstants
<1>9. inside \subseteq {id \in ids : Contains(records[id].window, s)}
  <2>1. \A id \in inside : records[id].window.start <= t /\ t < records[id].window.end
    BY DEF Contains
  <2>2. \A id \in inside : records[id].window.start <= s /\ s < records[id].window.end
    BY <1>6, <1>7, <2>1
  <2>. QED  BY <2>2 DEF Contains
<1>10. IsFiniteSet({id \in ids : Contains(records[id].window, s)})
  BY FS_Subset
<1>11. Cardinality(OccupantsAt(ids, t)) <= Cardinality(OccupantsAt(ids, s))
  BY <1>9, <1>10, RobotsOfMonotone DEF OccupantsAt
<1>12. ~(Cardinality(OccupantsAt(ids, s)) >= n)
  BY <1>8 DEF PeakOccupancyReaches
<1>13. /\ Cardinality(OccupantsAt(ids, s)) \in Nat
       /\ Cardinality(OccupantsAt(ids, t)) \in Nat
  BY <1>1, <1>10, RobotsOfMonotone DEF OccupantsAt
<1>. QED  BY <1>11, <1>12, <1>13
-----------------------------------------------------------------------------
(* What the check promises when the index agrees with the records.         *)

(* The claims of robots other than b that cover instant t of r.            *)
OthersAt(r, b, t) ==
  {id \in HoldersOf(r) : records[id].robot # b /\ Contains(records[id].window, t)}

IsSpan(w) == w.start \in Int /\ w.end \in Int

(* The fields of a record have their types.                                *)
LEMMA RecordTypes ==
  ASSUME TableTypeOK, NEW id \in DOMAIN records
  PROVE  /\ records[id].robot \in Robot
         /\ records[id].resource \in Resource
         /\ IsSpan(records[id].window)
         /\ IsWindow(records[id].window)
         /\ records[id].usage \in Usage
         /\ records[id].state \in State
         /\ records[id].committed \in BOOLEAN
         /\ records[id].decided_at \in Int
<1>1. records[id] \in Record
  BY DEF TableTypeOK
<1>. QED  BY <1>1 DEF Record, IsSpan

LEMMA HoldersFinite ==
  ASSUME TableTypeOK, NEW r
  PROVE  /\ IsFiniteSet(HoldersOf(r))
         /\ \A S \in SUBSET HoldersOf(r) : IsFiniteSet(S)
<1>1. \A S \in SUBSET (DOMAIN records) : IsFiniteSet(S)
  BY FS_Subset DEF TableTypeOK
<1>. QED  BY <1>1 DEF HoldersOf, Holders

(* The scan of the index finds every rival claim, and only those: stopping *)
(* at the first key that starts after the window loses nothing.            *)
LEMMA ContendersAreRivals ==
  ASSUME TableTypeOK, IndexAgrees, NEW r \in Resource, NEW w, IsSpan(w), NEW b
  PROVE  Contenders(r, w, b) =
           {id \in HoldersOf(r) :
              records[id].robot # b /\ Overlaps(records[id].window, w)}
<1>1. holding_by_resource[r] = KeysIn(records, DOMAIN records, r)
  BY DEF IndexAgrees
<1>2. ASSUME NEW id \in DOMAIN records
      PROVE  (\E key \in holding_by_resource[r] : key[1] < w.end /\ key[2] = id)
               <=> id \in HoldersOf(r) /\ records[id].window.start < w.end
  <2>1. holding_by_resource[r] =
          {<<records[i].window.start, i>> : i \in HoldersOf(r)}
    BY <1>1 DEF KeysIn, KeyOf, HoldersOf, Holders
  <2>2. ASSUME NEW key \in holding_by_resource[r], key[1] < w.end, key[2] = id
        PROVE  id \in HoldersOf(r) /\ records[id].window.start < w.end
    BY <2>1, <2>2
  <2>3. ASSUME id \in HoldersOf(r), records[id].window.start < w.end
        PROVE  \E key \in holding_by_resource[r] : key[1] < w.end /\ key[2] = id
    <3>1. <<records[id].window.start, id>> \in holding_by_resource[r]
      BY <2>1, <2>3
    <3>. QED  BY <2>3, <3>1
  <2>. QED  BY <2>2, <2>3
<1>. QED  BY <1>2 DEF Contenders, HoldersOf, Holders, Overlaps

(* The property and the check speak of the same exclusions.                *)
LEMMA ExcludesMeans ==
  ASSUME NEW r, NEW u, NEW v
  PROVE  Excludes(r, u, v) <=> OpposesDirection(r, u, v) \/ OpposesMovement(r, u, v)
BY DEF Excludes, OpposesDirection, OpposesMovement, MovementsConflict

LEMMA AdmittedMeans ==
  ASSUME NEW r, NEW b, NEW w, NEW u, Admitted(r, b, w, u)
  PROVE  /\ ~PeakOccupancyReaches(CapacityOf(r), Contenders(r, w, b), w)
         /\ \A id \in Contenders(r, w, b) : ~Excludes(r, u, records[id].usage)
BY ExcludesMeans DEF Admitted, Check

LEMMA CapacityType ==
  ASSUME NEW r  PROVE  CapacityOf(r) \in Nat
BY MapAssumption DEF CapacityOf

(* An admitted claim finds a place left for it at every instant.           *)
LEMMA RoomWhenAdmitted ==
  ASSUME TableTypeOK, IndexAgrees, NEW r \in Resource, NEW b, NEW u,
         NEW w, IsSpan(w), Admitted(r, b, w, u),
         NEW t \in Int, Contains(w, t)
  PROVE  Cardinality(RobotsOf(OthersAt(r, b, t))) < CapacityOf(r)
<1> DEFINE rivals == Contenders(r, w, b)
<1>1. rivals = {id \in HoldersOf(r) :
                  records[id].robot # b /\ Overlaps(records[id].window, w)}
  BY ContendersAreRivals
<1>2. IsFiniteSet(rivals)
  BY <1>1, HoldersFinite
<1>3. \A id \in rivals : /\ records[id].window.start \in Int
                         /\ records[id].window.end \in Int
  BY RecordTypes DEF Contenders, IsSpan
<1>4. Cardinality(OccupantsAt(rivals, t)) < CapacityOf(r)
  BY <1>2, <1>3, AdmittedMeans, CapacityType, SamplingIsExact DEF IsSpan
<1>5. ASSUME NEW id \in HoldersOf(r), Contains(records[id].window, t)
      PROVE  Overlaps(records[id].window, w)
  BY <1>5, RecordTypes DEF HoldersOf, Holders, Contains, Overlaps, IsSpan
<1>6. OthersAt(r, b, t) = {id \in rivals : Contains(records[id].window, t)}
  BY <1>1, <1>5 DEF OthersAt
<1>. QED  BY <1>4, <1>6 DEF OccupantsAt
-----------------------------------------------------------------------------
(* The two kinds of step a write can be: no claim gains time, or one does. *)

(* CapacityRespected at every instant, whether a clock shows it or not.    *)
CapacityAlways ==
  \A r \in Resource, t \in Int :
    Cardinality(OccupantsAt(HoldersOf(r), t)) <= CapacityOf(r)

SameClaim(id) ==
  /\ records'[id].robot = records[id].robot
  /\ records'[id].resource = records[id].resource
  /\ records'[id].window = records[id].window
  /\ records'[id].usage = records[id].usage

LEMMA ExclusionIsSymmetric ==
  ASSUME NEW r, NEW u, NEW v, Excludes(r, u, v)  PROVE  Excludes(r, v, u)
<1>1. {u.movement, v.movement} = {v.movement, u.movement}
  OBVIOUS
<1>. QED  BY <1>1 DEF Excludes

(* A step after which every claim is one held before keeps both            *)
(* exclusions.                                                             *)
LEMMA NoClaimGains ==
  ASSUME TableTypeOK, CapacityAlways, ExclusionRespected,
         \A id \in Holders' : id \in Holders /\ SameClaim(id)
  PROVE  CapacityAlways' /\ ExclusionRespected'
<1>1. ASSUME NEW r \in Resource, NEW t \in Int
      PROVE  Cardinality(OccupantsAt(HoldersOf(r), t)') <= CapacityOf(r)
  <2> DEFINE before == {id \in HoldersOf(r) : Contains(records[id].window, t)}
  <2>1. OccupantsAt(HoldersOf(r), t)' \subseteq OccupantsAt(HoldersOf(r), t)
    BY DEF OccupantsAt, RobotsOf, HoldersOf, SameClaim
  <2>2. IsFiniteSet(before)
    BY HoldersFinite
  <2>3. IsFiniteSet(RobotsOf(before)) /\ Cardinality(RobotsOf(before)) \in Nat
    BY <2>2, RobotsOfMonotone
  <2>4. /\ Cardinality(OccupantsAt(HoldersOf(r), t)') \in Nat
        /\ Cardinality(OccupantsAt(HoldersOf(r), t)') <= Cardinality(RobotsOf(before))
    BY <2>1, <2>3, FS_Subset, FS_CardinalityType DEF OccupantsAt
  <2>5. Cardinality(RobotsOf(before)) <= CapacityOf(r)
    BY DEF CapacityAlways, OccupantsAt
  <2>. QED  BY <2>3, <2>4, <2>5, CapacityType
<1>2. CapacityAlways'
  BY <1>1 DEF CapacityAlways, CapacityOf
<1>3. ExclusionRespected'
  BY DEF ExclusionRespected, Contend, SameClaim, Excludes
<1>. QED  BY <1>2, <1>3

(* A step in which claim g alone gains time keeps both exclusions if the   *)
(* other robots leave room at every instant g gains, and none of their     *)
(* claims excludes g.                                                      *)
LEMMA OneClaimGains ==
  ASSUME TableTypeOK, TableTypeOK', CapacityAlways, ExclusionRespected,
         NEW g, NEW r \in Resource, NEW b \in Robot,
         records'[g].resource = r, records'[g].robot = b,
         g \in Holders',
         \A id \in Holders' \ {g} : id \in Holders /\ SameClaim(id),
         \A t \in Int :
           Contains(records'[g].window, t) =>
             \/ Cardinality(RobotsOf(OthersAt(r, b, t))') < CapacityOf(r)
             \/ /\ g \in Holders /\ Contains(records[g].window, t)
                /\ records[g].resource = r /\ records[g].robot = b,
         \A id \in Holders' :
           Contend(g, id)' => ~Excludes(r, records'[g].usage, records'[id].usage)
  PROVE  CapacityAlways' /\ ExclusionRespected'
<1>1. ASSUME NEW q \in Resource, NEW t \in Int
      PROVE  Cardinality(OccupantsAt(HoldersOf(q), t)') <= CapacityOf(q)
  <2> DEFINE before == {id \in HoldersOf(q) : Contains(records[id].window, t)}
             after  == RobotsOf(OthersAt(r, b, t))'
  <2>1. IsFiniteSet(RobotsOf(before)) /\ Cardinality(RobotsOf(before)) \in Nat
    BY HoldersFinite, RobotsOfMonotone
  <2>2. Cardinality(RobotsOf(before)) <= CapacityOf(q)
    BY DEF CapacityAlways, OccupantsAt
  <2>3. CASE OccupantsAt(HoldersOf(q), t)' \subseteq OccupantsAt(HoldersOf(q), t)
    <3>1. /\ Cardinality(OccupantsAt(HoldersOf(q), t)') \in Nat
          /\ Cardinality(OccupantsAt(HoldersOf(q), t)') <= Cardinality(RobotsOf(before))
      BY <2>1, <2>3, FS_Subset, FS_CardinalityType DEF OccupantsAt
    <3>. QED  BY <2>1, <2>2, <3>1, CapacityType
  <2>4. CASE q = r /\ Cardinality(after) < CapacityOf(r)
    <3>1. OccupantsAt(HoldersOf(q), t)' \subseteq after \cup {b}
      BY <2>4 DEF OccupantsAt, RobotsOf, HoldersOf, OthersAt
    <3>2. IsFiniteSet(after) /\ Cardinality(after) \in Nat
      <4>1. OthersAt(r, b, t)' \subseteq DOMAIN records'
        BY DEF OthersAt, HoldersOf, Holders
      <4>2. IsFiniteSet(OthersAt(r, b, t)')
        BY <4>1, FS_Subset DEF TableTypeOK
      <4>3. after = {records'[id].robot : id \in OthersAt(r, b, t)'}
        BY DEF RobotsOf
      <4>4. /\ IsFiniteSet({records'[id].robot : id \in OthersAt(r, b, t)'})
            /\ Cardinality({records'[id].robot : id \in OthersAt(r, b, t)'}) \in Nat
        BY <4>2, RobotsFinite
      <4>. HIDE DEF after
      <4>. QED  BY <4>3, <4>4
    <3>3. /\ Cardinality(OccupantsAt(HoldersOf(q), t)') \in Nat
          /\ Cardinality(OccupantsAt(HoldersOf(q), t)') <= Cardinality(after) + 1
      BY <3>1, <3>2, AtMostOneMore
    <3>. QED  BY <2>4, <3>2, <3>3, CapacityType
  <2>5. CASE q # r \/ ~Contains(records'[g].window, t)
    <3>1. \A id \in HoldersOf(q)' :
            Contains(records'[id].window, t) =>
              id # g /\ id \in HoldersOf(q) /\ SameClaim(id)
      BY <2>5 DEF HoldersOf, SameClaim
    <3>. QED  BY <2>3, <3>1 DEF OccupantsAt, RobotsOf, SameClaim
  <2>6. CASE /\ q = r
             /\ g \in Holders /\ Contains(records[g].window, t)
             /\ records[g].resource = r /\ records[g].robot = b
    <3>1. \A id \in HoldersOf(q)' :
            Contains(records'[id].window, t) =>
              /\ id \in HoldersOf(q)
              /\ Contains(records[id].window, t)
              /\ records[id].robot = records'[id].robot
      BY <2>6 DEF HoldersOf, SameClaim
    <3>. QED  BY <2>3, <3>1 DEF OccupantsAt, RobotsOf
  <2>. QED  BY <2>4, <2>5, <2>6
<1>2. CapacityAlways'
  BY <1>1 DEF CapacityAlways, CapacityOf
<1>3. ExclusionRespected'
  <2>1. SUFFICES ASSUME NEW i \in Holders', NEW j \in Holders', Contend(i, j)'
        PROVE  ~Excludes(records'[i].resource, records'[i].usage, records'[j].usage)
    BY DEF ExclusionRespected, Excludes
  <2>2. CASE i = g
    BY <2>1, <2>2
  <2>3. CASE j = g
    <3>1. Contend(g, i)'
      BY <2>1, <2>3 DEF Contend, Overlaps
    <3>2. records'[i].resource = r
      BY <2>1, <2>3 DEF Contend
    <3>. QED  BY <2>3, <3>1, <3>2, ExclusionIsSymmetric
  <2>4. CASE i # g /\ j # g
    <3>1. /\ i \in Holders /\ SameClaim(i) /\ j \in Holders /\ SameClaim(j)
      BY <2>4
    <3>2. Contend(i, j)
      BY <2>1, <3>1 DEF Contend, SameClaim
    <3>. QED  BY <3>1, <3>2 DEF ExclusionRespected, SameClaim
  <2>. QED  BY <2>2, <2>3, <2>4
<1>. QED  BY <1>2, <1>3
-----------------------------------------------------------------------------
(* The writes of the table.                                                *)

(* No claim that withholds a resource is new or has changed.               *)
NothingGained == \A id \in Holders' : id \in Holders /\ SameClaim(id)

LEMMA TransitionTyped ==
  ASSUME NEW from \in State, NEW to, IsTransitionAllowed(from, to)
  PROVE  to \in State /\ (to \in Holding => from \in Holding)
BY DEF State, Holding, IsTransitionAllowed, MayBecome

(* set_state on any set of claims: every other field stays, and no claim   *)
(* comes back from a terminal state.                                       *)
LEMMA WithStatesTyped ==
  ASSUME TableTypeOK, NEW next, Reindex(next)
  PROVE  /\ WithStates(records, next) \in [DOMAIN records -> Record]
         /\ \A id \in DOMAIN records :
              /\ WithStates(records, next)[id].state =
                   (IF id \in DOMAIN next THEN next[id] ELSE records[id].state)
              /\ WithStates(records, next)[id].robot = records[id].robot
              /\ WithStates(records, next)[id].resource = records[id].resource
              /\ WithStates(records, next)[id].window = records[id].window
              /\ WithStates(records, next)[id].usage = records[id].usage
              /\ WithStates(records, next)[id].committed = records[id].committed
              /\ WithStates(records, next)[id].decided_at = records[id].decided_at
<1>1. \A id \in DOMAIN records : records[id] \in Record
  BY DEF TableTypeOK
<1>2. \A id \in DOMAIN next : next[id] \in State
  BY RecordTypes, TransitionTyped DEF Reindex
<1>3. ASSUME NEW id \in DOMAIN records
      PROVE  [records[id] EXCEPT !.state = next[id]] =
               [robot |-> records[id].robot, resource |-> records[id].resource,
                window |-> records[id].window, usage |-> records[id].usage,
                state |-> next[id], decided_at |-> records[id].decided_at,
                committed |-> records[id].committed]
  BY <1>1 DEF Record
<1>4. \A id \in DOMAIN records : WithStates(records, next)[id] \in Record
  BY <1>1, <1>2, <1>3 DEF WithStates, Record
<1>. QED  BY <1>3, <1>4 DEF WithStates

(* Taking the moved claims out of the index under their old state and      *)
(* putting them back under the new one leaves the index the records imply. *)
LEMMA ReindexAgrees ==
  ASSUME TableTypeOK, IndexAgrees, NEW next, Reindex(next),
         DOMAIN records' = DOMAIN records,
         \A id \in DOMAIN records :
           /\ records'[id].robot = records[id].robot
           /\ records'[id].resource = records[id].resource
           /\ records'[id].window.start = records[id].window.start
           /\ records'[id].state =
                (IF id \in DOMAIN next THEN next[id] ELSE records[id].state)
  PROVE  IndexAgrees' /\ holding_by_resource' \in [Resource -> SUBSET Key]
<1> DEFINE moved == WithStates(records, next)
<1>1. DOMAIN next \subseteq DOMAIN records
  BY DEF Reindex
<1>2. \A id \in DOMAIN records :
        /\ KeyOf(moved[id], id) = KeyOf(records[id], id)
        /\ KeyOf(records'[id], id) = KeyOf(records[id], id)
        /\ moved[id].resource = records[id].resource
        /\ moved[id].state = records'[id].state
  BY WithStatesTyped DEF KeyOf
<1>3. ASSUME NEW r \in Resource
      PROVE  holding_by_resource'[r] = KeysIn(records', DOMAIN records', r)
  <2>1. holding_by_resource[r] = KeysIn(records, DOMAIN records, r)
    BY DEF IndexAgrees
  <2>2. holding_by_resource'[r] =
          (holding_by_resource[r] \ KeysIn(records, DOMAIN next, r))
            \cup KeysIn(moved, DOMAIN next, r)
    BY DEF Reindex
  <2>3. KeysIn(moved, DOMAIN next, r) =
          {KeyOf(records[id], id) : id \in {i \in DOMAIN next :
             records[i].resource = r /\ records'[i].state \in Holding}}
    BY <1>1, <1>2 DEF KeysIn
  <2>4. KeysIn(records', DOMAIN records', r) =
          {KeyOf(records[id], id) : id \in {i \in DOMAIN records :
             records[i].resource = r /\ records'[i].state \in Holding}}
    BY <1>2 DEF KeysIn
  <2>5. KeysIn(records, DOMAIN records, r) \ KeysIn(records, DOMAIN next, r) =
          {KeyOf(records[id], id) : id \in {i \in DOMAIN records \ DOMAIN next :
             records[i].resource = r /\ records[i].state \in Holding}}
    BY <1>1 DEF KeysIn, KeyOf
  <2>6. \A i \in DOMAIN records \ DOMAIN next : records'[i].state = records[i].state
    OBVIOUS
  <2>. QED  BY <1>1, <2>1, <2>2, <2>3, <2>4, <2>5, <2>6
<1>4. \A robot \in Robot :
        by_robot'[robot] = {id \in DOMAIN records' : records'[id].robot = robot}
  BY DEF Reindex, IndexAgrees
<1>5. \A r \in Resource : KeysIn(records', DOMAIN records', r) \subseteq Key
  <2>1. \A id \in DOMAIN records : KeyOf(records[id], id) \in Key
    BY RecordTypes DEF KeyOf, Key, IsSpan, TableTypeOK
  <2>. QED  BY <1>2, <2>1 DEF KeysIn
<1>6. holding_by_resource' \in [Resource -> SUBSET Key]
  BY <1>3, <1>5 DEF Reindex
<1>. QED  BY <1>3, <1>4, <1>6 DEF IndexAgrees

(* What holds is found where the index has it.                             *)
LEMMA FoundIfHeld ==
  ASSUME TableTypeOK, IndexAgrees, NEW ids \in SUBSET DOMAIN records
  PROVE  FoundByKey(ids) = ids \cap Holders
<1>1. ASSUME NEW id \in ids \cap Holders
      PROVE  KeyOf(records[id], id) \in holding_by_resource[records[id].resource]
  <2>1. id \in DOMAIN records /\ records[id].state \in Holding
    BY DEF Holders
  <2>2. records[id].resource \in Resource
    BY <2>1, RecordTypes DEF TableTypeOK
  <2>3. KeyOf(records[id], id) \in KeysIn(records, DOMAIN records, records[id].resource)
    BY <2>1 DEF KeysIn
  <2>. QED  BY <2>2, <2>3 DEF IndexAgrees
<1>. QED  BY <1>1 DEF FoundByKey

LEMMA SetStatesKeeps ==
  ASSUME TableTypeOK, IndexAgrees, NEW next, SetStates(next)
  PROVE  TableTypeOK' /\ IndexAgrees' /\ NothingGained
<1>1. Reindex(next) /\ records' = WithStates(records, next)
  BY DEF SetStates
<1>2. records' \in [DOMAIN records -> Record] /\ DOMAIN records' = DOMAIN records
  BY <1>1, WithStatesTyped
<1>3. IndexAgrees' /\ holding_by_resource' \in [Resource -> SUBSET Key]
  BY <1>1, <1>2, WithStatesTyped, ReindexAgrees
<1>4. by_robot' = by_robot
  BY <1>1 DEF Reindex
<1>5. holding_count' \in Int
  <2>1. IsFiniteSet(DOMAIN next)
    BY <1>1, FS_Subset DEF Reindex, TableTypeOK
  <2>2. /\ Cardinality(DOMAIN next \cap Holders) \in Nat
        /\ Cardinality({id \in DOMAIN next : next[id] \in Holding}) \in Nat
    BY <2>1, FS_Subset, FS_CardinalityType
  <2>3. DOMAIN next \subseteq DOMAIN records
    BY <1>1 DEF Reindex
  <2>4. FoundByKey(DOMAIN next) = DOMAIN next \cap Holders
    BY <2>3, FoundIfHeld
  <2>5. Cardinality(FoundByKey(DOMAIN next)) \in Nat
    BY <2>2, <2>4, Zenon
  <2>. QED  BY <1>1, <2>2, <2>5 DEF Reindex, CountAfter, TableTypeOK
<1>6. TableTypeOK'
  BY <1>2, <1>3, <1>4, <1>5 DEF TableTypeOK
<1>7. NothingGained
  <2>1. ASSUME NEW id \in DOMAIN records, records'[id].state \in Holding
        PROVE  records[id].state \in Holding
    <3>1. id \in DOMAIN next => next[id] = records'[id].state
      BY <1>1, WithStatesTyped
    <3>2. id \in DOMAIN next => IsTransitionAllowed(records[id].state, next[id])
      BY <1>1 DEF Reindex
    <3>3. id \notin DOMAIN next => records'[id].state = records[id].state
      BY <1>1, WithStatesTyped
    <3>. QED  BY <2>1, <3>1, <3>2, <3>3, RecordTypes, TransitionTyped
  <2>. QED  BY <1>1, <1>2, <2>1, WithStatesTyped DEF NothingGained, Holders, SameClaim
<1>. QED  BY <1>3, <1>6, <1>7

LEMMA MarkCommittedKeeps ==
  ASSUME TableTypeOK, IndexAgrees, NEW id, MarkCommitted(id)
  PROVE  TableTypeOK' /\ IndexAgrees' /\ NothingGained
<1>1. /\ id \in DOMAIN records
      /\ records' = [records EXCEPT ![id].committed = TRUE]
      /\ UNCHANGED <<holding_by_resource, by_robot, holding_count>>
  BY DEF MarkCommitted
<1>2. \A i \in DOMAIN records : records[i] \in Record
  BY DEF TableTypeOK
<1>3. /\ DOMAIN records' = DOMAIN records
      /\ \A i \in DOMAIN records :
           /\ records'[i] \in Record
           /\ records'[i].state = records[i].state
           /\ SameClaim(i)
  BY <1>1, <1>2 DEF SameClaim, Record
<1>4. TableTypeOK'
  <2>1. records' \in [DOMAIN records' -> Record]
    BY <1>1, <1>3
  <2>. QED  BY <1>1, <1>3, <2>1 DEF TableTypeOK
<1>5. \A r \in Resource :
        KeysIn(records', DOMAIN records', r) = KeysIn(records, DOMAIN records, r)
  BY <1>3 DEF KeysIn, KeyOf, SameClaim
<1>6. IndexAgrees'
  <2>1. ASSUME NEW robot \in Robot
        PROVE  {i \in DOMAIN records' : records'[i].robot = robot} =
                 {i \in DOMAIN records : records[i].robot = robot}
    BY <1>3 DEF SameClaim
  <2>. QED  BY <1>1, <1>5, <2>1 DEF IndexAgrees
<1>. QED  BY <1>3, <1>4, <1>6 DEF NothingGained, Holders

LEMMA PurgeKeeps ==
  ASSUME TableTypeOK, IndexAgrees, NEW cutoff, PurgeTerminalBefore(cutoff)
  PROVE  TableTypeOK' /\ IndexAgrees' /\ NothingGained
<1> DEFINE gone == {id \in DOMAIN records :
                      /\ records[id].state \in Terminal
                      /\ records[id].window.end < cutoff}
<1>1. /\ records' = [id \in DOMAIN records \ gone |-> records[id]]
      /\ by_robot' = [robot \in Robot |-> by_robot[robot] \ gone]
      /\ UNCHANGED <<holding_by_resource, holding_count>>
  BY DEF PurgeTerminalBefore
<1>2. Holders \cap gone = {}
  BY DEF Holders, Holding, Terminal
<1>3. TableTypeOK'
  <2>1. records' \in [DOMAIN records' -> Record]
    BY <1>1 DEF TableTypeOK
  <2>2. IsFiniteSet(DOMAIN records')
    BY <1>1, FS_Subset DEF TableTypeOK
  <2>3. DOMAIN records' \subseteq ReservationId
    BY <1>1 DEF TableTypeOK
  <2>4. by_robot' \in [Robot -> SUBSET ReservationId]
    BY <1>1 DEF TableTypeOK
  <2>5. holding_by_resource' \in [Resource -> SUBSET Key] /\ holding_count' \in Int
    BY <1>1 DEF TableTypeOK
  <2>. QED  BY <2>1, <2>2, <2>3, <2>4, <2>5 DEF TableTypeOK
<1>4. \A r \in Resource :
        KeysIn(records', DOMAIN records', r) = KeysIn(records, DOMAIN records, r)
  BY <1>1, <1>2 DEF KeysIn, KeyOf, Holders
<1>5. IndexAgrees'
  BY <1>1, <1>4 DEF IndexAgrees
<1>6. NothingGained
  BY <1>1 DEF NothingGained, Holders, SameClaim
<1>. QED  BY <1>3, <1>5, <1>6

LEMMA InsertKeeps ==
  ASSUME TableTypeOK, IndexAgrees, NEW id \in ReservationId, NEW rec \in Record,
         Insert(id, rec)
  PROVE  /\ TableTypeOK' /\ IndexAgrees'
         /\ records'[id] = rec
         /\ DOMAIN records' = DOMAIN records \cup {id}
         /\ \A i \in DOMAIN records : records'[i] = records[i]
<1>1. /\ id \notin DOMAIN records
      /\ records' = [i \in DOMAIN records \cup {id} |->
                       IF i = id THEN rec ELSE records[i]]
      /\ by_robot' = [by_robot EXCEPT ![rec.robot] = @ \cup {id}]
  BY DEF Insert
<1>2. /\ records'[id] = rec
      /\ DOMAIN records' = DOMAIN records \cup {id}
      /\ \A i \in DOMAIN records : records'[i] = records[i]
  BY <1>1
<1>3. rec.robot \in Robot /\ rec.resource \in Resource /\ KeyOf(rec, id) \in Key
  BY DEF Record, KeyOf, Key
<1>4. \A r \in Resource :
        holding_by_resource'[r] = KeysIn(records', DOMAIN records', r)
  <2>1. ASSUME NEW r \in Resource
        PROVE  KeysIn(records', DOMAIN records', r) =
                 KeysIn(records, DOMAIN records, r) \cup
                   (IF rec.resource = r /\ rec.state \in Holding
                    THEN {KeyOf(rec, id)} ELSE {})
    BY <1>2 DEF KeysIn
  <2>2. CASE rec.state \in Holding
    <3>1. holding_by_resource' = [holding_by_resource EXCEPT
                                    ![rec.resource] = @ \cup {KeyOf(rec, id)}]
      BY <2>2 DEF Insert
    <3>2. \A r \in Resource : holding_by_resource'[r] =
            holding_by_resource[r] \cup (IF rec.resource = r THEN {KeyOf(rec, id)} ELSE {})
      BY <1>3, <3>1 DEF TableTypeOK
    <3>3. \A r \in Resource :
            holding_by_resource[r] = KeysIn(records, DOMAIN records, r)
      BY DEF IndexAgrees
    <3>. QED  BY <2>1, <2>2, <3>2, <3>3
  <2>3. CASE rec.state \notin Holding
    BY <2>1, <2>3 DEF Insert, IndexAgrees
  <2>. QED  BY <2>2, <2>3
<1>5. TableTypeOK'
  <2>1. records' \in [DOMAIN records' -> Record] /\ DOMAIN records' \subseteq ReservationId
    BY <1>1, <1>2 DEF TableTypeOK
  <2>2. IsFiniteSet(DOMAIN records')
    BY <1>2, FS_AddElement DEF TableTypeOK
  <2>3. by_robot' \in [Robot -> SUBSET ReservationId]
    BY <1>1 DEF TableTypeOK
  <2>4. holding_by_resource' \in [Resource -> SUBSET Key] /\ holding_count' \in Int
    BY <1>3 DEF Insert, TableTypeOK
  <2>. QED  BY <2>1, <2>2, <2>3, <2>4 DEF TableTypeOK
<1>6. ASSUME NEW robot \in Robot
      PROVE  by_robot'[robot] = {i \in DOMAIN records' : records'[i].robot = robot}
  <2>1. by_robot[robot] = {i \in DOMAIN records : records[i].robot = robot}
    BY DEF IndexAgrees
  <2>2. by_robot'[robot] = by_robot[robot] \cup (IF rec.robot = robot THEN {id} ELSE {})
    BY <1>1, <1>3 DEF TableTypeOK
  <2>. QED  BY <1>2, <2>1, <2>2
<1>. QED  BY <1>2, <1>4, <1>5, <1>6 DEF IndexAgrees
(* A claim put in the table, checked if it withholds anything.             *)
LetIn(id, rec) ==
  /\ id \in ReservationId /\ rec \in Record
  /\ rec.state \in Holding => Admitted(rec.resource, rec.robot, rec.window, rec.usage)
  /\ Insert(id, rec)

(* A claim the check lets in leaves both exclusions as they were.          *)
LEMMA LetInKeeps ==
  ASSUME TableTypeOK, IndexAgrees, CapacityAlways, ExclusionRespected,
         NEW g, NEW rec, LetIn(g, rec)
  PROVE  TableTypeOK' /\ IndexAgrees' /\ CapacityAlways' /\ ExclusionRespected'
<1> DEFINE r == rec.resource
           b == rec.robot
           w == rec.window
<1>1. g \in ReservationId /\ rec \in Record /\ Insert(g, rec)
  BY DEF LetIn
<1>2. /\ TableTypeOK' /\ IndexAgrees'
      /\ records'[g] = rec
      /\ DOMAIN records' = DOMAIN records \cup {g}
      /\ \A i \in DOMAIN records : records'[i] = records[i]
  BY <1>1, InsertKeeps
<1>3. g \notin DOMAIN records
  BY <1>1 DEF Insert
<1>4. b \in Robot /\ r \in Resource /\ IsSpan(w)
  BY <1>1 DEF Record, IsSpan
<1>5. \A id \in Holders' \ {g} : id \in Holders /\ SameClaim(id)
  BY <1>2 DEF Holders, SameClaim
<1>6. CASE rec.state \notin Holding
  <2>1. \A id \in Holders' : id \in Holders /\ SameClaim(id)
    BY <1>2, <1>5, <1>6 DEF Holders
  <2>. QED  BY <1>2, <2>1, NoClaimGains
<1>7. CASE rec.state \in Holding
  <2>1. Admitted(r, b, w, rec.usage) /\ g \in Holders'
    BY <1>2, <1>7 DEF LetIn, Holders
  <2>2. ASSUME NEW t \in Int, Contains(w, t)
        PROVE  Cardinality(RobotsOf(OthersAt(r, b, t))') < CapacityOf(r)
    <3>1. Cardinality(RobotsOf(OthersAt(r, b, t))) < CapacityOf(r)
      BY <1>4, <2>1, <2>2, RoomWhenAdmitted
    <3>2. RobotsOf(OthersAt(r, b, t))' = RobotsOf(OthersAt(r, b, t))
      BY <1>2, <1>3 DEF RobotsOf, OthersAt, HoldersOf, Holders
    <3>. QED  BY <3>1, <3>2
  <2>3. ASSUME NEW id \in Holders', Contend(g, id)'
        PROVE  ~Excludes(r, rec.usage, records'[id].usage)
    <3>1. id # g /\ id \in Holders /\ records'[id] = records[id]
      BY <1>2, <1>5, <2>3 DEF Contend, Holders
    <3>2. /\ id \in HoldersOf(r) /\ records[id].robot # b
          /\ Overlaps(records[id].window, w)
      BY <1>2, <2>3, <3>1 DEF Contend, HoldersOf, Overlaps
    <3>3. id \in Contenders(r, w, b)
      BY <1>4, <3>2, ContendersAreRivals
    <3>. QED  BY <2>1, <3>1, <3>3, AdmittedMeans
  <2>4. CapacityAlways' /\ ExclusionRespected'
    BY <1>2, <1>4, <1>5, <2>1, <2>2, <2>3, OneClaimGains
  <2>. QED  BY <1>2, <2>4
<1>. QED  BY <1>6, <1>7

-----------------------------------------------------------------------------
(* The counter, which the writes move without looking at the records.      *)

(* A new claim counts if it holds.                                         *)
LEMMA InsertCounts ==
  ASSUME TableTypeOK, CountAgrees, NEW id, NEW rec, Insert(id, rec)
  PROVE  CountAgrees'
<1>1. IsFiniteSet(Holders) /\ Cardinality(Holders) \in Nat
  BY FS_Subset, FS_CardinalityType DEF TableTypeOK, Holders
<1>2. /\ id \notin DOMAIN records /\ DOMAIN records' = DOMAIN records \cup {id}
      /\ records'[id] = rec
      /\ \A i \in DOMAIN records : records'[i] = records[i]
  BY DEF Insert
<1>3. CASE rec.state \in Holding
  <2>1. Holders' = Holders \cup {id} /\ id \notin Holders
    BY <1>2, <1>3 DEF Holders
  <2>2. Cardinality(Holders') = Cardinality(Holders) + 1
    BY <1>1, <2>1, FS_AddElement
  <2>. QED  BY <1>3, <2>2 DEF Insert, CountAgrees
<1>4. CASE rec.state \notin Holding
  <2>1. Holders' = Holders
    BY <1>2, <1>4 DEF Holders
  <2>. QED  BY <1>4, <2>1 DEF Insert, CountAgrees
<1>. QED  BY <1>3, <1>4

(* Uncounting each moved claim that held and counting each that holds now  *)
(* leaves the number of those that hold.                                   *)
LEMMA ReindexCounts ==
  ASSUME TableTypeOK, IndexAgrees, CountAgrees, NEW next, Reindex(next),
         DOMAIN records' = DOMAIN records,
         \A id \in DOMAIN records :
           records'[id].state =
             (IF id \in DOMAIN next THEN next[id] ELSE records[id].state)
  PROVE  CountAgrees'
<1> DEFINE ids   == DOMAIN next
           still == {id \in ids : next[id] \in Holding}
           rest  == Holders \ ids
<1>1. ids \subseteq DOMAIN records
  BY DEF Reindex
<1>2. IsFiniteSet(Holders) /\ IsFiniteSet(still)
  BY <1>1, FS_Subset DEF TableTypeOK, Holders
<1>3. /\ IsFiniteSet(rest)
      /\ Cardinality(rest) = Cardinality(Holders) - Cardinality(Holders \cap ids)
  BY <1>2, FS_Difference
<1>4. Holders' = rest \cup still /\ rest \cap still = {}
  BY <1>1 DEF Holders
<1>5. Cardinality(rest \cup still) =
        Cardinality(rest) + Cardinality(still) - Cardinality({})
  BY <1>2, <1>3, <1>4, FS_Union
<1>6. FoundByKey(ids) = Holders \cap ids
  BY <1>1, FoundIfHeld
<1>7. holding_count' = holding_count - Cardinality(Holders \cap ids) + Cardinality(still)
  BY <1>6 DEF Reindex, CountAfter
<1>8. /\ Cardinality(Holders) \in Nat /\ Cardinality(still) \in Nat
      /\ Cardinality(Holders \cap ids) \in Nat /\ Cardinality({}) = 0
  BY <1>2, FS_Subset, FS_CardinalityType, FS_EmptySet
<1> HIDE DEF ids, still, rest
<1>. QED  BY <1>3, <1>4, <1>5, <1>7, <1>8 DEF CountAgrees

(* What touches no state touches no count.                                 *)
LEMMA SameHoldersCount ==
  ASSUME CountAgrees, Holders' = Holders, UNCHANGED holding_count
  PROVE  CountAgrees'
BY DEF CountAgrees

-----------------------------------------------------------------------------
(* The manager.                                                            *)


(* The inductive invariant.  CapacityAlways is CapacityRespected with the  *)
(* instants no clock shows included: an extension is decided long before   *)
(* the span it adds.  Neither exclusion is inductive without the agreement *)
(* of index and records, which is what the admission check reads.          *)
IInv == TypeOK /\ IndexAgrees /\ CapacityAlways /\ ExclusionRespected

(* What holds after a step that gave no claim more time.                   *)
LEMMA NothingGainedKeeps ==
  ASSUME IInv, TableTypeOK', IndexAgrees', NothingGained,
         waits' \in [DOMAIN waits' -> Wait], DOMAIN waits' \subseteq Robot,
         now' \in Time
  PROVE  IInv'
<1>1. CapacityAlways' /\ ExclusionRespected'
  BY NoClaimGains DEF IInv, TypeOK, NothingGained
<1>. QED  BY <1>1 DEF IInv, TypeOK

LEMMA ClearWaitTyped ==
  ASSUME TypeOK, NEW robot, ClearWait(robot)
  PROVE  waits' \in [DOMAIN waits' -> Wait] /\ DOMAIN waits' \subseteq Robot
BY DEF TypeOK, ClearWait

LEMMA NoteWaitTyped ==
  ASSUME TypeOK, NEW robot \in Robot, NEW resource \in Resource,
         NEW blockers \in SUBSET Robot, NoteWait(robot, resource, blockers)
  PROVE  waits' \in [DOMAIN waits' -> Wait] /\ DOMAIN waits' \subseteq Robot
<1>1. \A r \in DOMAIN waits : waits[r] \in Wait
  BY DEF TypeOK
<1>2. /\ DOMAIN waits' = DOMAIN waits \cup {robot}
      /\ \A r \in DOMAIN waits' : waits'[r] \in Wait
      /\ waits' = [r \in DOMAIN waits' |-> waits'[r]]
  BY <1>1 DEF NoteWait, WaitStart, Wait, TypeOK
<1>. QED  BY <1>2 DEF TypeOK

(* The check answers with claims there are.                                *)
LEMMA BlockersAreClaims ==
  ASSUME NEW r, NEW b, NEW w, NEW u
  PROVE  /\ Check(r, b, w, u).blockers \subseteq Contenders(r, w, b)
         /\ Contenders(r, w, b) \subseteq DOMAIN records
BY DEF Check, Contenders

LEMMA FreshRecordTyped ==
  ASSUME TypeOK, NEW req \in Requests, IsFresh(req)
  PROVE  /\ req.id \in ReservationId /\ req.robot \in Robot
         /\ req.resource \in Resource /\ req.usage \in Usage
         /\ IsSpan(RequestedWindow(req))
         /\ NewRecord(req) \in Record
<1>1. req \in RequestSet
  BY RequestAssumption
<1>2. /\ req.id \in ReservationId /\ req.robot \in Robot
      /\ req.resource \in Resource /\ req.usage \in Usage
      /\ req.start \in Int /\ req.duration \in Int
  BY <1>1 DEF RequestSet, IsFresh
<1>3. RequestedWindow(req) \in {w \in [start : Int, end : Int] : IsWindow(w)}
  <2>1. EntryBuffer \in Int /\ ExitBuffer \in Int
    BY PolicyAssumption
  <2>. QED  BY <1>2, <2>1
            DEF IsFresh, RequestedWindow, HasEffectiveWindow, EffectiveWindow, Window
<1>4. now \in Int /\ "pending" \in State
  BY SortAssumption DEF TypeOK, State
<1>. QED  BY <1>2, <1>3, <1>4 DEF NewRecord, Record, IsSpan

(* A granted request is one the check lets in.                             *)
LEMMA GrantLetsIn ==
  ASSUME TypeOK, NEW req \in Requests, IsFresh(req),
         Verdict(req).result = "admitted", Insert(req.id, NewRecord(req))
  PROVE  LetIn(req.id, NewRecord(req))
<1>1. req.id \in ReservationId /\ NewRecord(req) \in Record
  BY FreshRecordTyped
<1>2. /\ NewRecord(req).resource = req.resource /\ NewRecord(req).robot = req.robot
      /\ NewRecord(req).window = RequestedWindow(req) /\ NewRecord(req).usage = req.usage
  BY DEF NewRecord
<1>. QED  BY <1>1, <1>2 DEF LetIn, Admitted, Verdict

LEMMA RequestStep ==
  ASSUME IInv, NEW req \in Requests, Request(req)
  PROVE  IInv'
<1> DEFINE r == req.resource
           b == req.robot
<1>0. TypeOK /\ TableTypeOK /\ IndexAgrees /\ CapacityAlways /\ ExclusionRespected
  BY DEF IInv, TypeOK
<1>1. IsFresh(req) /\ now' = now /\ b \in Robot /\ r \in Resource
  BY <1>0, FreshRecordTyped DEF Request
<1>2. CASE /\ Verdict(req).result = "admitted"
           /\ Insert(req.id, NewRecord(req))
           /\ ClearWait(b)
  <2>1. LetIn(req.id, NewRecord(req))
    BY <1>0, <1>1, <1>2, GrantLetsIn
  <2>2. TableTypeOK' /\ IndexAgrees' /\ CapacityAlways' /\ ExclusionRespected'
    BY <1>0, <2>1, LetInKeeps
  <2>. QED  BY <1>0, <1>1, <1>2, <2>2, ClearWaitTyped DEF IInv, TypeOK
<1>3. CASE /\ NoteWait(b, r, RobotsOf(Verdict(req).blockers))
           /\ UNCHANGED tableVars
  <2>1. RobotsOf(Verdict(req).blockers) \subseteq Robot
    BY <1>0, BlockersAreClaims, RecordTypes DEF RobotsOf, Verdict
  <2>2. waits' \in [DOMAIN waits' -> Wait] /\ DOMAIN waits' \subseteq Robot
    BY <1>0, <1>1, <1>3, <2>1, NoteWaitTyped
  <2>3. /\ TableTypeOK' /\ IndexAgrees' /\ NothingGained
    BY <1>0, <1>3 DEF tableVars, TableTypeOK, IndexAgrees, KeysIn, KeyOf,
                      NothingGained, Holders, SameClaim
  <2>. QED  BY <1>0, <1>1, <2>2, <2>3, NothingGainedKeeps DEF TypeOK
<1>. QED  BY <1>2, <1>3 DEF Request

(* What an extension writes: the end of one claim, and the end of those    *)
(* that make way for it.                                                   *)
LEMMA ExtendWrites ==
  ASSUME IInv, NEW id, NEW newEnd \in Int, Extend(id, newEnd)
  PROVE  /\ TableTypeOK' /\ IndexAgrees'
         /\ id \in Holders /\ id \in Holders'
         /\ DOMAIN records' = DOMAIN records
         /\ records'[id].robot = records[id].robot
         /\ records'[id].resource = records[id].resource
         /\ records'[id].usage = records[id].usage
         /\ records'[id].window.start = records[id].window.start
         /\ records'[id].window.end = newEnd
         /\ \A i \in Holders' \ {id} : i \in Holders /\ SameClaim(i)
<1> DEFINE revoked == [other \in Displaced(id, newEnd) |-> "cancelled"]
           next    == [other \in {} |-> "cancelled"]
<1>0. TypeOK /\ TableTypeOK /\ IndexAgrees
  BY DEF IInv, TypeOK
<1>1. /\ id \in DOMAIN records /\ records[id].state \notin Terminal
      /\ newEnd > records[id].window.end
  BY DEF Extend
<1>2. id \in Holders
  BY <1>0, <1>1, RecordTypes DEF Holders, State, Terminal, Holding
<1>3. ASSUME NEW recs \in [DOMAIN records -> Record],
             recs[id].window = records[id].window,
             records' = WithWindowEnd(recs, id, newEnd)
      PROVE  /\ records' \in [DOMAIN records -> Record]
             /\ records'[id].window = [start |-> records[id].window.start, end |-> newEnd]
             /\ records'[id].robot = recs[id].robot
             /\ records'[id].resource = recs[id].resource
             /\ records'[id].usage = recs[id].usage
             /\ records'[id].state = recs[id].state
             /\ \A i \in DOMAIN records \ {id} : records'[i] = recs[i]
  <2>1. recs[id] \in Record
    BY <1>1
  <2>2. records' = [recs EXCEPT ![id] = [recs[id] EXCEPT !.window =
                      [recs[id].window EXCEPT !.end = newEnd]]]
    BY <1>3 DEF WithWindowEnd
  <2>3. [recs[id].window EXCEPT !.end = newEnd] =
          [start |-> records[id].window.start, end |-> newEnd]
    BY <1>3, <2>1 DEF Record
  <2>4. [start |-> records[id].window.start, end |-> newEnd]
          \in {w \in [start : Int, end : Int] : IsWindow(w)}
    BY <1>0, <1>1, RecordTypes DEF IsWindow, IsSpan
  <2>5. records'[id] = [recs[id] EXCEPT !.window =
                          [start |-> records[id].window.start, end |-> newEnd]]
    BY <1>1, <2>2, <2>3
  <2>6. records'[id] \in Record
    BY <2>1, <2>4, <2>5 DEF Record
  <2>. QED  BY <1>1, <2>1, <2>2, <2>5, <2>6 DEF Record
<1>4. CASE /\ records' = WithWindowEnd(records, id, newEnd)
           /\ UNCHANGED <<holding_by_resource, by_robot, holding_count>>
  <2>1. records \in [DOMAIN records -> Record]
    BY <1>0 DEF TableTypeOK
  <2>2. /\ records' \in [DOMAIN records -> Record]
        /\ records'[id].window = [start |-> records[id].window.start, end |-> newEnd]
        /\ records'[id].robot = records[id].robot
        /\ records'[id].resource = records[id].resource
        /\ records'[id].usage = records[id].usage
        /\ records'[id].state = records[id].state
        /\ \A i \in DOMAIN records \ {id} : records'[i] = records[i]
    BY <1>3, <1>4, <2>1
  <2>3. TableTypeOK'
    BY <1>0, <1>4, <2>2 DEF TableTypeOK
  <2>4. \A r \in Resource :
          KeysIn(records', DOMAIN records', r) = KeysIn(records, DOMAIN records, r)
    <3>1. \A i \in DOMAIN records : /\ KeyOf(records'[i], i) = KeyOf(records[i], i)
                                    /\ records'[i].resource = records[i].resource
                                    /\ records'[i].state = records[i].state
      BY <2>2 DEF KeyOf
    <3>. QED  BY <2>2, <3>1 DEF KeysIn
  <2>5. ASSUME NEW robot \in Robot
        PROVE  {i \in DOMAIN records' : records'[i].robot = robot} =
                 {i \in DOMAIN records : records[i].robot = robot}
    BY <2>2
  <2>6. IndexAgrees'
    BY <1>0, <1>4, <2>4, <2>5 DEF IndexAgrees
  <2>. QED  BY <1>2, <2>2, <2>3, <2>6 DEF Holders, SameClaim
<1>5. CASE /\ Reindex(revoked)
           /\ records' = WithWindowEnd(WithStates(records, revoked), id, newEnd)
  <2> DEFINE moved == WithStates(records, revoked)
  <2>1. id \notin Displaced(id, newEnd)
    BY DEF Displaced, Contenders
  <2>2. /\ moved \in [DOMAIN records -> Record]
        /\ \A i \in DOMAIN records :
             /\ moved[i].state = IF i \in DOMAIN revoked
                                 THEN revoked[i] ELSE records[i].state
             /\ moved[i].robot = records[i].robot
             /\ moved[i].resource = records[i].resource
             /\ moved[i].window = records[i].window
             /\ moved[i].usage = records[i].usage
    BY <1>0, <1>5, WithStatesTyped
  <2>3. /\ records' \in [DOMAIN records -> Record]
        /\ records'[id].window = [start |-> records[id].window.start, end |-> newEnd]
        /\ records'[id].robot = records[id].robot
        /\ records'[id].resource = records[id].resource
        /\ records'[id].usage = records[id].usage
        /\ records'[id].state = records[id].state
        /\ \A i \in DOMAIN records \ {id} : records'[i] = moved[i]
    BY <1>1, <1>3, <1>5, <2>1, <2>2
  <2>4. IndexAgrees' /\ holding_by_resource' \in [Resource -> SUBSET Key]
    <3>1. \A i \in DOMAIN records :
            /\ records'[i].robot = records[i].robot
            /\ records'[i].resource = records[i].resource
            /\ records'[i].window.start = records[i].window.start
            /\ records'[i].state =
                 (IF i \in DOMAIN revoked THEN revoked[i] ELSE records[i].state)
      BY <2>1, <2>2, <2>3
    <3>2. DOMAIN records' = DOMAIN records
      BY <2>3
    <3>. HIDE DEF revoked
    <3>. QED  BY <1>0, <1>5, <3>1, <3>2, ReindexAgrees
  <2>5. by_robot' = by_robot
    BY <1>5 DEF Reindex
  <2>6. holding_count' \in Int
    <3>1. IsFiniteSet(DOMAIN revoked)
      BY <1>0, <1>5, FS_Subset DEF Reindex, TableTypeOK
    <3>2. /\ Cardinality(DOMAIN revoked \cap Holders) \in Nat
          /\ Cardinality({i \in DOMAIN revoked : revoked[i] \in Holding}) \in Nat
      BY <3>1, FS_Subset, FS_CardinalityType
    <3>3. DOMAIN revoked \subseteq DOMAIN records
      BY <1>5 DEF Reindex
    <3>. HIDE DEF revoked
    <3>4. FoundByKey(DOMAIN revoked) = DOMAIN revoked \cap Holders
      BY <1>0, <3>3, FoundIfHeld
    <3>5. Cardinality(FoundByKey(DOMAIN revoked)) \in Nat
      BY <3>2, <3>4, Zenon
    <3>. QED  BY <1>0, <1>5, <3>2, <3>5 DEF Reindex, CountAfter, TableTypeOK
  <2>7. TableTypeOK'
    BY <1>0, <2>3, <2>4, <2>5, <2>6 DEF TableTypeOK
  <2>8. \A i \in Holders' \ {id} : i \in Holders /\ SameClaim(i)
    BY <2>2, <2>3 DEF Holders, SameClaim, Holding
  <2>. QED  BY <1>2, <2>3, <2>4, <2>7, <2>8 DEF Holders
<1>. QED  BY <1>1, <1>4, <1>5 DEF Extend

(* An extension keeps both exclusions: the added span was free of rivals   *)
(* that refuse it, or every rival on it has just made way.                 *)
LEMMA ExtendStep ==
  ASSUME IInv, NEW id, NEW newEnd \in NewEnds, Extend(id, newEnd)
  PROVE  IInv'
<1> DEFINE r == records[id].resource
           b == records[id].robot
           u == records[id].usage
           w == Addition(id, newEnd)
<1>0. /\ TypeOK /\ TableTypeOK /\ IndexAgrees /\ CapacityAlways /\ ExclusionRespected
      /\ newEnd \in Int
  BY RequestAssumption DEF IInv, TypeOK
<1>1. /\ TableTypeOK' /\ IndexAgrees'
      /\ id \in Holders /\ id \in Holders'
      /\ DOMAIN records' = DOMAIN records
      /\ records'[id].robot = b /\ records'[id].resource = r
      /\ records'[id].usage = u
      /\ records'[id].window.start = records[id].window.start
      /\ records'[id].window.end = newEnd
      /\ \A i \in Holders' \ {id} : i \in Holders /\ SameClaim(i)
  BY <1>0, ExtendWrites
<1>2. /\ r \in Resource /\ b \in Robot /\ u \in Usage
      /\ IsSpan(records[id].window) /\ IsSpan(w)
      /\ w.start = records[id].window.end /\ w.end = newEnd
  BY <1>0, <1>1, RecordTypes DEF Holders, Addition, Window, IsSpan
<1>3. Displaced(id, newEnd) = Contenders(r, w, b)
  BY DEF Displaced
<1>4. Contenders(r, w, b) = {i \in HoldersOf(r) :
         records[i].robot # b /\ Overlaps(records[i].window, w)}
  BY <1>0, <1>2, ContendersAreRivals
<1>5. \A t \in Int : Contains(records'[id].window, t) =>
        Contains(records[id].window, t) \/ Contains(w, t)
  BY <1>1, <1>2 DEF Contains, IsSpan
<1>6. \A i \in Holders' : Contend(id, i)' =>
        /\ i # id /\ i \in HoldersOf(r) /\ records[i].robot # b
        /\ SameClaim(i) /\ IsSpan(records[i].window)
        /\ Contend(id, i) \/ i \in Contenders(r, w, b)
  <2>1. SUFFICES ASSUME NEW i \in Holders', Contend(id, i)'
        PROVE  /\ i # id /\ i \in HoldersOf(r) /\ records[i].robot # b
               /\ SameClaim(i) /\ IsSpan(records[i].window)
               /\ Contend(id, i) \/ i \in Contenders(r, w, b)
    OBVIOUS
  <2>2. i # id /\ i \in Holders /\ SameClaim(i)
    BY <1>1, <2>1 DEF Contend
  <2>3. i \in HoldersOf(r) /\ records[i].robot # b
    BY <1>1, <2>1, <2>2 DEF Contend, HoldersOf, SameClaim
  <2>4. IsSpan(records[i].window)
    BY <1>0, <2>2, RecordTypes DEF Holders
  <2>5. Overlaps(records'[id].window, records[i].window)
    BY <2>1, <2>2 DEF Contend, SameClaim
  <2>6. Overlaps(records[id].window, records[i].window) \/ Overlaps(records[i].window, w)
    <3>1. /\ records[id].window.start < records[i].window.end
          /\ records[i].window.start < newEnd
      BY <1>1, <2>5 DEF Overlaps
    <3>2. records[id].window.start \in Int /\ records[id].window.end \in Int
      BY <1>2 DEF IsSpan
    <3>3. records[i].window.start \in Int /\ records[i].window.end \in Int
      BY <2>4 DEF IsSpan
    <3>4. \/ records[i].window.start < records[id].window.end
          \/ records[id].window.end < records[i].window.end
      <4>1. records[i].window.start < records[i].window.end
        BY <1>0, <2>2, RecordTypes DEF Holders, IsWindow
      <4>. QED  BY <3>2, <3>3, <4>1
    <3>. QED  BY <1>2, <3>1, <3>4 DEF Overlaps
  <2>. QED  BY <1>4, <2>2, <2>3, <2>4, <2>6 DEF Contend, HoldersOf
<1>7. \A i \in Holders : Contend(id, i) => ~Excludes(r, u, records[i].usage)
  BY <1>0, <1>1 DEF ExclusionRespected
<1>8. CASE Admitted(r, b, w, u) /\ records' = WithWindowEnd(records, id, newEnd)
  <2>1. ASSUME NEW t \in Int, Contains(w, t)
        PROVE  Cardinality(RobotsOf(OthersAt(r, b, t))') < CapacityOf(r)
    <3>1. Cardinality(RobotsOf(OthersAt(r, b, t))) < CapacityOf(r)
      BY <1>0, <1>2, <1>8, <2>1, RoomWhenAdmitted
    <3>2. OthersAt(r, b, t)' \subseteq OthersAt(r, b, t)
      BY <1>1 DEF OthersAt, HoldersOf, SameClaim
    <3>3. IsFiniteSet(OthersAt(r, b, t))
      BY <1>0, HoldersFinite DEF OthersAt
    <3>4. RobotsOf(OthersAt(r, b, t))' = RobotsOf(OthersAt(r, b, t)')
      <4>1. \A i \in OthersAt(r, b, t)' : records'[i].robot = records[i].robot
        BY <1>1 DEF OthersAt, HoldersOf, SameClaim
      <4>. QED  BY <4>1 DEF RobotsOf
    <3>5. /\ Cardinality(RobotsOf(OthersAt(r, b, t)')) <= Cardinality(RobotsOf(OthersAt(r, b, t)))
          /\ Cardinality(RobotsOf(OthersAt(r, b, t)')) \in Nat
          /\ Cardinality(RobotsOf(OthersAt(r, b, t))) \in Nat
      BY <3>2, <3>3, RobotsOfMonotone
    <3>. QED  BY <1>2, <3>1, <3>4, <3>5, CapacityType
  <2>2. \A i \in Contenders(r, w, b) : ~Excludes(r, u, records[i].usage)
    BY <1>8, AdmittedMeans
  <2>3. \A i \in Holders' : Contend(id, i)' =>
          ~Excludes(r, records'[id].usage, records'[i].usage)
    BY <1>1, <1>6, <1>7, <2>2 DEF HoldersOf, SameClaim
  <2>4. CapacityAlways' /\ ExclusionRespected'
    BY <1>0, <1>1, <1>2, <1>5, <2>1, <2>3, OneClaimGains
  <2>. QED  BY <1>0, <1>1, <2>4 DEF Extend, IInv, TypeOK
<1>9. CASE /\ CapacityOf(r) # 0
           /\ records' = WithWindowEnd(
                WithStates(records, [other \in Displaced(id, newEnd) |-> "cancelled"]),
                id, newEnd)
  <2>1. \A i \in Holders' \ {id} : i \notin Contenders(r, w, b)
    <3>1. SUFFICES ASSUME NEW i \in DOMAIN records \ {id}, i \in Contenders(r, w, b)
          PROVE  records'[i].state = "cancelled"
      BY <1>1 DEF Holders, Holding
    <3>2. records'[i] = WithStates(records,
             [other \in Displaced(id, newEnd) |-> "cancelled"])[i]
      BY <1>1, <1>9 DEF WithWindowEnd, WithStates
    <3>3. WithStates(records, [other \in Displaced(id, newEnd) |-> "cancelled"])[i]
            = [records[i] EXCEPT !.state = "cancelled"]
      BY <1>3, <3>1 DEF WithStates
    <3>4. records[i] \in Record
      BY <1>0 DEF TableTypeOK
    <3>. QED  BY <3>2, <3>3, <3>4 DEF Record
  <2>2. ASSUME NEW t \in Int, Contains(w, t)
        PROVE  Cardinality(RobotsOf(OthersAt(r, b, t))') < CapacityOf(r)
    <3>1. OthersAt(r, b, t)' = {}
      <4>1. SUFFICES ASSUME NEW i \in OthersAt(r, b, t)' PROVE FALSE
        OBVIOUS
      <4>2. /\ i \in Holders' \ {id} /\ i \in Holders /\ SameClaim(i)
            /\ Contains(records[i].window, t)
            /\ i \in HoldersOf(r) /\ records[i].robot # b
        BY <1>1, <4>1 DEF OthersAt, HoldersOf, SameClaim
      <4>3. IsSpan(records[i].window)
        BY <1>0, <4>2, RecordTypes DEF Holders
      <4>4. Overlaps(records[i].window, w)
        BY <1>2, <2>2, <4>2, <4>3 DEF Contains, Overlaps, IsSpan
      <4>. QED  BY <1>4, <2>1, <4>2, <4>4
    <3>2. RobotsOf(OthersAt(r, b, t))' = {}
      BY <3>1 DEF RobotsOf
    <3>. QED  BY <1>9, <3>2, FS_EmptySet, CapacityType
  <2>3. \A i \in Holders' : Contend(id, i)' =>
          ~Excludes(r, records'[id].usage, records'[i].usage)
    BY <1>1, <1>6, <1>7, <2>1 DEF HoldersOf, SameClaim
  <2>4. CapacityAlways' /\ ExclusionRespected'
    BY <1>0, <1>1, <1>2, <1>5, <2>2, <2>3, OneClaimGains
  <2>. QED  BY <1>0, <1>1, <2>4 DEF Extend, IInv, TypeOK
<1>. QED  BY <1>8, <1>9 DEF Extend

(* The calls that only change states, or less.                             *)
LEMMA SetStatesStep ==
  ASSUME IInv, NEW next, SetStates(next), now' = now,
         waits' = waits \/ \E robot : ClearWait(robot)
  PROVE  IInv'
<1>1. TypeOK /\ TableTypeOK /\ IndexAgrees
  BY DEF IInv, TypeOK
<1>2. TableTypeOK' /\ IndexAgrees' /\ NothingGained
  BY <1>1, SetStatesKeeps
<1>3. waits' \in [DOMAIN waits' -> Wait] /\ DOMAIN waits' \subseteq Robot
  BY <1>1, ClearWaitTyped DEF TypeOK
<1>. QED  BY <1>1, <1>2, <1>3, NothingGainedKeeps DEF TypeOK

LEMMA InitEstablishes ==
  ASSUME Init  PROVE  IInv
<1>1. records = [id \in {} |-> None] /\ DOMAIN records = {} /\ Holders = {}
  BY DEF Init, TableInit, Holders
<1>2. TypeOK
  BY <1>1, FS_EmptySet DEF Init, TableInit, TypeOK, TableTypeOK
<1>3. IndexAgrees
  BY <1>1 DEF Init, TableInit, IndexAgrees, KeysIn
<1>4. ASSUME NEW r \in Resource, NEW t \in Int
      PROVE  Cardinality(OccupantsAt(HoldersOf(r), t)) <= CapacityOf(r)
  <2>1. OccupantsAt(HoldersOf(r), t) = {}
    BY <1>1 DEF OccupantsAt, RobotsOf, HoldersOf
  <2>. QED  BY <2>1, FS_EmptySet, CapacityType
<1>. QED  BY <1>1, <1>2, <1>3, <1>4 DEF IInv, CapacityAlways, ExclusionRespected

LEMMA NextPreserves ==
  ASSUME IInv, [Next]_vars  PROVE  IInv'
<1>0. TypeOK /\ TableTypeOK /\ IndexAgrees
  BY DEF IInv, TypeOK
<1>1. CASE \E req \in Requests : Request(req)
  BY <1>1, RequestStep
<1>2. ASSUME NEW id \in ReservationId, Activate(id)  PROVE IInv'
  BY <1>2, SetStatesStep DEF Activate, SetState
<1>3. ASSUME NEW id \in ReservationId, Release(id)  PROVE IInv'
  BY <1>3, SetStatesStep DEF Release, SetState
<1>4. ASSUME NEW id \in ReservationId, Cancel(id)  PROVE IInv'
  BY <1>4, SetStatesStep DEF Cancel, SetState
<1>5. ASSUME NEW id \in ReservationId, Commit(id)  PROVE IInv'
  <2>1. TableTypeOK' /\ IndexAgrees' /\ NothingGained
    BY <1>0, <1>5, MarkCommittedKeeps DEF Commit
  <2>. QED  BY <1>0, <1>5, <2>1, NothingGainedKeeps DEF Commit, TypeOK
<1>6. ASSUME NEW id \in ReservationId, Expire(id)  PROVE IInv'
  BY <1>6, SetStatesStep DEF Expire, SetState
<1>7. ASSUME NEW id \in ReservationId, NEW newEnd \in NewEnds, Extend(id, newEnd)
      PROVE  IInv'
  BY <1>7, ExtendStep
<1>8. ASSUME NEW robot \in Robot, ReleaseAllFor(robot)  PROVE IInv'
  BY <1>8, SetStatesStep DEF ReleaseAllFor
<1>9. CASE Sweep
  BY <1>9, SetStatesStep DEF Sweep
<1>10. ASSUME NEW cutoff \in Cutoffs, Purge(cutoff)  PROVE IInv'
  <2>1. TableTypeOK' /\ IndexAgrees' /\ NothingGained
    BY <1>0, <1>10, PurgeKeeps DEF Purge
  <2>. QED  BY <1>0, <1>10, <2>1, NothingGainedKeeps DEF Purge, TypeOK
<1>11. CASE Tick \/ UNCHANGED vars
  <2>1. UNCHANGED <<tableVars, waits>> /\ now' \in Time
    BY <1>0, <1>11 DEF Tick, vars, TypeOK
  <2>2. TableTypeOK' /\ IndexAgrees' /\ NothingGained
    BY <1>0, <2>1 DEF tableVars, TableTypeOK, IndexAgrees, KeysIn, KeyOf,
                      NothingGained, Holders, SameClaim
  <2>. QED  BY <1>0, <2>1, <2>2, NothingGainedKeeps DEF TypeOK
<1>. QED  BY <1>1, <1>2, <1>3, <1>4, <1>5, <1>6, <1>7, <1>8, <1>9, <1>10, <1>11
          DEF Next

-----------------------------------------------------------------------------
(* The five writes, of which every call is one or none.                    *)
TableStep ==
  \/ \E id, rec : LetIn(id, rec)
  \/ \E next : SetStates(next)
  \/ \E id \in ReservationId : MarkCommitted(id)
  \/ \E cutoff \in Cutoffs : PurgeTerminalBefore(cutoff)
  \/ \E id \in ReservationId, newEnd \in Int : Extend(id, newEnd)
  \/ UNCHANGED tableVars

LEMMA CallsWrite ==
  ASSUME TypeOK, [Next]_vars  PROVE  TableStep
<1>1. ASSUME NEW req \in Requests, Request(req)  PROVE TableStep
  BY <1>1, GrantLetsIn DEF Request, TableStep
<1>2. ASSUME NEW id \in ReservationId,
             Activate(id) \/ Release(id) \/ Cancel(id) \/ Expire(id)
      PROVE  TableStep
  BY <1>2 DEF Activate, Release, Cancel, Expire, SetState, TableStep
<1>3. ASSUME NEW id \in ReservationId, Commit(id)  PROVE TableStep
  BY <1>3 DEF Commit, TableStep
<1>4. ASSUME NEW id \in ReservationId, NEW newEnd \in NewEnds, Extend(id, newEnd)
      PROVE  TableStep
  BY <1>4, RequestAssumption DEF TableStep
<1>5. ASSUME NEW robot \in Robot, ReleaseAllFor(robot)  PROVE TableStep
  BY <1>5 DEF ReleaseAllFor, TableStep
<1>6. CASE Sweep
  BY <1>6 DEF Sweep, TableStep
<1>7. ASSUME NEW cutoff \in Cutoffs, Purge(cutoff)  PROVE TableStep
  BY <1>7 DEF Purge, TableStep
<1>8. CASE Tick \/ UNCHANGED vars
  BY <1>8 DEF Tick, vars, TableStep
<1>. QED  BY <1>1, <1>2, <1>3, <1>4, <1>5, <1>6, <1>7, <1>8 DEF Next

(* set_state on any set of claims: nothing but states changes, along the   *)
(* transition table, and what has ended stays as it is.                    *)
LEMMA SetStatesEffect ==
  ASSUME TableTypeOK, NEW next, SetStates(next)
  PROVE  /\ DOMAIN records' = DOMAIN records
         /\ \A i \in DOMAIN records :
              /\ SameClaim(i)
              /\ records'[i].committed = records[i].committed
              /\ records'[i].state =
                   (IF i \in DOMAIN next THEN next[i] ELSE records[i].state)
              /\ IsTransitionAllowed(records[i].state, records'[i].state)
              /\ records[i].state \in Terminal => records'[i] = records[i]
<1>1. Reindex(next) /\ records' = WithStates(records, next)
  BY DEF SetStates
<1>2. DOMAIN records' = DOMAIN records
  BY <1>1 DEF WithStates
<1>3. ASSUME NEW i \in DOMAIN records
      PROVE  /\ SameClaim(i)
             /\ records'[i].committed = records[i].committed
             /\ records'[i].state =
                  (IF i \in DOMAIN next THEN next[i] ELSE records[i].state)
  BY <1>1, WithStatesTyped DEF SameClaim
<1>4. \A s \in State : /\ IsTransitionAllowed(s, s)
                       /\ s \in Terminal => \A t : IsTransitionAllowed(s, t) => t = s
  BY DEF State, Terminal, IsTransitionAllowed, MayBecome
<1>5. ASSUME NEW i \in DOMAIN records
      PROVE  IsTransitionAllowed(records[i].state, records'[i].state)
  BY <1>1, <1>3, <1>4, RecordTypes DEF Reindex
<1>6. ASSUME NEW i \in DOMAIN records, records[i].state \in Terminal
      PROVE  records'[i] = records[i]
  <2>1. records'[i].state = records[i].state
    BY <1>4, <1>5, <1>6, RecordTypes
  <2>2. records'[i] = [records[i] EXCEPT !.state = records[i].state] \/ records'[i] = records[i]
    BY <1>1, <1>3, <2>1 DEF WithStates
  <2>3. records[i] \in Record
    BY DEF TableTypeOK
  <2>. QED  BY <2>2, <2>3 DEF Record
<1>. QED  BY <1>2, <1>3, <1>5, <1>6

(* The claims an extension takes back.                                     *)
Revoked(id, newEnd) ==
  IF Admitted(records[id].resource, records[id].robot,
              Addition(id, newEnd), records[id].usage)
  THEN {} ELSE Displaced(id, newEnd)

(* extend: one later end, and the claims that make way are cancelled.      *)
LEMMA ExtendEffect ==
  ASSUME TableTypeOK, IndexAgrees, NEW id, NEW newEnd \in Int, Extend(id, newEnd)
  PROVE  /\ DOMAIN records' = DOMAIN records
         /\ id \in Holders /\ id \notin Revoked(id, newEnd)
         /\ newEnd > records[id].window.end
         /\ records'[id].window.start = records[id].window.start
         /\ records'[id].window.end = newEnd
         /\ \A i \in DOMAIN records :
              /\ records'[i].robot = records[i].robot
              /\ records'[i].resource = records[i].resource
              /\ records'[i].usage = records[i].usage
              /\ records'[i].state =
                   (IF i \in Revoked(id, newEnd) THEN "cancelled" ELSE records[i].state)
              /\ i # id => records'[i].window = records[i].window
              /\ i # id /\ i \notin Revoked(id, newEnd) => records'[i] = records[i]
         /\ \A i \in Revoked(id, newEnd) :
              /\ MayDisplace(i)
              /\ i \in HoldersOf(records[id].resource)
              /\ Overlaps(records[i].window, Addition(id, newEnd))
<1> DEFINE gone == Revoked(id, newEnd)
           next == [i \in gone |-> "cancelled"]
           moved == WithStates(records, next)
<1>1. /\ id \in DOMAIN records /\ records[id].state \notin Terminal
      /\ newEnd > records[id].window.end
  BY DEF Extend
<1>2. id \in Holders
  BY <1>1, RecordTypes DEF Holders, State, Terminal, Holding
<1>3. /\ id \notin gone
      /\ \A i \in gone : MayDisplace(i)
      /\ gone \subseteq Contenders(records[id].resource, Addition(id, newEnd),
                                 records[id].robot)
  BY DEF Revoked, Displaced, Contenders, Extend
<1>4. \A i \in gone : /\ i \in HoldersOf(records[id].resource)
                      /\ Overlaps(records[i].window, Addition(id, newEnd))
  <2>1. IsSpan(Addition(id, newEnd)) /\ records[id].resource \in Resource
    BY <1>1, RecordTypes DEF Addition, Window, IsSpan
  <2>. QED  BY <1>3, <2>1, ContendersAreRivals
<1>5. records' = WithWindowEnd(moved, id, newEnd)
  <2>1. CASE gone = {}
    <3>1. moved = records
      BY <2>1 DEF WithStates, TableTypeOK
    <3>2. CASE records' = WithWindowEnd(records, id, newEnd)
      BY <3>1, <3>2
    <3>3. CASE /\ records' = WithWindowEnd(WithStates(records,
                     [other \in Displaced(id, newEnd) |-> "cancelled"]), id, newEnd)
               /\ ~Admitted(records[id].resource, records[id].robot,
                            Addition(id, newEnd), records[id].usage)
      BY <3>3 DEF Revoked
    <3>. QED  BY <3>2, <3>3 DEF Extend
  <2>2. CASE gone # {}
    BY <2>2 DEF Revoked, Extend
  <2>. QED  BY <2>1, <2>2
<1>6. \A i \in DOMAIN records : records[i] \in Record
  BY DEF TableTypeOK
<1>7. /\ DOMAIN moved = DOMAIN records
      /\ \A i \in DOMAIN records :
           moved[i] = IF i \in gone THEN [records[i] EXCEPT !.state = "cancelled"]
                                   ELSE records[i]
  BY DEF WithStates
<1>8. /\ DOMAIN records' = DOMAIN records
      /\ \A i \in DOMAIN records \ {id} : records'[i] = moved[i]
      /\ records'[id] = [records[id] EXCEPT !.window.end = newEnd]
  <2> HIDE DEF gone, next, moved
  <2>. QED  BY <1>1, <1>3, <1>5, <1>7 DEF WithWindowEnd
<1>9. /\ records'[id].robot = records[id].robot
      /\ records'[id].resource = records[id].resource
      /\ records'[id].usage = records[id].usage
      /\ records'[id].state = records[id].state
      /\ records'[id].window.start = records[id].window.start
      /\ records'[id].window.end = newEnd
  BY <1>1, <1>6, <1>8 DEF Record
<1>10. ASSUME NEW i \in DOMAIN records \ {id}
       PROVE  /\ records'[i].robot = records[i].robot
              /\ records'[i].resource = records[i].resource
              /\ records'[i].usage = records[i].usage
              /\ records'[i].window = records[i].window
              /\ records'[i].state = (IF i \in gone THEN "cancelled" ELSE records[i].state)
              /\ i \notin gone => records'[i] = records[i]
  <2> HIDE DEF gone, next, moved
  <2>. QED  BY <1>6, <1>7, <1>8 DEF Record
<1> HIDE DEF next, moved
<1>. QED  BY <1>1, <1>2, <1>3, <1>4, <1>8, <1>9, <1>10

LEMMA Invariance == Spec => []IInv
<1>1. Init => IInv
  BY InitEstablishes
<1>2. IInv /\ [Next]_vars => IInv'
  BY NextPreserves
<1>. QED  BY <1>1, <1>2, PTL DEF Spec

(* Every variable keeps its type, and no claim ever covers an empty or an  *)
(* inverted span, whatever calls arrive in whatever order.                 *)
THEOREM TypeCorrect == Spec => []TypeOK
<1>1. IInv => TypeOK
  BY DEF IInv
<1>. QED  BY <1>1, Invariance, PTL

(* The indices the admission check and release_all_for read never part     *)
(* from the records.                                                       *)
THEOREM IndexNeverStale == Spec => []IndexAgrees
<1>1. IInv => IndexAgrees
  BY DEF IInv
<1>. QED  BY <1>1, Invariance, PTL

(* No resource is promised to more robots at one instant than it admits,   *)
(* for every fleet, map, buffer and horizon, whatever is extended,         *)
(* displaced, swept or purged meanwhile.                                   *)
THEOREM NeverOverbooked == Spec => []CapacityRespected
<1>1. IInv => CapacityRespected
  BY SortAssumption DEF IInv, CapacityAlways, CapacityRespected
<1>. QED  BY <1>1, Invariance, PTL

(* No two robots are promised a corridor in opposite directions, nor       *)
(* exclusive movements of an intersection, at overlapping times.           *)
THEOREM NeverOpposed == Spec => []ExclusionRespected
<1>1. IInv => ExclusionRespected
  BY DEF IInv
<1>. QED  BY <1>1, Invariance, PTL
-----------------------------------------------------------------------------
(* The counter.                                                            *)

LEMMA WritesCount ==
  ASSUME TableTypeOK, IndexAgrees, CountAgrees, TableStep
  PROVE  CountAgrees'
<1>1. ASSUME NEW id, NEW rec, LetIn(id, rec)  PROVE CountAgrees'
  BY <1>1, InsertCounts DEF LetIn
<1>2. ASSUME NEW next, SetStates(next)  PROVE CountAgrees'
  BY <1>2, SetStatesEffect, ReindexCounts DEF SetStates
<1>3. ASSUME NEW id, MarkCommitted(id)  PROVE CountAgrees'
  <2>1. /\ DOMAIN records' = DOMAIN records /\ holding_count' = holding_count
        /\ \A i \in DOMAIN records : records'[i].state = records[i].state
    <3>1. \A i \in DOMAIN records : records[i] \in Record
      BY DEF TableTypeOK
    <3>. QED  BY <1>3, <3>1 DEF MarkCommitted, Record
  <2>2. Holders' = Holders
    BY <2>1 DEF Holders
  <2>. QED  BY <2>1, <2>2, SameHoldersCount
<1>4. ASSUME NEW cutoff, PurgeTerminalBefore(cutoff)  PROVE CountAgrees'
  <2>1. Holders' = Holders /\ holding_count' = holding_count
    BY <1>4 DEF PurgeTerminalBefore, Holders, Holding, Terminal
  <2>. QED  BY <2>1, SameHoldersCount
<1>5. ASSUME NEW id, NEW newEnd \in Int, Extend(id, newEnd)  PROVE CountAgrees'
  <2> DEFINE revoked == [other \in Displaced(id, newEnd) |-> "cancelled"]
             admitted == Admitted(records[id].resource, records[id].robot,
                                  Addition(id, newEnd), records[id].usage)
  <2>1. /\ DOMAIN records' = DOMAIN records
        /\ \A i \in DOMAIN records : records'[i].state =
             (IF i \in Revoked(id, newEnd) THEN "cancelled" ELSE records[i].state)
    BY <1>5, ExtendEffect
  <2>2. CASE admitted /\ UNCHANGED holding_count
    <3>1. Revoked(id, newEnd) = {}
      BY <2>2 DEF Revoked
    <3>2. Holders' = Holders
      BY <2>1, <3>1 DEF Holders
    <3>. QED  BY <2>2, <3>2, SameHoldersCount
  <2>3. CASE ~admitted /\ Reindex(revoked)
    <3>1. Revoked(id, newEnd) = Displaced(id, newEnd)
      BY <2>3 DEF Revoked
    <3>2. \A i \in DOMAIN records : records'[i].state =
            (IF i \in DOMAIN revoked THEN revoked[i] ELSE records[i].state)
      BY <2>1, <3>1
    <3>3. Reindex(revoked)
      BY <2>3
    <3> HIDE DEF revoked
    <3>. QED  BY <2>1, <3>2, <3>3, ReindexCounts
  <2>. QED  BY <1>5, <2>2, <2>3 DEF Extend
<1>6. CASE UNCHANGED tableVars
  BY <1>6 DEF tableVars, CountAgrees, Holders
<1>. QED  BY <1>1, <1>2, <1>3, <1>4, <1>5, <1>6 DEF TableStep

(* holding_count_ is kept by adding and subtracting, claim by claim, over  *)
(* inserts, moves of any number of claims and displacements, and is always *)
(* the number of claims that withhold something.                           *)
THEOREM CountNeverDrifts == Spec => []CountAgrees
<1>1. Init => CountAgrees
  <2>1. Init => Holders = {} /\ holding_count = 0
    BY DEF Init, TableInit, Holders
  <2>. QED  BY <2>1, FS_EmptySet DEF CountAgrees
<1>2. IInv /\ CountAgrees /\ [Next]_vars => CountAgrees'
  BY CallsWrite, WritesCount DEF IInv, TypeOK
<1>. QED  BY <1>1, <1>2, Invariance, PTL DEF Spec
-----------------------------------------------------------------------------
(* What a step may never do.                                               *)

(* What a robot has is taken back only by the one call that lets another   *)
(* robot stay, and only where nothing was done with it yet.                *)
LEMMA OnlyStayingTakes ==
  ASSUME TableTypeOK, IndexAgrees, TableStep,
         NEW lost \in DOMAIN records, NEW gained \in ReservationId,
         Loses(lost), Gains(gained)
  PROVE  /\ gained \in Holders
         /\ records[lost].state = "pending"
         /\ ~records[lost].committed
         /\ records[lost].resource = records[gained].resource
         /\ Overlaps(records[lost].window,
                     Window(records[gained].window.end, records'[gained].window.end))
<1>0. \A i \in DOMAIN records : records[i].window.end \in Int
  BY RecordTypes DEF IsSpan
<1>1. ASSUME \A i \in DOMAIN records' :
               i \in DOMAIN records /\ records'[i].window = records[i].window
      PROVE  FALSE
  BY <1>0, <1>1 DEF Gains
<1>2. ASSUME NEW id, NEW rec, LetIn(id, rec)  PROVE FALSE
  <2>1. lost \in DOMAIN records' /\ records'[lost] = records[lost]
    BY <1>2 DEF LetIn, Insert
  <2>. QED  BY <2>1 DEF Loses, Holders
<1>3. ASSUME NEW next, SetStates(next)  PROVE FALSE
  BY <1>1, <1>3, SetStatesEffect DEF SameClaim
<1>4. ASSUME NEW id, MarkCommitted(id)  PROVE FALSE
  <2>1. \A i \in DOMAIN records : records[i] \in Record
    BY DEF TableTypeOK
  <2>2. \A i \in DOMAIN records' :
          i \in DOMAIN records /\ records'[i].window = records[i].window
    BY <1>4, <2>1 DEF MarkCommitted, Record
  <2>. QED  BY <1>1, <2>2
<1>5. ASSUME NEW cutoff, PurgeTerminalBefore(cutoff)  PROVE FALSE
  BY <1>1, <1>5 DEF PurgeTerminalBefore
<1>6. CASE UNCHANGED tableVars
  BY <1>1, <1>6 DEF tableVars
<1>7. ASSUME NEW id \in ReservationId, NEW newEnd \in Int, Extend(id, newEnd)
      PROVE  /\ gained = id /\ lost \in Revoked(id, newEnd)
  <2>1. lost \in Revoked(id, newEnd)
    BY <1>7, ExtendEffect DEF Loses, Holders
  <2>2. gained \in DOMAIN records
    BY <1>7, ExtendEffect DEF Gains
  <2>3. gained = id
    BY <1>0, <1>7, <2>2, ExtendEffect DEF Gains
  <2>. QED  BY <2>1, <2>3
<1>8. ASSUME NEW id \in ReservationId, NEW newEnd \in Int, Extend(id, newEnd)
      PROVE  /\ gained \in Holders
             /\ records[lost].state = "pending"
             /\ ~records[lost].committed
             /\ records[lost].resource = records[gained].resource
             /\ Overlaps(records[lost].window,
                         Window(records[gained].window.end, records'[gained].window.end))
  <2>1. /\ MayDisplace(lost) /\ lost \in HoldersOf(records[id].resource)
        /\ Overlaps(records[lost].window, Addition(id, newEnd))
        /\ id \in Holders /\ records'[id].window.end = newEnd
    BY <1>7, <1>8, ExtendEffect
  <2>2. records[lost].state = "pending" /\ ~records[lost].committed
    BY <2>1 DEF MayDisplace, HoldersOf, Holders, Holding
  <2>. QED  BY <1>7, <1>8, <2>1, <2>2 DEF HoldersOf, Addition
<1>. QED  BY <1>2, <1>3, <1>4, <1>5, <1>6, <1>8 DEF TableStep

(* "A granted claim is never revoked to satisfy a competing request": for  *)
(* every fleet and policy, a step in which one claim gains time and        *)
(* another is lost is an extension displacing an unused grant on the span  *)
(* it adds.                                                                *)
THEOREM GrantsStand == Spec => GrantsNotTakenBack
<1>1. IInv /\ [Next]_vars =>
        [\A lost \in DOMAIN records, gained \in ReservationId :
           Loses(lost) /\ Gains(gained) =>
             /\ gained \in Holders
             /\ records[lost].state = "pending"
             /\ ~records[lost].committed
             /\ records[lost].resource = records[gained].resource
             /\ Overlaps(records[lost].window,
                         Window(records[gained].window.end,
                                records'[gained].window.end))]_vars
  BY CallsWrite, OnlyStayingTakes DEF IInv, TypeOK
<1>. QED  BY <1>1, Invariance, PTL DEF Spec, GrantsNotTakenBack

(* A claim moves on in time and through its lifecycle, never back.         *)
LEMMA WritesGrow ==
  ASSUME TableTypeOK, IndexAgrees, TableStep, NEW id \in DOMAIN records
  PROVE  /\ records[id].state \in Holding => id \in DOMAIN records'
         /\ id \in DOMAIN records' =>
              /\ records[id].state \in Terminal => records'[id] = records[id]
              /\ records[id].state = "active" =>
                   records'[id].state \in {"active", "released", "expired"}
              /\ records'[id].window.start = records[id].window.start
              /\ records'[id].window.end >= records[id].window.end
<1>0. records[id] \in Record /\ records[id].window.end \in Int
  BY RecordTypes DEF IsSpan, TableTypeOK
<1>1. CASE id \in DOMAIN records' /\ records'[id] = records[id]
  BY <1>0, <1>1
<1>2. ASSUME NEW i, NEW rec, LetIn(i, rec)  PROVE id \in DOMAIN records' /\ records'[id] = records[id]
  BY <1>2 DEF LetIn, Insert
<1>3. ASSUME NEW next, SetStates(next)
      PROVE  /\ id \in DOMAIN records'
             /\ records[id].state \in Terminal => records'[id] = records[id]
             /\ records[id].state = "active" =>
                  records'[id].state \in {"active", "released", "expired"}
             /\ records'[id].window = records[id].window
  BY <1>3, SetStatesEffect DEF SameClaim, IsTransitionAllowed, MayBecome
<1>4. ASSUME NEW i, MarkCommitted(i)
      PROVE  /\ id \in DOMAIN records'
             /\ records[id].state \in Terminal => records'[id] = records[id]
             /\ records'[id].state = records[id].state
             /\ records'[id].window = records[id].window
  BY <1>0, <1>4 DEF MarkCommitted, Record
<1>5. ASSUME NEW cutoff, PurgeTerminalBefore(cutoff)
      PROVE  /\ records[id].state \in Holding => id \in DOMAIN records'
             /\ id \in DOMAIN records' => records'[id] = records[id]
  BY <1>5 DEF PurgeTerminalBefore, Holding, Terminal
<1>6. ASSUME NEW i, NEW newEnd \in Int, Extend(i, newEnd)
      PROVE  /\ id \in DOMAIN records'
             /\ records[id].state \in Terminal => records'[id] = records[id]
             /\ records[id].state = "active" => records'[id].state = "active"
             /\ records'[id].window.start = records[id].window.start
             /\ records'[id].window.end >= records[id].window.end
  <2>1. id \in Revoked(i, newEnd) => records[id].state = "pending"
    BY <1>6, ExtendEffect DEF MayDisplace, HoldersOf, Holders, Holding
  <2>2. records[id].state \in Terminal => id # i /\ id \notin Revoked(i, newEnd)
    BY <1>6, <2>1, ExtendEffect DEF Holders, Holding, Terminal
  <2>3. CASE id = i
    BY <1>0, <1>6, <2>2, <2>3, ExtendEffect
  <2>4. CASE id # i
    BY <1>0, <1>6, <2>1, <2>2, <2>4, ExtendEffect
  <2>. QED  BY <2>3, <2>4
<1>7. CASE UNCHANGED tableVars
  BY <1>1, <1>7 DEF tableVars
<1>. QED  BY <1>0, <1>1, <1>2, <1>3, <1>4, <1>5, <1>6, <1>7 DEF TableStep

(* Starts never move and ends never come earlier, on which the order of    *)
(* the index rests; a robot that has entered is never taken for gone but   *)
(* by release or expiry.                                                   *)
THEOREM ClaimsNeverShrink == Spec => ClaimsOnlyGrow
<1>1. IInv /\ [Next]_vars =>
        [\A id \in DOMAIN records :
           /\ records[id].state \in Holding => id \in DOMAIN records'
           /\ id \in DOMAIN records' =>
                /\ records[id].state \in Terminal => records'[id] = records[id]
                /\ records[id].state = "active" =>
                     records'[id].state \in {"active", "released", "expired"}
                /\ records'[id].window.start = records[id].window.start
                /\ records'[id].window.end >= records[id].window.end]_vars
  BY CallsWrite, WritesGrow DEF IInv, TypeOK
<1>. QED  BY <1>1, Invariance, PTL DEF Spec, ClaimsOnlyGrow
-----------------------------------------------------------------------------
(* Who is waited for.                                                      *)

(* A refusal that is not for want of any room at all names somebody.       *)
LEMMA RefusalsAreExplained ==
  ASSUME NEW r, NEW b, NEW w, NEW u,
         Check(r, b, w, u).result # "admitted", CapacityOf(r) > 0
  PROVE  Check(r, b, w, u).blockers # {}
<1> DEFINE candidates == Contenders(r, w, b)
<1>1. \/ Check(r, b, w, u).blockers # {}
      \/ /\ PeakOccupancyReaches(CapacityOf(r), candidates, w)
         /\ Check(r, b, w, u).blockers = candidates
  BY DEF Check
<1>2. CASE /\ PeakOccupancyReaches(CapacityOf(r), candidates, w)
           /\ Check(r, b, w, u).blockers = candidates
  <2>1. PICK t : Cardinality(OccupantsAt(candidates, t)) >= CapacityOf(r)
    BY <1>2 DEF PeakOccupancyReaches
  <2>2. CASE candidates = {}
    <3>1. OccupantsAt(candidates, t) = {}
      BY <2>2 DEF OccupantsAt, RobotsOf
    <3>2. 0 >= CapacityOf(r)
      BY <2>1, <3>1, FS_EmptySet
    <3>. QED  BY <3>2, CapacityType
  <2>. QED  BY <1>2, <2>2
<1>. QED  BY <1>1, <1>2

(* A robot is told to wait for others, never for itself.                   *)
LEMMA RefusalsNameOthers ==
  ASSUME WaitsNameOthers, NEW req, Request(req)
  PROVE  WaitsNameOthers'
<1> DEFINE b == req.robot
           blockers == Verdict(req).blockers
<1>1. CASE ClearWait(b)
  BY <1>1 DEF ClearWait, WaitsNameOthers, CapacityOf
<1>2. CASE /\ Verdict(req).result # "admitted"
           /\ NoteWait(b, req.resource, RobotsOf(blockers))
  <2>1. b \notin RobotsOf(blockers)
    BY BlockersAreClaims DEF RobotsOf, Verdict, Contenders
  <2>2. CapacityOf(req.resource) > 0 => RobotsOf(blockers) # {}
    BY <1>2, RefusalsAreExplained DEF RobotsOf, Verdict
  <2>3. /\ DOMAIN waits' = DOMAIN waits \cup {b}
        /\ waits'[b].resource = req.resource
        /\ waits'[b].blocked_by = RobotsOf(blockers)
        /\ \A robot \in DOMAIN waits' \ {b} :
             robot \in DOMAIN waits /\ waits'[robot] = waits[robot]
    BY <1>2 DEF NoteWait
  <2>4. ASSUME NEW robot \in DOMAIN waits'
        PROVE  /\ robot \notin waits'[robot].blocked_by
               /\ CapacityOf(waits'[robot].resource) > 0 => waits'[robot].blocked_by # {}
    <3>1. CASE robot = b
      BY <2>1, <2>2, <2>3, <3>1
    <3>2. CASE robot # b
      BY <2>3, <3>2 DEF WaitsNameOthers
    <3>. QED  BY <3>1, <3>2
  <2>. QED  BY <2>4 DEF WaitsNameOthers, CapacityOf
<1>. QED  BY <1>1, <1>2 DEF Request

(* What the wait-for graph is drawn from has no edge from a robot to       *)
(* itself, and a waiting robot always waits for somebody, on every map     *)
(* that has room for one.                                                  *)
THEOREM NobodyAwaitsItself == Spec => []WaitsNameOthers
<1>1. Init => WaitsNameOthers
  BY DEF Init, WaitsNameOthers
<1>2. ASSUME WaitsNameOthers, [Next]_vars  PROVE WaitsNameOthers'
  <2>1. CASE \E req \in Requests : Request(req)
    BY <1>2, <2>1, RefusalsNameOthers
  <2>2. CASE \E robot \in Robot : ReleaseAllFor(robot)
    BY <1>2, <2>2 DEF ReleaseAllFor, ClearWait, WaitsNameOthers, CapacityOf
  <2>3. CASE UNCHANGED waits
    BY <1>2, <2>3 DEF WaitsNameOthers, CapacityOf
  <2>. QED  BY <1>2, <2>1, <2>2, <2>3
            DEF Next, Activate, Release, Cancel, Commit, Expire, Extend, Sweep,
                Purge, Tick, vars
<1>. QED  BY <1>1, <1>2, PTL DEF Spec
-----------------------------------------------------------------------------
(* What the manager grants, seen by the conflict detector, which compares  *)
(* the claims that hold a resource with each other.                        *)
(* Severity plays no part in it, hence any thresholds will do.             *)
Rules == INSTANCE ConflictRules WITH AbsorbedLead <- 2, CriticalLead <- 1

GrantOf(id) ==
  [id |-> id, robot |-> records[id].robot, resource |-> records[id].resource,
   window |-> records[id].window]

HeldGrants == {GrantOf(id) : id \in Holders}

(* No two claims the manager lets stand are a conflict over a resource.    *)
GrantsDoNotConflict ==
  \A i, j \in Holders :
    ~Rules!IsCapacityConflict(GrantOf(i), GrantOf(j), HeldGrants,
                              CapacityOf(records[i].resource))

(* The instance carries its own copies of two library operators.           *)
LEMMA SameCounting ==
  \A S : (Rules!IsFiniteSet(S) <=> IsFiniteSet(S)) /\ Rules!Cardinality(S) = Cardinality(S)
<1>1. ASSUME NEW S PROVE Rules!IsFiniteSet(S) <=> IsFiniteSet(S)
  BY DEF Rules!IsFiniteSet, IsFiniteSet
<1>2. ASSUME NEW S PROVE Rules!Cardinality(S) = Cardinality(S)
  BY DEF Rules!Cardinality, Cardinality
<1>. QED  BY <1>1, <1>2

RobotsOver(holders) == {h.robot : h \in holders}

(* Table and rules count the same robots, one by claim, one by grant.      *)
LEMMA SameOccupants ==
  ASSUME NEW r, NEW t
  PROVE  Rules!DistinctRobotsAt(HeldGrants, r, t) = OccupantsAt(HoldersOf(r), t)
<1>1. ASSUME NEW x \in Rules!DistinctRobotsAt(HeldGrants, r, t)
      PROVE  x \in OccupantsAt(HoldersOf(r), t)
  BY <1>1 DEF Rules!DistinctRobotsAt, HeldGrants, GrantOf, OccupantsAt, RobotsOf,
              HoldersOf, Rules!Contains, Contains
<1>2. ASSUME NEW x \in OccupantsAt(HoldersOf(r), t)
      PROVE  x \in Rules!DistinctRobotsAt(HeldGrants, r, t)
  <2>1. PICK id \in HoldersOf(r) :
          Contains(records[id].window, t) /\ x = records[id].robot
    BY <1>2 DEF OccupantsAt, RobotsOf
  <2>2. /\ GrantOf(id) \in HeldGrants /\ GrantOf(id).resource = r
        /\ Rules!Contains(GrantOf(id).window, t) /\ x = GrantOf(id).robot
    BY <2>1 DEF HeldGrants, GrantOf, HoldersOf, Rules!Contains, Contains
  <2>. QED  BY <2>2 DEF Rules!DistinctRobotsAt
<1>. QED  BY <1>1, <1>2

LEMMA GrantTypes ==
  ASSUME TableTypeOK
  PROVE  /\ IsFiniteSet(HeldGrants)
         /\ \A h \in HeldGrants :
              /\ h.window.start \in Int /\ h.window.end \in Int
              /\ Rules!IsWindow(h.window)
<1>1. IsFiniteSet(HeldGrants)
  <2> DEFINE grant == [id \in Holders |-> GrantOf(id)]
  <2>1. HeldGrants = {grant[id] : id \in Holders}
    BY DEF HeldGrants
  <2>2. IsFiniteSet(Holders)
    BY FS_Subset DEF TableTypeOK, Holders
  <2>3. IsFiniteSet({grant[id] : id \in Holders})
    <3>. HIDE DEF grant
    <3>. QED  BY <2>2, FiniteRange
  <2>. QED  BY <2>1, <2>3
<1>2. \A h \in HeldGrants :
        /\ h.window.start \in Int /\ h.window.end \in Int
        /\ Rules!IsWindow(h.window)
  BY RecordTypes DEF HeldGrants, GrantOf, Holders, IsSpan, IsWindow, Rules!IsWindow
<1>. QED  BY <1>1, <1>2

(* Of what the rules look at there is an instant that is overfull: the     *)
(* start of what two claims share, or an arrival in it.                    *)
LEMMA ConflictHasInstant ==
  ASSUME NEW holders, IsFiniteSet(holders), NEW a \in holders, NEW b \in holders,
         \A h \in holders :
           h.window.start \in Int /\ h.window.end \in Int /\ Rules!IsWindow(h.window),
         IsFiniteSet(RobotsOver(holders)), NEW n \in Nat,
         Rules!IsCapacityConflict(a, b, holders, n)
  PROVE  \E t \in Int : Cardinality(Rules!DistinctRobotsAt(holders, a.resource, t)) > n
<1> DEFINE shared == Rules!OverlapOf(a.window, b.window)
           There(t) == Rules!DistinctRobotsAt(holders, a.resource, t)
<1>1. /\ a.robot # b.robot /\ a.resource = b.resource
      /\ Rules!Overlaps(a.window, b.window)
      /\ \/ n <= 1
         \/ \E t \in Rules!SharedInstants(shared, holders, a.resource) :
              Rules!Cardinality(There(t)) > n
  BY DEF Rules!IsCapacityConflict, Rules!IsTemporalConflict
<1>2. /\ shared.start \in Int
      /\ Rules!Contains(a.window, shared.start) /\ Rules!Contains(b.window, shared.start)
  BY <1>1 DEF Rules!OverlapOf, Rules!Window, Rules!IsWindow, Rules!Contains, Rules!Overlaps
<1>3. CASE n <= 1
  <2>1. {a.robot, b.robot} \subseteq There(shared.start)
    BY <1>1, <1>2 DEF Rules!DistinctRobotsAt
  <2>2. There(shared.start) \subseteq RobotsOver(holders)
    BY DEF Rules!DistinctRobotsAt, RobotsOver
  <2> HIDE DEF There, shared
  <2>3. Cardinality({a.robot, b.robot}) = 2
    <3>1. IsFiniteSet({a.robot}) /\ Cardinality({a.robot}) = 1
      BY FS_Singleton
    <3>2. Cardinality({a.robot} \cup {b.robot}) = Cardinality({a.robot}) + 1
      BY <1>1, <3>1, FS_AddElement
    <3>3. {a.robot} \cup {b.robot} = {a.robot, b.robot}
      OBVIOUS
    <3>. QED  BY <3>1, <3>2, <3>3
  <2>4. IsFiniteSet(There(shared.start))
    BY <2>2, FS_Subset
  <2>5. /\ Cardinality({a.robot, b.robot}) <= Cardinality(There(shared.start))
        /\ Cardinality(There(shared.start)) \in Nat
    BY <2>1, <2>4, FS_Subset, FS_CardinalityType
  <2>6. Cardinality(There(shared.start)) > n
    BY <1>3, <2>3, <2>5
  <2>. QED  BY <1>2, <2>6 DEF There
<1>4. CASE ~(n <= 1)
  <2>1. PICK t \in Rules!SharedInstants(shared, holders, a.resource) :
          Rules!Cardinality(There(t)) > n
    BY <1>1, <1>4
  <2>2. t \in Int
    BY <1>2 DEF Rules!SharedInstants
  <2>3. Cardinality(There(t)) > n
    BY <2>1, SameCounting
  <2>. QED  BY <2>2, <2>3
<1>. QED  BY <1>3, <1>4

(* The two parts of the system that judge capacity agree, although they    *)
(* count at different instants over different sets of claims: what the     *)
(* manager admits, extends or lets stand after a displacement, the         *)
(* detector never calls a conflict.                                        *)
THEOREM GrantsNeverConflict == Spec => []GrantsDoNotConflict
<1>1. ASSUME IInv, NEW i \in Holders, NEW j \in Holders,
             Rules!IsCapacityConflict(GrantOf(i), GrantOf(j), HeldGrants,
                                      CapacityOf(records[i].resource))
      PROVE  FALSE
  <2> DEFINE a == GrantOf(i)
             b == GrantOf(j)
             r == records[i].resource
             n == CapacityOf(r)
  <2>1. IsFiniteSet(HeldGrants) /\ TableTypeOK /\ CapacityAlways
    BY <1>1, GrantTypes DEF IInv, TypeOK
  <2>2. r \in Resource /\ n \in Nat
    BY <1>1, <2>1, RecordTypes, CapacityType DEF Holders
  <2>3. /\ a \in HeldGrants /\ b \in HeldGrants /\ a.resource = r
        /\ a.robot # b.robot /\ a.resource # None /\ a.resource = b.resource
    BY <1>1 DEF HeldGrants, GrantOf, Rules!IsCapacityConflict, Rules!IsTemporalConflict
  <2>4. Rules!IsCapacityConflict(a, b, HeldGrants, n)
    BY <1>1
  <2>5. \E t \in Int : Cardinality(Rules!DistinctRobotsAt(HeldGrants, a.resource, t)) > n
    <3>1. IsFiniteSet(RobotsOver(HeldGrants))
      <4> DEFINE owner == [h \in HeldGrants |-> h.robot]
      <4>1. RobotsOver(HeldGrants) = {owner[h] : h \in HeldGrants}
        BY DEF RobotsOver
      <4> HIDE DEF owner
      <4>. QED  BY <2>1, <4>1, FiniteRange
    <3>. HIDE DEF a, b, r, n
    <3>. QED  BY <2>1, <2>2, <2>3, <2>4, <3>1, GrantTypes, ConflictHasInstant
  <2>6. PICK t \in Int : Cardinality(OccupantsAt(HoldersOf(r), t)) > n
    BY <2>3, <2>5, SameOccupants
  <2>7. Cardinality(OccupantsAt(HoldersOf(r), t)) <= n
    BY <2>1, <2>2 DEF CapacityAlways
  <2>8. IsFiniteSet(HoldersOf(r))
    BY <2>1, FS_Subset DEF TableTypeOK, HoldersOf, Holders
  <2>9. Cardinality(OccupantsAt(HoldersOf(r), t)) \in Nat
    <3>1. IsFiniteSet({id \in HoldersOf(r) : Contains(records[id].window, t)})
      BY <2>8, FS_Subset
    <3>. QED  BY <3>1, RobotsFinite DEF OccupantsAt, RobotsOf
  <2>. QED  BY <2>2, <2>6, <2>7, <2>9
<1>2. IInv => GrantsDoNotConflict
  BY <1>1 DEF GrantsDoNotConflict
<1>. QED  BY <1>2, Invariance, PTL
-----------------------------------------------------------------------------
(* The manager as a ledger.                                                *)

(* What claim id has booked of instant t.                                  *)
EntryOf(id, t) ==
  [robot |-> records[id].robot, resource |-> records[id].resource,
   at |-> t, usage |-> records[id].usage]

InstantsOf(w) == {t \in Time : Contains(w, t)}

(* The clock shows an instant of every window that can be asked for.       *)
WindowsShow ==
  \A req \in Requests :
    HasEffectiveWindow(req.start, req.duration, EntryBuffer, ExitBuffer)
      => InstantsOf(RequestedWindow(req)) # {}

(* Hence an instant of every claim.                                        *)
ClaimsShow == \A id \in DOMAIN records : InstantsOf(records[id].window) # {}

LEMMA BookedMeans ==
  /\ \A e : e \in Booked <=>
       \E id \in Holders : \E t \in InstantsOf(records[id].window) : e = EntryOf(id, t)
  /\ \A e : e \in Booked' <=>
       \E id \in Holders' : \E t \in InstantsOf(records'[id].window) :
         e = [robot |-> records'[id].robot, resource |-> records'[id].resource,
              at |-> t, usage |-> records'[id].usage]
<1>1. ASSUME NEW b, NEW r, NEW T, NEW u, NEW e
      PROVE  e \in [robot : {b}, resource : {r}, at : T, usage : {u}] <=>
               \E t \in T : e = [robot |-> b, resource |-> r, at |-> t, usage |-> u]
  OBVIOUS
<1>2. \A e : e \in Booked <=>
        \E id \in Holders : \E t \in InstantsOf(records[id].window) : e = EntryOf(id, t)
  BY <1>1 DEF Booked, EntryOf, InstantsOf
<1>3. \A e : e \in Booked' <=>
        \E id \in Holders' : \E t \in InstantsOf(records'[id].window) :
          e = [robot |-> records'[id].robot, resource |-> records'[id].resource,
               at |-> t, usage |-> records'[id].usage]
  BY <1>1 DEF Booked, InstantsOf
<1>. QED  BY <1>2, <1>3

LEMMA EntriesMean ==
  ASSUME NEW b, NEW r, NEW u, NEW T
  PROVE  \A e : e \in Ledger!Entries(b, r, u, T) <=>
           \E t \in T : e = [robot |-> b, resource |-> r, at |-> t, usage |-> u]
BY DEF Ledger!Entries

(* The instance carries its own copies of the library's operators.         *)
LEMMA SameCountingInLedger ==
  ASSUME NEW S  PROVE  Ledger!Cardinality(S) = Cardinality(S)
BY DEF Ledger!Cardinality, Cardinality, Ledger!IsFiniteSet, IsFiniteSet

(* What the check admits the ledger has room for.                          *)
LEMMA AdmittedHasRoom ==
  ASSUME TableTypeOK, IndexAgrees, NEW r \in Resource, NEW b, NEW u,
         NEW w, IsSpan(w), Admitted(r, b, w, u), NEW t \in InstantsOf(w)
  PROVE  Ledger!HasRoom(Booked, b, r, u, t)
<1> DEFINE met == Ledger!Met(Booked, b, r, t)
<1>1. t \in Int /\ Contains(w, t) /\ t \in Time
  BY SortAssumption DEF InstantsOf
<1>2. \A e : e \in met <=> \E id \in OthersAt(r, b, t) : e = EntryOf(id, t)
  BY <1>1, BookedMeans DEF Ledger!Met, OthersAt, HoldersOf, EntryOf, InstantsOf
<1>3. {e.robot : e \in met} = RobotsOf(OthersAt(r, b, t))
  <2>1. \A id : EntryOf(id, t).robot = records[id].robot
    BY DEF EntryOf
  <2> HIDE DEF met
  <2>2. \A x : x \in {e.robot : e \in met} => x \in RobotsOf(OthersAt(r, b, t))
    BY <1>2, <2>1 DEF RobotsOf
  <2>3. \A id \in OthersAt(r, b, t) : records[id].robot \in {e.robot : e \in met}
    BY <1>2, <2>1
  <2>. QED  BY <2>2, <2>3 DEF RobotsOf
<1>4. Ledger!Cardinality({e.robot : e \in met}) < CapacityOf(r)
  BY <1>1, <1>3, RoomWhenAdmitted, SameCountingInLedger
<1>5. ASSUME NEW id \in OthersAt(r, b, t)
      PROVE  ~Excludes(r, u, records[id].usage)
  <2>1. Overlaps(records[id].window, w)
    BY <1>1, RecordTypes DEF OthersAt, HoldersOf, Holders, Contains, Overlaps, IsSpan
  <2>2. id \in Contenders(r, w, b)
    BY <2>1, ContendersAreRivals DEF OthersAt
  <2>. QED  BY <2>2, AdmittedMeans
<1>6. \A e \in met : ~Excludes(r, u, e.usage)
  <2> HIDE DEF met
  <2>. QED  BY <1>2, <1>5 DEF EntryOf
<1>. QED  BY <1>4, <1>6 DEF Ledger!HasRoom

(* Claims that gain nothing book nothing.                                  *)
LEMMA NothingGainedVacates ==
  ASSUME NothingGained  PROVE  Ledger!Vacate
<1>1. ASSUME NEW e, e \in Booked'  PROVE e \in Booked
  <2>1. PICK id \in Holders' : \E t \in InstantsOf(records'[id].window) :
          e = [robot |-> records'[id].robot, resource |-> records'[id].resource,
               at |-> t, usage |-> records'[id].usage]
    BY <1>1, BookedMeans
  <2>2. id \in Holders /\ SameClaim(id)
    BY <2>1 DEF NothingGained
  <2>. QED  BY <2>1, <2>2, BookedMeans DEF SameClaim, EntryOf
<1>. QED  BY <1>1 DEF Ledger!Vacate

(* A claim let in books the instants of its window.                        *)
LEMMA LetInBooks ==
  ASSUME TableTypeOK, IndexAgrees, NEW g, NEW rec, LetIn(g, rec)
  PROVE  Ledger!Next
<1>1. /\ g \in ReservationId /\ rec \in Record /\ Insert(g, rec)
      /\ g \notin DOMAIN records
      /\ records'[g] = rec /\ DOMAIN records' = DOMAIN records \cup {g}
      /\ \A i \in DOMAIN records : records'[i] = records[i]
  BY InsertKeeps DEF LetIn, Insert
<1>2. CASE rec.state \notin Holding
  <2>1. NothingGained
    BY <1>1, <1>2 DEF NothingGained, Holders, SameClaim
  <2>. QED  BY <2>1, NothingGainedVacates DEF Ledger!Next
<1>3. CASE rec.state \in Holding
  <2> DEFINE span == InstantsOf(rec.window)
  <2>1. /\ rec.robot \in Robot /\ rec.resource \in Resource /\ rec.usage \in Usage
        /\ IsSpan(rec.window) /\ span \in SUBSET Time
    BY <1>1 DEF Record, IsSpan, InstantsOf
  <2>2. \A t \in span : Ledger!HasRoom(Booked, rec.robot, rec.resource, rec.usage, t)
    BY <1>3, <2>1, AdmittedHasRoom DEF LetIn
  <2>3. Holders' = Holders \cup {g}
    BY <1>1, <1>3 DEF Holders
  <2>4. \A id \in Holders : records'[id] = records[id]
    BY <1>1 DEF Holders
  <2>5. \A e : e \in Booked' <=>
               e \in Booked \/ e \in Ledger!Entries(rec.robot, rec.resource, rec.usage, span)
    BY <1>1, <2>3, <2>4, BookedMeans, EntriesMean DEF EntryOf
  <2>6. Booked' = Booked \cup Ledger!Entries(rec.robot, rec.resource, rec.usage, span)
    BY <2>5
  <2>7. Ledger!Book(rec.robot, rec.resource, rec.usage, span)
    BY <2>2, <2>6 DEF Ledger!Book
  <2> HIDE DEF span
  <2>. QED  BY <2>1, <2>7 DEF Ledger!Next
<1>. QED  BY <1>2, <1>3

(* An extension books where the span is free and stays where others make   *)
(* way: robot, place, usage and start are as they were.                    *)
LEMMA ExtensionStays ==
  ASSUME TableTypeOK, IndexAgrees, ClaimsShow,
         NEW id, NEW newEnd \in Int, Extend(id, newEnd)
  PROVE  Ledger!Next
<1> DEFINE r == records[id].resource
           b == records[id].robot
           u == records[id].usage
           w == Addition(id, newEnd)
           span == InstantsOf(w)
           gone == Revoked(id, newEnd)
           mine == Ledger!Entries(b, r, u, span)
           admitted == Admitted(r, b, w, u)
<1>1. /\ DOMAIN records' = DOMAIN records
      /\ id \in Holders /\ id \notin gone
      /\ newEnd > records[id].window.end
      /\ records'[id].window.start = records[id].window.start
      /\ records'[id].window.end = newEnd
      /\ \A i \in DOMAIN records :
           /\ records'[i].robot = records[i].robot
           /\ records'[i].resource = records[i].resource
           /\ records'[i].usage = records[i].usage
           /\ records'[i].state = (IF i \in gone THEN "cancelled" ELSE records[i].state)
           /\ i # id => records'[i].window = records[i].window
  BY ExtendEffect
<1>2. /\ r \in Resource /\ b \in Robot /\ u \in Usage /\ span \in SUBSET Time
      /\ IsSpan(w) /\ w.start = records[id].window.end /\ w.end = newEnd
      /\ IsSpan(records[id].window) /\ IsWindow(records[id].window)
  BY <1>1, RecordTypes DEF Holders, Addition, Window, IsSpan, InstantsOf
<1>3. \A t : t \in InstantsOf(records'[id].window) <=>
               t \in InstantsOf(records[id].window) \/ t \in span
  <2>1. \A t \in Int : Contains(records'[id].window, t) <=>
                       Contains(records[id].window, t) \/ Contains(w, t)
    BY <1>1, <1>2 DEF Contains, IsSpan, IsWindow
  <2>. QED  BY <2>1, SortAssumption DEF InstantsOf
<1>4. \A i : i \in Holders' <=> i \in Holders /\ i \notin gone
  BY <1>1 DEF Holders, Holding
<1>5. \A i \in Holders : /\ records'[i].robot = records[i].robot
                         /\ records'[i].resource = records[i].resource
                         /\ records'[i].usage = records[i].usage
                         /\ i # id => records'[i].window = records[i].window
  BY <1>1 DEF Holders
<1> DEFINE Of(i, T, e) == \E t \in T : e = EntryOf(i, t)
<1>6. \A e : e \in Booked <=>
        \E i \in Holders : Of(i, InstantsOf(records[i].window), e)
  BY BookedMeans
<1>7. \A e : e \in Booked' <=>
        \/ \E i \in Holders : i \notin gone /\ Of(i, InstantsOf(records[i].window), e)
        \/ e \in mine
  <2>1. \A e : e \in mine <=> Of(id, span, e)
    BY EntriesMean DEF EntryOf
  <2>2. ASSUME NEW i \in Holders', NEW e, i # id
        PROVE  (\E t \in InstantsOf(records'[i].window) :
                  e = [robot |-> records'[i].robot, resource |-> records'[i].resource,
                       at |-> t, usage |-> records'[i].usage])
                 <=> Of(i, InstantsOf(records[i].window), e)
    BY <1>4, <1>5, <2>2 DEF EntryOf
  <2>3. ASSUME NEW e
        PROVE  (\E t \in InstantsOf(records'[id].window) :
                  e = [robot |-> records'[id].robot, resource |-> records'[id].resource,
                       at |-> t, usage |-> records'[id].usage])
                 <=> Of(id, InstantsOf(records[id].window), e) \/ Of(id, span, e)
    BY <1>1, <1>3, <1>5 DEF EntryOf
  <2> HIDE DEF Of, mine, span, gone
  <2>. QED  BY <1>1, <1>4, <2>1, <2>2, <2>3, BookedMeans
<1>8. CASE admitted
  <2>1. \A t \in span : Ledger!HasRoom(Booked, b, r, u, t)
    BY <1>2, <1>8, AdmittedHasRoom
  <2>2. gone = {}
    BY <1>8 DEF Revoked
  <2>3. Booked' = Booked \cup mine
    <3> HIDE DEF Of, mine, span, gone
    <3>. QED  BY <1>6, <1>7, <2>2
  <2>4. Ledger!Book(b, r, u, span)
    BY <2>1, <2>3 DEF Ledger!Book
  <2> HIDE DEF span, r, b, u
  <2>. QED  BY <1>2, <2>4 DEF Ledger!Next
<1>9. CASE ~admitted
  <2> DEFINE lost == {e \in Booked : e.resource = r /\ e.robot # b /\ e \notin Booked'}
  <2>1. /\ gone = {i \in HoldersOf(r) :
                     records[i].robot # b /\ Overlaps(records[i].window, w)}
        /\ CapacityOf(r) > 0
    <3>1. gone = Contenders(r, w, b)
      BY <1>9 DEF Revoked, Displaced
    <3>2. CapacityOf(r) # 0
      BY <1>9 DEF Extend
    <3>. QED  BY <1>2, <3>1, <3>2, ContendersAreRivals, CapacityType
  <2>2. \E e \in Booked : e.robot = b /\ e.resource = r
    <3>1. PICK t \in InstantsOf(records[id].window) : TRUE
      BY <1>1 DEF ClaimsShow, Holders
    <3>2. EntryOf(id, t) \in Booked
      BY <1>1, <3>1, BookedMeans
    <3>. QED  BY <3>2 DEF EntryOf
  <2>3. ASSUME NEW t \in span  PROVE Ledger!Met(Booked \ lost, b, r, t) = {}
    <3>1. SUFFICES ASSUME NEW e \in Booked, e \notin lost,
                          e.resource = r, e.at = t, e.robot # b
                   PROVE  FALSE
      BY DEF Ledger!Met
    <3>2. e \in Booked'
      BY <3>1
    <3>3. e \notin mine
      BY <3>1, EntriesMean
    <3>4. PICK i \in Holders : i \notin gone /\ Of(i, InstantsOf(records[i].window), e)
      BY <1>7, <3>2, <3>3
    <3>5. /\ records[i].robot # b /\ records[i].resource = r
          /\ Contains(records[i].window, t) /\ t \in Int /\ Contains(w, t)
      BY <3>1, <3>4, SortAssumption DEF EntryOf, InstantsOf
    <3>6. Overlaps(records[i].window, w)
      BY <1>2, <3>5, RecordTypes DEF Holders, Contains, Overlaps, IsSpan
    <3>. QED  BY <2>1, <3>4, <3>5, <3>6 DEF HoldersOf
  <2>4. ASSUME NEW e
        PROVE  e \in Booked' <=> (e \in Booked /\ e \notin lost) \/ e \in mine
    <3>1. ASSUME e \in Booked', e \notin mine  PROVE e \in Booked /\ e \notin lost
      <4> HIDE DEF Of, mine, span, gone
      <4>. QED  BY <1>6, <1>7, <3>1
    <3>2. ASSUME e \in Booked, e \notin lost  PROVE e \in Booked'
      <4>1. CASE e.resource = r /\ e.robot # b
        BY <3>2, <4>1
      <4>2. CASE ~(e.resource = r /\ e.robot # b)
        <5>1. PICK i \in Holders : Of(i, InstantsOf(records[i].window), e)
          BY <1>6, <3>2
        <5>2. i \notin gone
          BY <2>1, <4>2, <5>1 DEF EntryOf, HoldersOf
        <5> HIDE DEF Of, mine, span, gone
        <5>. QED  BY <1>7, <5>1, <5>2
      <4>. QED  BY <4>1, <4>2
    <3>3. ASSUME e \in mine  PROVE e \in Booked'
      BY <1>7, <3>3
    <3>. QED  BY <3>1, <3>2, <3>3
  <2>5. Booked' = (Booked \ lost) \cup mine
    <3> HIDE DEF lost, mine
    <3>. QED  BY <2>4
  <2>6. lost \in SUBSET {e \in Booked : e.resource = r /\ e.robot # b}
    OBVIOUS
  <2>7. Ledger!Stay(b, r, u, span)
    <3> HIDE DEF lost, span, b, u, r
    <3>. QED  BY <1>2, <2>1, <2>2, <2>3, <2>5, <2>6 DEF Ledger!Stay
  <2> HIDE DEF span, r, b, u
  <2>. QED  BY <1>2, <2>7 DEF Ledger!Next
<1>. QED  BY <1>8, <1>9

(* Each write is one step of the ledger.                                   *)
LEMMA WritesImplement ==
  ASSUME TableTypeOK, IndexAgrees, ClaimsShow, TableStep
  PROVE  Ledger!Next
<1>1. CASE NothingGained
  BY <1>1, NothingGainedVacates DEF Ledger!Next
<1>2. ASSUME NEW next, SetStates(next)  PROVE NothingGained
  BY <1>2, SetStatesKeeps
<1>3. ASSUME NEW id, MarkCommitted(id)  PROVE NothingGained
  BY <1>3, MarkCommittedKeeps
<1>4. ASSUME NEW cutoff, PurgeTerminalBefore(cutoff)  PROVE NothingGained
  BY <1>4, PurgeKeeps
<1>5. ASSUME UNCHANGED tableVars  PROVE NothingGained
  BY <1>5 DEF tableVars, NothingGained, Holders, SameClaim
<1>. QED  BY <1>1, <1>2, <1>3, <1>4, <1>5, LetInBooks, ExtensionStays DEF TableStep

(* Claims that are there keep every instant they had.                      *)
LEMMA OldClaimsShow ==
  ASSUME TableTypeOK, IndexAgrees, ClaimsShow, TableStep,
         NEW id \in DOMAIN records, id \in DOMAIN records'
  PROVE  InstantsOf(records'[id].window) # {}
<1>1. /\ records'[id].window.start = records[id].window.start
      /\ records'[id].window.end >= records[id].window.end
  BY WritesGrow
<1>2. PICK t \in InstantsOf(records[id].window) : TRUE
  BY DEF ClaimsShow
<1>3. records[id].window.end \in Int
  BY RecordTypes DEF IsSpan
<1>4. records'[id].window.end \in Int
  <2>1. CASE \E i \in ReservationId, newEnd \in Int : Extend(i, newEnd)
    BY <1>3, <2>1, ExtendEffect
  <2>2. CASE records'[id].window = records[id].window
    BY <1>3, <2>2
  <2>3. ASSUME NEW i, NEW rec, LetIn(i, rec)  PROVE records'[id].window = records[id].window
    BY <2>3 DEF LetIn, Insert
  <2>4. ASSUME NEW next, SetStates(next)  PROVE records'[id].window = records[id].window
    BY <2>4, SetStatesEffect DEF SameClaim
  <2>5. ASSUME NEW i, MarkCommitted(i)  PROVE records'[id].window = records[id].window
    <3>1. records[id] \in Record
      BY DEF TableTypeOK
    <3>. QED  BY <2>5, <3>1 DEF MarkCommitted, Record
  <2>6. ASSUME NEW cutoff, PurgeTerminalBefore(cutoff)
        PROVE  records'[id].window = records[id].window
    BY <2>6 DEF PurgeTerminalBefore
  <2>7. ASSUME UNCHANGED tableVars  PROVE records'[id].window = records[id].window
    BY <2>7 DEF tableVars
  <2>. QED  BY <2>1, <2>2, <2>3, <2>4, <2>5, <2>6, <2>7 DEF TableStep
<1>5. t \in InstantsOf(records'[id].window)
  BY <1>1, <1>2, <1>3, <1>4, SortAssumption DEF InstantsOf, Contains
<1>. QED  BY <1>5

LEMMA ClaimsKeepShowing ==
  ASSUME TypeOK, IndexAgrees, WindowsShow, ClaimsShow, [Next]_vars
  PROVE  ClaimsShow'
<1>1. SUFFICES ASSUME NEW id \in DOMAIN records'
      PROVE  InstantsOf(records'[id].window) # {}
  BY DEF ClaimsShow, InstantsOf
<1>2. CASE id \in DOMAIN records
  BY <1>2, OldClaimsShow, CallsWrite DEF TypeOK
<1>3. CASE id \notin DOMAIN records
  <2>1. ASSUME NEW req \in Requests, Request(req)
        PROVE  InstantsOf(records'[id].window) # {}
    <3>1. records'[id] = NewRecord(req)
      BY <1>3, <2>1 DEF Request, Insert, tableVars
    <3>2. records'[id].window = RequestedWindow(req)
      BY <3>1 DEF NewRecord
    <3>. QED  BY <2>1, <3>2 DEF Request, IsFresh, WindowsShow
  <2>2. CASE DOMAIN records' \subseteq DOMAIN records
    BY <1>3, <2>2
  <2>3. ASSUME NEW next, SetStates(next)  PROVE DOMAIN records' \subseteq DOMAIN records
    BY <2>3 DEF SetStates, WithStates
  <2>4. ASSUME NEW i, MarkCommitted(i)  PROVE DOMAIN records' \subseteq DOMAIN records
    BY <2>4 DEF MarkCommitted
  <2>5. ASSUME NEW cutoff, PurgeTerminalBefore(cutoff)
        PROVE  DOMAIN records' \subseteq DOMAIN records
    BY <2>5 DEF PurgeTerminalBefore
  <2>6. ASSUME NEW i, NEW newEnd \in NewEnds, Extend(i, newEnd)
        PROVE  DOMAIN records' \subseteq DOMAIN records
    BY <2>6, ExtendEffect, RequestAssumption DEF TypeOK
  <2>. QED  BY <2>1, <2>2, <2>3, <2>4, <2>5, <2>6
            DEF Next, Activate, Release, Cancel, Commit, Expire, ReleaseAllFor,
                Sweep, Purge, Tick, SetState, vars, tableVars
<1>. QED  BY <1>2, <1>3

(* The manager, for every fleet, map, policy and set of requests, is an    *)
(* implementation of the ledger: it books place and time only where there  *)
(* is room, and takes them back only to let a robot stay.                  *)
THEOREM ManagerKeepsLedger ==
  ASSUME WindowsShow  PROVE  Spec => ImplementsLedger
<1>1. Init => Ledger!Init
  BY DEF Init, TableInit, Booked, Holders, Ledger!Init
<1>2. Init => ClaimsShow
  BY DEF Init, TableInit, ClaimsShow
<1>3. IInv /\ ClaimsShow /\ [Next]_vars => ClaimsShow'
  BY ClaimsKeepShowing DEF IInv
<1>4. IInv /\ ClaimsShow /\ [Next]_vars => [Ledger!Next]_Booked
  BY CallsWrite, WritesImplement DEF IInv, TypeOK
<1>. QED  BY <1>1, <1>2, <1>3, <1>4, Invariance, PTL DEF Spec, ImplementsLedger, Ledger!Spec
-----------------------------------------------------------------------------
(* Restarts.                                                               *)

SavedHolders == {id \in DOMAIN saved : saved[id].state \in Holding}

SavedTyped ==
  /\ DOMAIN saved \subseteq ReservationId /\ IsFiniteSet(DOMAIN saved)
  /\ saved \in [DOMAIN saved -> Record]
  /\ restoring \subseteq DOMAIN saved

SavedAt(r, t) ==
  {id \in SavedHolders : saved[id].resource = r /\ Contains(saved[id].window, t)}

(* What was saved could be held all at once.                               *)
SavedFits ==
  /\ \A r \in Resource, t \in Int :
       Cardinality({saved[id].robot : id \in SavedAt(r, t)}) <= CapacityOf(r)
  /\ \A i, j \in SavedHolders :
       /\ saved[i].resource = saved[j].resource
       /\ saved[i].robot # saved[j].robot
       /\ Overlaps(saved[i].window, saved[j].window)
       => ~Excludes(saved[i].resource, saved[i].usage, saved[j].usage)

(* What is back in the table was saved and is dealt with.                  *)
ComesBack ==
  /\ DOMAIN records \cap restoring = {}
  /\ \A id \in Holders :
       /\ id \in SavedHolders
       /\ saved[id].robot = records[id].robot
       /\ saved[id].resource = records[id].resource
       /\ saved[id].window = records[id].window
       /\ saved[id].usage = records[id].usage

(* Until something else happens after a restart that found every claim as  *)
(* it was, nothing was turned away; and until all are back, what was saved *)
(* fits, and what is back is part of it.                                   *)
Faithful ==
  intact =>
    /\ rejected = {}
    /\ DOMAIN records = {} \/ restoring # {} => SavedFits /\ ComesBack

RInv == IInv /\ SavedTyped /\ Faithful

LEMMA SavedTypes ==
  ASSUME SavedTyped, NEW id \in DOMAIN saved
  PROVE  /\ id \in ReservationId /\ saved[id] \in Record
         /\ saved[id].robot \in Robot /\ saved[id].resource \in Resource
         /\ saved[id].usage \in Usage /\ saved[id].state \in State
         /\ IsSpan(saved[id].window) /\ IsWindow(saved[id].window)
<1>1. saved[id] \in Record /\ id \in ReservationId
  BY DEF SavedTyped
<1>. QED  BY <1>1 DEF Record, IsSpan

(* Whatever part of what was saved is back, in whatever order, there is    *)
(* room for the rest: the check finds fewer others than the store holds.   *)
LEMMA SavedIsAdmitted ==
  ASSUME TableTypeOK, IndexAgrees, SavedTyped, SavedFits, ComesBack,
         NEW g \in SavedHolders
  PROVE  Admitted(saved[g].resource, saved[g].robot, saved[g].window, saved[g].usage)
<1> DEFINE r == saved[g].resource
           b == saved[g].robot
           w == saved[g].window
           u == saved[g].usage
           rivals == Contenders(r, w, b)
<1>1. r \in Resource /\ IsSpan(w) /\ IsWindow(w)
  BY SavedTypes DEF SavedHolders
<1>2. rivals = {id \in HoldersOf(r) : records[id].robot # b /\ Overlaps(records[id].window, w)}
  BY <1>1, ContendersAreRivals
<1>3. ASSUME NEW id \in rivals
      PROVE  /\ id \in SavedHolders /\ saved[id].robot = records[id].robot
             /\ saved[id].resource = r /\ saved[id].window = records[id].window
             /\ saved[id].usage = records[id].usage
             /\ ~Excludes(r, u, records[id].usage)
  <2>1. /\ id \in Holders /\ records[id].resource = r
        /\ records[id].robot # b /\ Overlaps(records[id].window, w)
    BY <1>2, <1>3 DEF HoldersOf
  <2>2. /\ id \in SavedHolders /\ saved[id].robot = records[id].robot
        /\ saved[id].resource = r /\ saved[id].window = records[id].window
        /\ saved[id].usage = records[id].usage
    BY <2>1 DEF ComesBack
  <2>3. Overlaps(saved[g].window, saved[id].window)
    BY <2>1, <2>2 DEF Overlaps
  <2>. QED  BY <2>1, <2>2, <2>3 DEF SavedFits
<1>4. ~PeakOccupancyReaches(CapacityOf(r), rivals, w)
  <2>1. SUFFICES ASSUME NEW t \in SampledInstants(rivals, w),
                        Cardinality(OccupantsAt(rivals, t)) >= CapacityOf(r)
                 PROVE  FALSE
    BY DEF PeakOccupancyReaches
  <2>2. t \in Int /\ Contains(w, t)
    <3>1. \A id \in rivals : records[id].window.start \in Int
      BY RecordTypes DEF Contenders, IsSpan
    <3>. QED  BY <1>1, <3>1 DEF SampledInstants, Contains, IsSpan, IsWindow
  <2> DEFINE all == {saved[id].robot : id \in SavedAt(r, t)}
             there == OccupantsAt(rivals, t)
  <2>3. IsFiniteSet(all) /\ Cardinality(all) \in Nat /\ Cardinality(all) <= CapacityOf(r)
    <3>1. IsFiniteSet(SavedAt(r, t))
      BY FS_Subset DEF SavedTyped, SavedAt, SavedHolders
    <3>. QED  BY <1>1, <2>2, <3>1, RobotsFinite DEF SavedFits
  <2>4. there \cup {b} \subseteq all
    <3>1. g \in SavedAt(r, t)
      BY <2>2 DEF SavedAt
    <3>2. ASSUME NEW id \in rivals, Contains(records[id].window, t)
          PROVE  id \in SavedAt(r, t) /\ saved[id].robot = records[id].robot
      BY <1>3, <3>2 DEF SavedAt
    <3> HIDE DEF rivals
    <3>. QED  BY <3>1, <3>2 DEF OccupantsAt, RobotsOf
  <2>5. b \notin there
    BY <1>2 DEF OccupantsAt, RobotsOf
  <2>6. /\ IsFiniteSet(there) /\ Cardinality(there) \in Nat
        /\ Cardinality(there \cup {b}) = Cardinality(there) + 1
        /\ Cardinality(there \cup {b}) <= Cardinality(all)
    <3> HIDE DEF there, all
    <3>. QED  BY <2>3, <2>4, <2>5, FS_Subset, FS_AddElement, FS_CardinalityType
  <2>. QED  BY <2>1, <2>3, <2>6, CapacityType
<1>5. \A id \in rivals : /\ ~OpposesDirection(r, u, records[id].usage)
                         /\ ~OpposesMovement(r, u, records[id].usage)
  BY <1>3, ExcludesMeans
<1> HIDE DEF r, b, w, u
<1>. QED  BY <1>4, <1>5 DEF Admitted, Check, r, b, w, u

(* What comes back is what was saved, but for a grant that was overtaken.  *)
LEMMA RestoredTyped ==
  ASSUME NEW rec \in Record
  PROVE  /\ Restored(rec) \in Record
         /\ Restored(rec).robot = rec.robot /\ Restored(rec).resource = rec.resource
         /\ Restored(rec).window = rec.window /\ Restored(rec).usage = rec.usage
         /\ Restored(rec).state \in Holding => rec.state \in Holding
<1>1. /\ [rec EXCEPT !.state = "expired"].robot = rec.robot
      /\ [rec EXCEPT !.state = "expired"].resource = rec.resource
      /\ [rec EXCEPT !.state = "expired"].window = rec.window
      /\ [rec EXCEPT !.state = "expired"].usage = rec.usage
      /\ [rec EXCEPT !.state = "expired"].state = "expired"
      /\ [rec EXCEPT !.state = "expired"] \in Record
  BY DEF Record, State
<1>. QED  BY <1>1 DEF Restored, Holding

(* recover checks what it restores like a new request.                     *)
LEMMA RestoreLetsIn ==
  ASSUME SavedTyped, NEW id \in DOMAIN saved, Fits(saved[id]),
         Insert(id, Restored(saved[id]))
  PROVE  LetIn(id, Restored(saved[id]))
<1>1. saved[id] \in Record /\ id \in ReservationId
  BY SavedTypes
<1>2. saved[id].state \in Holding => saved[id].state \notin Terminal
  BY DEF Holding, Terminal
<1>. QED  BY <1>1, <1>2, RestoredTyped DEF LetIn, Fits

LEMMA RestoreStep ==
  ASSUME RInv, NEW id, Restore(id)
  PROVE  RInv'
<1>0. /\ TypeOK /\ TableTypeOK /\ IndexAgrees /\ CapacityAlways /\ ExclusionRespected
      /\ SavedTyped /\ Faithful
  BY DEF RInv, IInv, TypeOK
<1>1. /\ id \in restoring /\ id \in DOMAIN saved
      /\ restoring' = restoring \ {id} /\ saved' = saved /\ intact' = intact
      /\ waits' = waits /\ now' = now
  BY <1>0 DEF Restore, IsNext, SavedTyped
<1>2. saved[id] \in Record
  BY <1>0, <1>1, SavedTypes
<1>3. SavedTyped' /\ SavedHolders' = SavedHolders
  BY <1>0, <1>1 DEF SavedTyped, SavedHolders
<1>4. SavedFits => SavedFits'
  BY <1>1 DEF SavedFits, SavedHolders, SavedAt, CapacityOf, Excludes
<1>5. CASE /\ Fits(saved[id])
           /\ Insert(id, Restored(saved[id]))
           /\ UNCHANGED rejected
  <2>1. LetIn(id, Restored(saved[id]))
    BY <1>0, <1>1, <1>5, RestoreLetsIn
  <2>2. TableTypeOK' /\ IndexAgrees' /\ CapacityAlways' /\ ExclusionRespected'
    BY <1>0, <2>1, LetInKeeps
  <2>3. IInv'
    BY <1>0, <1>1, <2>2 DEF IInv, TypeOK
  <2>4. /\ DOMAIN records' = DOMAIN records \cup {id}
        /\ records'[id] = Restored(saved[id])
        /\ \A i \in DOMAIN records : records'[i] = records[i]
    BY <1>5 DEF Insert
  <2>5. ComesBack => ComesBack'
    <3>1. SUFFICES ASSUME ComesBack  PROVE ComesBack'
      OBVIOUS
    <3>2. DOMAIN records' \cap restoring' = {}
      BY <1>1, <2>4, <3>1 DEF ComesBack
    <3>3. ASSUME NEW i \in Holders'
          PROVE  /\ i \in SavedHolders
                 /\ saved[i].robot = records'[i].robot
                 /\ saved[i].resource = records'[i].resource
                 /\ saved[i].window = records'[i].window
                 /\ saved[i].usage = records'[i].usage
      <4>1. CASE i = id
        BY <1>1, <1>2, <2>4, <4>1, RestoredTyped DEF Holders, SavedHolders
      <4>2. CASE i # id
        BY <2>4, <3>1, <4>2 DEF ComesBack, Holders
      <4>. QED  BY <4>1, <4>2
    <3>. QED  BY <1>1, <1>3, <3>2, <3>3 DEF ComesBack
  <2>6. Faithful'
    BY <1>0, <1>1, <1>4, <1>5, <2>5 DEF Faithful
  <2>. QED  BY <1>3, <2>3, <2>6 DEF RInv
<1>6. CASE /\ id \in DOMAIN records \/ ~Fits(saved[id])
           /\ rejected' = rejected \cup {id}
           /\ UNCHANGED tableVars
  <2>1. ~intact
    <3>1. SUFFICES ASSUME intact  PROVE FALSE
      OBVIOUS
    <3>2. SavedFits /\ ComesBack
      BY <1>0, <1>1, <3>1 DEF Faithful
    <3>3. id \notin DOMAIN records
      BY <1>1, <3>2 DEF ComesBack
    <3>4. saved[id].state \in Holding
      BY <1>0, <1>1, <1>6, <3>3, SavedTypes DEF Fits, State, Holding, Terminal
    <3>5. id \in SavedHolders
      BY <1>1, <3>4 DEF SavedHolders
    <3>. QED  BY <1>0, <1>6, <3>2, <3>3, <3>5, SavedIsAdmitted DEF Fits
  <2>2. TableTypeOK' /\ IndexAgrees' /\ NothingGained
    BY <1>0, <1>6 DEF tableVars, TableTypeOK, IndexAgrees, KeysIn, KeyOf,
                      NothingGained, Holders, SameClaim
  <2>3. IInv'
    BY <1>0, <1>1, <2>2, NothingGainedKeeps DEF RInv, TypeOK
  <2>4. Faithful'
    BY <1>1, <2>1 DEF Faithful
  <2>. QED  BY <1>3, <2>3, <2>4 DEF RInv
<1>. QED  BY <1>5, <1>6 DEF Restore

(* A new process starts empty; what it finds saved fits if it is what the  *)
(* old one held.                                                           *)
LEMMA CrashStep ==
  ASSUME RInv, Crash
  PROVE  RInv'
<1>0. /\ TypeOK /\ TableTypeOK /\ IndexAgrees /\ CapacityAlways /\ ExclusionRespected
      /\ SavedTyped
  BY DEF RInv, IInv, TypeOK
<1>1. /\ records' = [id \in {} |-> None] /\ DOMAIN records' = {} /\ Holders' = {}
      /\ restoring' = {} /\ rejected' = {} /\ intact' = (saved = records)
      /\ saved' = saved /\ now' = now
  BY DEF Crash, Holders
<1>2. TableTypeOK'
  BY <1>0, <1>1, FS_EmptySet DEF Crash, TableTypeOK
<1>3. IndexAgrees'
  BY <1>1 DEF Crash, IndexAgrees, KeysIn
<1>4. NothingGained
  BY <1>1 DEF NothingGained
<1>5. waits' \in [DOMAIN waits' -> Wait] /\ DOMAIN waits' \subseteq Robot
  BY DEF Crash
<1>6. IInv'
  BY <1>0, <1>1, <1>2, <1>3, <1>4, <1>5, NothingGainedKeeps DEF RInv, TypeOK
<1>7. SavedTyped'
  BY <1>0, <1>1 DEF SavedTyped
<1>8. ASSUME saved = records  PROVE SavedFits'
  <2>1. SavedHolders' = Holders
    BY <1>1, <1>8 DEF SavedHolders, Holders
  <2>2. ASSUME NEW r \in Resource, NEW t \in Int
        PROVE  {saved'[id].robot : id \in SavedAt(r, t)'} = OccupantsAt(HoldersOf(r), t)
    BY <1>1, <1>8, <2>1 DEF SavedAt, OccupantsAt, RobotsOf, HoldersOf
  <2>3. ASSUME NEW r \in Resource, NEW t \in Int
        PROVE  Cardinality({saved'[id].robot : id \in SavedAt(r, t)'}) <= CapacityOf(r)
    BY <1>0, <2>2 DEF CapacityAlways
  <2>4. \A i, j \in SavedHolders' :
          /\ saved'[i].resource = saved'[j].resource
          /\ saved'[i].robot # saved'[j].robot
          /\ Overlaps(saved'[i].window, saved'[j].window)
          => ~Excludes(saved'[i].resource, saved'[i].usage, saved'[j].usage)
    BY <1>0, <1>1, <1>8, <2>1 DEF ExclusionRespected, Contend
  <2>. QED  BY <2>3, <2>4 DEF SavedFits, CapacityOf, Excludes
<1>9. ComesBack'
  BY <1>1 DEF ComesBack
<1>. QED  BY <1>1, <1>6, <1>7, <1>8, <1>9 DEF RInv, Faithful

(* What leaves table, clock and waits alone leaves their invariant.        *)
LEMMA UnchangedKeeps ==
  ASSUME IInv, UNCHANGED vars  PROVE IInv'
BY NextPreserves

LEMMA RecoveryPreserves ==
  ASSUME RInv, [RecoveryNext]_allVars  PROVE RInv'
<1>0. /\ IInv /\ SavedTyped /\ Faithful /\ TableTypeOK
  BY DEF RInv, IInv, TypeOK
<1>1. CASE Operation
  <2>1. /\ restoring = {} /\ restoring' = {} /\ saved' = saved /\ rejected' = rejected
        /\ intact' = (intact /\ tableVars' = tableVars)
    BY <1>1 DEF Operation
  <2>2. IInv'
    BY <1>0, <1>1, NextPreserves DEF Operation
  <2>3. SavedTyped'
    BY <1>0, <2>1 DEF SavedTyped
  <2>4. ASSUME intact'
        PROVE  /\ rejected' = {}
               /\ DOMAIN records' = {} \/ restoring' # {} => SavedFits' /\ ComesBack'
    <3>1. intact /\ tableVars' = tableVars
      BY <2>1, <2>4
    <3>2. records' = records
      BY <3>1 DEF tableVars
    <3>. QED  BY <1>0, <2>1, <3>1, <3>2
              DEF Faithful, SavedFits, ComesBack, SavedHolders, SavedAt, Holders,
                  CapacityOf, Excludes
  <2>. QED  BY <2>2, <2>3, <2>4 DEF RInv, Faithful
<1>2. ASSUME NEW id \in ReservationId, Persist(id)  PROVE RInv'
  <2>1. /\ restoring = {} /\ restoring' = {} /\ UNCHANGED vars
        /\ rejected' = rejected /\ intact' = intact /\ records' = records
        /\ id \in DOMAIN records
        /\ saved' = [i \in DOMAIN saved \cup {id} |->
                       IF i = id THEN records[id] ELSE saved[i]]
    BY <1>2 DEF Persist, vars, tableVars
  <2>2. IInv'
    BY <1>0, <2>1, UnchangedKeeps
  <2>3. SavedTyped'
    <3>1. DOMAIN saved' = DOMAIN saved \cup {id}
      BY <2>1
    <3>2. IsFiniteSet(DOMAIN saved')
      BY <1>0, <3>1, FS_AddElement DEF SavedTyped
    <3>3. records[id] \in Record
      BY <1>0, <2>1 DEF TableTypeOK
    <3>4. saved' \in [DOMAIN saved' -> Record]
      BY <1>0, <2>1, <3>1, <3>3 DEF SavedTyped
    <3>. QED  BY <1>0, <2>1, <3>1, <3>2, <3>4 DEF SavedTyped
  <2>4. Faithful'
    BY <1>0, <2>1 DEF Faithful
  <2>. QED  BY <2>2, <2>3, <2>4 DEF RInv
<1>3. ASSUME NEW id \in ReservationId, Forget(id)  PROVE RInv'
  <2>1. /\ restoring = {} /\ restoring' = {} /\ UNCHANGED vars
        /\ ~intact /\ intact' = intact
        /\ saved' = [i \in DOMAIN saved \ {id} |-> saved[i]]
    BY <1>3 DEF Forget
  <2>2. IInv'
    BY <1>0, <2>1, UnchangedKeeps
  <2>3. SavedTyped'
    BY <1>0, <2>1, FS_RemoveElement DEF SavedTyped
  <2>4. Faithful'
    BY <2>1 DEF Faithful
  <2>. QED  BY <2>2, <2>3, <2>4 DEF RInv
<1>4. ASSUME NEW id \in ReservationId, Restore(id)  PROVE RInv'
  BY <1>4, RestoreStep
<1>5. CASE Crash
  BY <1>5, CrashStep
<1>6. CASE Recover
  <2>1. /\ restoring' = DOMAIN saved /\ rejected' = {} /\ saved' = saved
        /\ intact' = (intact /\ DOMAIN records = {})
        /\ UNCHANGED vars /\ records' = records
    BY <1>6 DEF Recover, vars, tableVars
  <2>2. IInv'
    BY <1>0, <2>1, UnchangedKeeps
  <2>3. SavedTyped'
    BY <1>0, <2>1 DEF SavedTyped
  <2>4. ASSUME intact'  PROVE SavedFits' /\ ComesBack'
    <3>1. DOMAIN records = {} /\ SavedFits
      BY <1>0, <2>1, <2>4 DEF Faithful
    <3>2. ComesBack'
      BY <2>1, <3>1 DEF ComesBack, Holders
    <3>3. saved' = saved
      BY <2>1
    <3>4. SavedFits'
      BY <3>1, <3>3 DEF SavedFits, SavedHolders, SavedAt, CapacityOf, Excludes
    <3>. QED  BY <3>2, <3>4
  <2>. QED  BY <2>1, <2>2, <2>3, <2>4 DEF RInv, Faithful
<1>7. CASE UNCHANGED allVars
  <2>1. UNCHANGED <<vars, recoveryVars>> /\ records' = records
    BY <1>7 DEF allVars, vars, tableVars
  <2>2. IInv'
    BY <1>0, <2>1, UnchangedKeeps
  <2>. QED  BY <1>0, <2>1, <2>2
            DEF recoveryVars, RInv, SavedTyped, Faithful, SavedFits, ComesBack,
                SavedHolders, SavedAt, Holders, CapacityOf, Excludes
<1>. QED  BY <1>1, <1>2, <1>3, <1>4, <1>5, <1>6, <1>7 DEF RecoveryNext

LEMMA RecoveryInvariance == RecoverySpec => []RInv
<1>1. RecoveryInit => RInv
  <2>1. RecoveryInit => SavedTyped /\ Faithful
    BY FS_EmptySet DEF RecoveryInit, NothingSaved, SavedTyped, Faithful
  <2>. QED  BY <2>1, InitEstablishes DEF RecoveryInit, RInv
<1>2. RInv /\ [RecoveryNext]_allVars => RInv'
  BY RecoveryPreserves
<1>. QED  BY <1>1, <1>2, PTL DEF RecoverySpec

(* A restart that finds every claim as it was turns none away, whatever    *)
(* the claims, the order they were granted in and their extensions: what   *)
(* could be held at once can be put back one at a time (recover).          *)
THEOREM RestartsLoseNothing == RecoverySpec => []RestartLosesNothing
<1>1. RInv => RestartLosesNothing
  BY DEF RInv, Faithful, RestartLosesNothing
<1>. QED  BY <1>1, RecoveryInvariance, PTL

(* Whatever a restart finds, claims saved at different times that were     *)
(* never held together included, what comes of it neither overbooks nor    *)
(* opposes, and the indices agree.                                         *)
THEOREM RestartsKeepOrder ==
  RecoverySpec => [](CapacityRespected /\ ExclusionRespected /\ IndexAgrees)
<1>1. RInv => CapacityRespected /\ ExclusionRespected /\ IndexAgrees
  BY SortAssumption DEF RInv, IInv, CapacityAlways, CapacityRespected
<1>. QED  BY <1>1, RecoveryInvariance, PTL

(* The instants of what was saved are shown by the clock too.              *)
SavedShow == \A id \in DOMAIN saved : InstantsOf(saved[id].window) # {}

LEMMA RecoveryKeepsShowing ==
  ASSUME RInv, WindowsShow, ClaimsShow, SavedShow, [RecoveryNext]_allVars
  PROVE  ClaimsShow' /\ SavedShow'
<1>0. TypeOK /\ TableTypeOK /\ IndexAgrees /\ SavedTyped
  BY DEF RInv, IInv, TypeOK
<1>1. CASE Operation
  BY <1>0, <1>1, ClaimsKeepShowing DEF Operation, SavedShow, InstantsOf
<1>2. ASSUME NEW id \in ReservationId, Persist(id)  PROVE ClaimsShow' /\ SavedShow'
  BY <1>2 DEF Persist, vars, tableVars, ClaimsShow, SavedShow, InstantsOf
<1>3. ASSUME NEW id \in ReservationId, Forget(id)  PROVE ClaimsShow' /\ SavedShow'
  BY <1>3 DEF Forget, vars, tableVars, ClaimsShow, SavedShow, InstantsOf
<1>4. ASSUME NEW id \in ReservationId, Restore(id)  PROVE ClaimsShow' /\ SavedShow'
  <2>1. id \in DOMAIN saved /\ saved' = saved
    BY <1>0, <1>4 DEF Restore, IsNext, SavedTyped
  <2>2. Restored(saved[id]).window = saved[id].window
    BY <1>0, <2>1, SavedTypes, RestoredTyped
  <2>3. CASE Insert(id, Restored(saved[id]))
    BY <2>1, <2>2, <2>3 DEF Insert, ClaimsShow, SavedShow, InstantsOf
  <2>4. CASE UNCHANGED tableVars
    BY <2>1, <2>4 DEF tableVars, ClaimsShow, SavedShow, InstantsOf
  <2>. QED  BY <1>4, <2>3, <2>4 DEF Restore
<1>5. CASE Crash
  BY <1>5 DEF Crash, ClaimsShow, SavedShow, InstantsOf
<1>6. CASE Recover \/ UNCHANGED allVars
  BY <1>6 DEF Recover, allVars, recoveryVars, vars, tableVars, ClaimsShow, SavedShow,
              InstantsOf
<1>. QED  BY <1>1, <1>2, <1>3, <1>4, <1>5, <1>6 DEF RecoveryNext

LEMMA RecoveryImplements ==
  ASSUME RInv, ClaimsShow, [RecoveryNext]_allVars
  PROVE  [Ledger!Next]_Booked
<1>0. TypeOK /\ TableTypeOK /\ IndexAgrees /\ SavedTyped
  BY DEF RInv, IInv, TypeOK
<1>1. CASE TableStep
  BY <1>0, <1>1, WritesImplement
<1>2. CASE Operation
  BY <1>0, <1>1, <1>2, CallsWrite DEF Operation
<1>3. ASSUME NEW id \in ReservationId, Restore(id)  PROVE TableStep
  <2>1. id \in DOMAIN saved
    BY <1>0, <1>3 DEF Restore, IsNext, SavedTyped
  <2>. QED  BY <1>0, <1>3, <2>1, RestoreLetsIn DEF Restore, TableStep
<1>4. CASE Crash
  <2>1. Holders' = {}
    BY <1>4 DEF Crash, Holders
  <2>. QED  BY <2>1, NothingGainedVacates DEF NothingGained, Ledger!Next
<1>5. ASSUME \/ \E id \in ReservationId : Persist(id) \/ Forget(id)
             \/ Recover \/ UNCHANGED allVars
      PROVE  TableStep
  BY <1>5 DEF Persist, Forget, Recover, allVars, vars, TableStep
<1>. QED  BY <1>1, <1>2, <1>3, <1>4, <1>5 DEF RecoveryNext

(* Over any number of crashes and recoveries from whatever was saved, the  *)
(* manager books only what the ledger has room for, restored claims        *)
(* included; a crash only gives up.                                        *)
THEOREM RestartsKeepLedger ==
  ASSUME WindowsShow  PROVE  RecoverySpec => ImplementsLedger
<1>1. RecoveryInit => Ledger!Init
  BY DEF RecoveryInit, Init, TableInit, Booked, Holders, Ledger!Init
<1>2. RecoveryInit => ClaimsShow /\ SavedShow
  BY DEF RecoveryInit, Init, TableInit, NothingSaved, ClaimsShow, SavedShow
<1>3. RInv /\ ClaimsShow /\ SavedShow /\ [RecoveryNext]_allVars
        => ClaimsShow' /\ SavedShow'
  BY RecoveryKeepsShowing
<1>4. RInv /\ ClaimsShow /\ [RecoveryNext]_allVars => [Ledger!Next]_Booked
  BY RecoveryImplements
<1>. QED  BY <1>1, <1>2, <1>3, <1>4, RecoveryInvariance, PTL
          DEF RecoverySpec, ImplementsLedger, Ledger!Spec

-----------------------------------------------------------------------------
(* What the rules of the ledger add up to.                                 *)
There(entries, resource, t) ==
  {e \in entries : e.resource = resource /\ e.at = t}

RobotsIn(entries) == {e.robot : e \in entries}

(* One place at one instant.                                               *)
Orderly(entries, resource, t) ==
  LET there == There(entries, resource, t)
  IN  /\ IsFiniteSet(RobotsIn(there))
      /\ Cardinality(RobotsIn(there)) <= CapacityOf(resource)
      /\ \A e, f \in there : e.robot # f.robot => ~Excludes(resource, e.usage, f.usage)

LInv ==
  /\ Booked \subseteq Ledger!Entry
  /\ \A resource \in Resource, t \in Time : Orderly(Booked, resource, t)

(* What the admission of one more booking asks.                            *)
LEMMA RoomMeans ==
  ASSUME NEW entries, NEW robot, NEW resource \in Resource, NEW usage, NEW t
  PROVE  LET met == Ledger!Met(entries, robot, resource, t)
         IN  Ledger!HasRoom(entries, robot, resource, usage, t)
               <=> /\ Cardinality(RobotsIn(met)) < CapacityOf(resource)
                   /\ \A e \in met : ~Excludes(resource, usage, e.usage)
<1>1. [r \in Resource |-> CapacityOf(r)][resource] = CapacityOf(resource)
  OBVIOUS
<1>. QED  BY <1>1, SameCountingInLedger, Zenon DEF Ledger!HasRoom, RobotsIn

(* Dropping bookings never crowds anybody.                                 *)
LEMMA FewerStayOrderly ==
  ASSUME NEW entries, NEW fewer \in SUBSET entries,
         NEW resource \in Resource, NEW t \in Time,
         Orderly(entries, resource, t)
  PROVE  Orderly(fewer, resource, t)
<1> DEFINE before == There(entries, resource, t)
           after == There(fewer, resource, t)
<1>1. after \subseteq before
  BY DEF There
<1>2. IsFiniteSet(RobotsIn(before)) /\ Cardinality(RobotsIn(before)) <= CapacityOf(resource)
  BY DEF Orderly
<1>3. RobotsIn(after) \subseteq RobotsIn(before)
  BY <1>1 DEF RobotsIn
<1>4. IsFiniteSet(RobotsIn(after))
      /\ Cardinality(RobotsIn(after)) <= Cardinality(RobotsIn(before))
  BY <1>2, <1>3, FS_Subset
<1>5. Cardinality(RobotsIn(after)) \in Nat /\ Cardinality(RobotsIn(before)) \in Nat
  BY <1>2, <1>4, FS_CardinalityType
<1>6. CapacityOf(resource) \in Nat
  BY CapacityType
<1>7. Cardinality(RobotsIn(after)) <= CapacityOf(resource)
  BY <1>2, <1>4, <1>5, <1>6
<1>8. \A e, f \in after : e.robot # f.robot => ~Excludes(resource, e.usage, f.usage)
  BY <1>1 DEF Orderly
<1>. QED  BY <1>4, <1>7, <1>8 DEF Orderly

(* A robot that meets fewer others than the place takes, and clashes with  *)
(* none of them, can be booked.                                            *)
LEMMA RoomForOneMore ==
  ASSUME NEW entries \in SUBSET Ledger!Entry, NEW robot \in Robot,
         NEW resource \in Resource, NEW usage \in Usage,
         NEW span \in SUBSET Time, NEW t \in Time,
         Orderly(entries, resource, t),
         t \in span => Ledger!HasRoom(entries, robot, resource, usage, t)
  PROVE  Orderly(entries \cup Ledger!Entries(robot, resource, usage, span), resource, t)
<1> DEFINE more == entries \cup Ledger!Entries(robot, resource, usage, span)
           mine == [robot |-> robot, resource |-> resource, at |-> t, usage |-> usage]
           met == Ledger!Met(entries, robot, resource, t)
<1>1. CASE t \notin span
  <2>1. There(more, resource, t) = There(entries, resource, t)
    BY <1>1 DEF There, Ledger!Entries
  <2>. QED  BY <2>1 DEF Orderly
<1>2. CASE t \in span
  <2>1. There(more, resource, t) = There(entries, resource, t) \cup {mine}
    BY <1>2 DEF There, Ledger!Entries
  <2>2. RobotsIn(There(more, resource, t)) = RobotsIn(met) \cup {robot}
    <3>1. mine.robot = robot /\ mine \in There(more, resource, t)
      BY <2>1
    <3>2. RobotsIn(There(more, resource, t)) \subseteq RobotsIn(met) \cup {robot}
      <4> SUFFICES ASSUME NEW e \in There(more, resource, t), e.robot # robot
                   PROVE  e \in met
        BY DEF RobotsIn
      <4>. QED  BY <2>1, <3>1 DEF There, Ledger!Met
    <3>3. met \subseteq There(more, resource, t)
      BY <2>1 DEF There, Ledger!Met
    <3>. QED  BY <3>1, <3>2, <3>3 DEF RobotsIn
  <2>3. RobotsIn(met) \subseteq RobotsIn(There(entries, resource, t))
    BY DEF RobotsIn, There, Ledger!Met
  <2>4. IsFiniteSet(RobotsIn(met))
    BY <2>3, FS_Subset DEF Orderly
  <2>5. Cardinality(RobotsIn(met)) < CapacityOf(resource)
    BY <1>2, RoomMeans
  <2>6. robot \notin RobotsIn(met)
    BY DEF RobotsIn, Ledger!Met
  <2>7. IsFiniteSet(RobotsIn(met) \cup {robot})
        /\ Cardinality(RobotsIn(met) \cup {robot}) = Cardinality(RobotsIn(met)) + 1
    BY <2>4, <2>6, FS_AddElement
  <2>8. Cardinality(RobotsIn(met)) \in Nat /\ CapacityOf(resource) \in Nat
    BY <2>4, FS_CardinalityType, CapacityType
  <2>9. \A e \in met : ~Excludes(resource, usage, e.usage)
    BY <1>2, RoomMeans
  <2>10. \A e \in met : e.usage \in Usage
    BY DEF Ledger!Met, Ledger!Entry
  <2>11. \A e \in met : ~Excludes(resource, e.usage, usage)
    BY <2>9, ExclusionIsSymmetric
  <2>12. \A e, f \in There(more, resource, t) :
           e.robot # f.robot => ~Excludes(resource, e.usage, f.usage)
    <3> SUFFICES ASSUME NEW e \in There(more, resource, t),
                        NEW f \in There(more, resource, t), e.robot # f.robot
                 PROVE  ~Excludes(resource, e.usage, f.usage)
      OBVIOUS
    <3>1. CASE e # mine /\ f # mine
      BY <2>1, <3>1 DEF Orderly
    <3>2. CASE e = mine
      <4>1. f \in met
        BY <2>1, <3>2 DEF There, Ledger!Met
      <4>. QED  BY <2>9, <3>2, <4>1
    <3>3. CASE f = mine
      <4>1. e \in met
        BY <2>1, <3>3 DEF There, Ledger!Met
      <4>. QED  BY <2>11, <3>3, <4>1
    <3>. QED  BY <3>1, <3>2, <3>3
  <2>13. Cardinality(RobotsIn(There(more, resource, t))) <= CapacityOf(resource)
    <3>1. Cardinality(RobotsIn(There(more, resource, t))) = Cardinality(RobotsIn(met)) + 1
      BY <2>2, <2>7, Zenon
    <3>2. \A n, c \in Nat : n < c => n + 1 <= c
      OBVIOUS
    <3>3. Cardinality(RobotsIn(met)) + 1 <= CapacityOf(resource)
      BY <2>5, <2>8, <3>2, Zenon
    <3>. QED  BY <3>1, <3>3, Zenon
  <2>. QED  BY <2>2, <2>7, <2>12, <2>13 DEF Orderly
<1>. QED  BY <1>1, <1>2

(* Booking one place leaves the others as they are.                        *)
LEMMA ElsewhereUntouched ==
  ASSUME NEW entries, NEW robot, NEW resource, NEW usage, NEW span,
         NEW other, other # resource, NEW t,
         Orderly(entries, other, t)
  PROVE  Orderly(entries \cup Ledger!Entries(robot, resource, usage, span), other, t)
<1>1. There(entries \cup Ledger!Entries(robot, resource, usage, span), other, t)
        = There(entries, other, t)
  BY DEF There, Ledger!Entries
<1>. QED  BY <1>1 DEF Orderly

LEMMA NextKeepsOrder ==
  ASSUME LInv, [Ledger!Next]_Booked  PROVE  LInv'
<1>1. CASE Booked' \in SUBSET Booked
  BY <1>1, FewerStayOrderly DEF LInv
<1>2. ASSUME NEW robot \in Robot, NEW resource \in Resource, NEW usage \in Usage,
             NEW span \in SUBSET Time, NEW kept \in SUBSET Booked,
             \A t \in span : Ledger!HasRoom(kept, robot, resource, usage, t),
             Booked' = kept \cup Ledger!Entries(robot, resource, usage, span)
      PROVE  LInv'
  <2>1. kept \in SUBSET Ledger!Entry
    BY DEF LInv
  <2>2. Ledger!Entries(robot, resource, usage, span) \subseteq Ledger!Entry
    BY DEF Ledger!Entries, Ledger!Entry
  <2>3. ASSUME NEW place \in Resource, NEW t \in Time
        PROVE  Orderly(Booked', place, t)
    <3>1. Orderly(kept, place, t)
      BY FewerStayOrderly DEF LInv
    <3>2. CASE place = resource
      BY <1>2, <2>1, <3>1, <3>2, RoomForOneMore
    <3>3. CASE place # resource
      BY <1>2, <3>1, <3>3, ElsewhereUntouched
    <3>. QED  BY <3>2, <3>3
  <2>. QED  BY <1>2, <2>1, <2>2, <2>3 DEF LInv
<1>3. ASSUME NEW robot \in Robot, NEW resource \in Resource, NEW usage \in Usage,
             NEW span \in SUBSET Time, Ledger!Book(robot, resource, usage, span)
      PROVE  LInv'
  BY <1>2, <1>3 DEF Ledger!Book
<1>4. ASSUME NEW robot \in Robot, NEW resource \in Resource, NEW usage \in Usage,
             NEW span \in SUBSET Time, Ledger!Stay(robot, resource, usage, span)
      PROVE  LInv'
  <2>1. PICK lost \in SUBSET Booked :
          /\ \A t \in span : Ledger!Met(Booked \ lost, robot, resource, t) = {}
          /\ Booked' = (Booked \ lost) \cup Ledger!Entries(robot, resource, usage, span)
    BY <1>4 DEF Ledger!Stay
  <2>2. CapacityOf(resource) \in Nat /\ CapacityOf(resource) > 0
    BY <1>4, CapacityType DEF Ledger!Stay
  <2>3. ASSUME NEW t \in span  PROVE  Ledger!HasRoom(Booked \ lost, robot, resource, usage, t)
    <3>1. Ledger!Met(Booked \ lost, robot, resource, t) = {}
      BY <2>1
    <3>2. RobotsIn(Ledger!Met(Booked \ lost, robot, resource, t)) = {}
      BY <3>1 DEF RobotsIn
    <3>. QED  BY <2>2, <3>1, <3>2, FS_EmptySet, RoomMeans
  <2>. QED  BY <1>2, <2>1, <2>3
<1>5. CASE Ledger!Next
  BY <1>1, <1>3, <1>4, <1>5 DEF Ledger!Next, Ledger!Vacate
<1>. QED  BY <1>1, <1>5

LEMMA StartsOrderly ==
  ASSUME Ledger!Init  PROVE  LInv
<1> SUFFICES ASSUME NEW resource \in Resource, NEW t \in Time
             PROVE  Orderly({}, resource, t)
  BY DEF Ledger!Init, LInv
<1>1. There({}, resource, t) = {} /\ RobotsIn({}) = {}
  BY DEF There, RobotsIn
<1>2. CapacityOf(resource) \in Nat
  BY CapacityType
<1>. QED  BY <1>1, <1>2, FS_EmptySet DEF Orderly

(* The rules of the ledger, which look at one booking at a time, are        *)
(* enough to keep every instant of every place in order: a manager that    *)
(* implements it is never crowded.                                         *)
THEOREM LedgerNeverCrowded == ImplementsLedger => []Ledger!NeverCrowded
<1>1. LInv => Ledger!NeverCrowded
  <2>1. ASSUME LInv, NEW resource \in Resource, NEW t \in Time
        PROVE  LET there == {e \in Booked : e.resource = resource /\ e.at = t}
               IN  /\ Cardinality({e.robot : e \in there}) <= CapacityOf(resource)
                   /\ \A e, f \in there :
                        e.robot # f.robot => ~Excludes(resource, e.usage, f.usage)
    <3>1. Orderly(Booked, resource, t)
      BY <2>1 DEF LInv
    <3>. QED  BY <3>1, Zenon DEF Orderly, There, RobotsIn
  <2>2. \A resource \in Resource :
          [r \in Resource |-> CapacityOf(r)][resource] = CapacityOf(resource)
    OBVIOUS
  <2>. QED  BY <2>1, <2>2, SameCountingInLedger, Zenon DEF Ledger!NeverCrowded
<1>2. Ledger!Init => LInv
  BY StartsOrderly
<1>3. LInv /\ [Ledger!Next]_Booked => LInv'
  BY NextKeepsOrder
<1>. QED  BY <1>1, <1>2, <1>3, PTL DEF ImplementsLedger, Ledger!Spec
=============================================================================
