-------------------------- MODULE ReservationTable --------------------------
(***************************************************************************)
(* reservation::ReservationTable: the claims robots hold on the resources  *)
(* of one map, the indices over them, and the admission check.             *)
(*                                                                         *)
(* The table stores and refuses; who asks, and when, is the manager's.     *)
(* Its write operations are given as operators on the record function and  *)
(* on the index, over a set of ids, so that the manager's handlers, which  *)
(* change several claims in one call, stay one action each.                *)
(***************************************************************************)
EXTENDS TimeWindow, ReservationState, FiniteSets

CONSTANTS
  Robot,          \* robot ids
  Resource,       \* resource ids requests may name
  ReservationId,  \* the idempotency keys, ordered as the code orders ids
  Time,           \* the instants the clock can show
  Direction,      \* ways to run through a corridor
  Movement,       \* movements through an intersection
  None,           \* std::nullopt, and the empty id
  Corridor,       \* the resources that are corridors of the map
  Intersection,   \* the resources that are intersections of the map
  MapCapacity,    \* capacity of each resource the map knows
  ConflictGroups  \* for each intersection, its sets of exclusive movements

ASSUME SortAssumption ==
  /\ ReservationId \subseteq Nat
  /\ Time \subseteq Int
  /\ None \notin Robot \cup Resource \cup ReservationId
  /\ None \notin Direction \cup Movement

ASSUME MapAssumption ==
  /\ Corridor \subseteq Resource
  /\ Intersection \subseteq Resource
  /\ MapCapacity \in [DOMAIN MapCapacity -> Nat]
  /\ ConflictGroups \in [Intersection -> SUBSET SUBSET Movement]

VARIABLES
  records,             \* records_: what is known of each inserted claim
  holding_by_resource, \* the (start, id) keys of the holding claims
  by_robot,            \* the ids of each robot's claims, ended ones included
  holding_count        \* how many claims withhold a resource

tableVars == <<records, holding_by_resource, by_robot, holding_count>>

Usage == [direction : Direction \cup {None}, movement : Movement \cup {None}]

Record == [robot      : Robot,
           resource   : Resource,
           window     : {w \in [start : Int, end : Int] : IsWindow(w)},
           usage      : Usage,
           state      : State,
           decided_at : Int,
           committed  : BOOLEAN]

Key == Int \X ReservationId
-----------------------------------------------------------------------------
(* Admission.                                                              *)

(* One robot at a time in a resource the map does not know.                *)
CapacityOf(r) == IF r \in DOMAIN MapCapacity THEN MapCapacity[r] ELSE 1

(* domain::movements_conflict.                                             *)
MovementsConflict(r, m, n) ==
  m # n /\ \E group \in ConflictGroups[r] : {m, n} \subseteq group

(* A direction that is not stated refuses nothing.                         *)
OpposesDirection(r, u, v) ==
  /\ r \in Corridor
  /\ None \notin {u.direction, v.direction}
  /\ u.direction # v.direction

(* Slip: the same movement twice is what conflicts.                        *)
OpposesSameMovement(r, u, v) ==
  r \in Intersection /\ u.movement # None /\ u.movement = v.movement

OpposesMovement(r, u, v) ==
  /\ r \in Intersection
  /\ None \notin {u.movement, v.movement}
  /\ MovementsConflict(r, u.movement, v.movement)

(* Slip: a robot's own claims stand in its way.                            *)
ContendersOfAnyRobot(r, w, requester) ==
  {id \in DOMAIN records :
     /\ \E key \in holding_by_resource[r] : key[1] < w.end /\ key[2] = id
     /\ Overlaps(records[id].window, w)}

(* The claims of other robots that withhold r during part of w, read from  *)
(* the index: the scan stops at the first key that starts after w.         *)
Contenders(r, w, requester) ==
  {id \in DOMAIN records :
     /\ \E key \in holding_by_resource[r] : key[1] < w.end /\ key[2] = id
     /\ records[id].robot # requester
     /\ Overlaps(records[id].window, w)}

RobotsOf(ids) == {records[id].robot : id \in ids}

OccupantsAt(ids, t) == RobotsOf({id \in ids : Contains(records[id].window, t)})

(* Slip: what starts inside the window goes uncounted.                     *)
SampledAtStartOnly(ids, w) == {w.start}

(* Occupancy only rises where a claim starts, so peak_occupancy looks at   *)
(* the start of w and at the starts inside it.                             *)
SampledInstants(ids, w) ==
  {w.start} \cup {t \in {records[id].window.start : id \in ids} : Contains(w, t)}

PeakOccupancyReaches(n, ids, w) ==
  \E t \in SampledInstants(ids, w) : Cardinality(OccupantsAt(ids, t)) >= n

(* check: the verdict, and the claims that explain a refusal.              *)
Check(r, requester, w, usage) ==
  LET candidates == Contenders(r, w, requester)
      opposing   == {id \in candidates :
                       OpposesDirection(r, usage, records[id].usage)}
      crossing   == {id \in candidates \ opposing :
                       OpposesMovement(r, usage, records[id].usage)}
  IN  CASE opposing # {} ->
             [result |-> "opposing_direction", blockers |-> opposing]
        [] opposing = {} /\ crossing # {} ->
             [result |-> "movement_conflict", blockers |-> crossing]
        [] /\ opposing = {} /\ crossing = {}
           /\ PeakOccupancyReaches(CapacityOf(r), candidates, w) ->
             [result |-> "capacity_exceeded", blockers |-> candidates]
        [] OTHER -> [result |-> "admitted", blockers |-> {}]

Admitted(r, requester, w, usage) ==
  Check(r, requester, w, usage).result = "admitted"
-----------------------------------------------------------------------------
(* Writes.                                                                 *)

Holders == {id \in DOMAIN records : records[id].state \in Holding}

(* Slip: the index is ordered by a key that moves.                         *)
KeyedByEnd(rec, id) == <<rec.window.end, id>>

(* key_of: the start, because the end of a claim moves.                    *)
KeyOf(rec, id) == <<rec.window.start, id>>

(* The keys that the claims `ids' of the record function recs have in the  *)
(* bucket of r while they hold it.                                         *)
KeysIn(recs, ids, r) ==
  {KeyOf(recs[id], id) :
     id \in {i \in ids : recs[i].resource = r /\ recs[i].state \in Holding}}

(* insert refuses a duplicate id. It does not check admission.             *)
Insert(id, rec) ==
  /\ id \notin DOMAIN records
  /\ records' = [i \in DOMAIN records \cup {id} |->
                   IF i = id THEN rec ELSE records[i]]
  /\ by_robot' = [by_robot EXCEPT ![rec.robot] = @ \cup {id}]
  /\ IF rec.state \in Holding
     THEN /\ holding_by_resource' =
               [holding_by_resource EXCEPT
                  ![rec.resource] = @ \cup {KeyOf(rec, id)}]
          /\ holding_count' = holding_count + 1
     ELSE UNCHANGED <<holding_by_resource, holding_count>>

(* set_state on each of the claims in the domain of `next', to the state   *)
(* that function gives it.                                                 *)
WithStates(recs, next) ==
  [id \in DOMAIN recs |-> IF id \in DOMAIN next
                          THEN [recs[id] EXCEPT !.state = next[id]]
                          ELSE recs[id]]

(* The claims unindex() finds in their buckets: it counts no other off.    *)
FoundByKey(ids) ==
  {id \in ids \cap Holders :
     KeyOf(records[id], id) \in holding_by_resource[records[id].resource]}

(* Slip: claims indexed again are not counted again.                       *)
CountAfterUnindexing(next) == holding_count - Cardinality(FoundByKey(DOMAIN next))

(* One less for each claim unindexed, one more for each indexed again.     *)
CountAfter(next) ==
  holding_count - Cardinality(FoundByKey(DOMAIN next))
                + Cardinality({id \in DOMAIN next : next[id] \in Holding})

(* What set_state does to the index: each claim is taken out under its old *)
(* state and put back under its new one.                                   *)
Reindex(next) ==
  LET ids    == DOMAIN next
      moved  == WithStates(records, next)
  IN  /\ ids \subseteq DOMAIN records
      /\ \A id \in ids : IsTransitionAllowed(records[id].state, next[id])
      /\ holding_by_resource' =
           [r \in Resource |-> (holding_by_resource[r] \ KeysIn(records, ids, r))
                                 \cup KeysIn(moved, ids, r)]
      /\ holding_count' = CountAfter(next)
      /\ UNCHANGED by_robot

SetStates(next) ==
  /\ Reindex(next)
  /\ records' = WithStates(records, next)

SetState(id, next) == SetStates([i \in {id} |-> next])

(* set_window_end: the start is the index key and never moves.             *)
WithWindowEnd(recs, id, end) == [recs EXCEPT ![id].window.end = end]

(* mark_committed refuses a claim that has ended.                          *)
MarkCommitted(id) ==
  /\ id \in DOMAIN records
  /\ records[id].state \notin Terminal
  /\ records' = [records EXCEPT ![id].committed = TRUE]
  /\ UNCHANGED <<holding_by_resource, by_robot, holding_count>>

(* purge_terminal_before: history is dropped once its window is over.      *)
PurgeTerminalBefore(cutoff) ==
  LET gone == {id \in DOMAIN records :
                 /\ records[id].state \in Terminal
                 /\ records[id].window.end < cutoff}
  IN  /\ records' = [id \in DOMAIN records \ gone |-> records[id]]
      /\ by_robot' = [robot \in Robot |-> by_robot[robot] \ gone]
      /\ UNCHANGED <<holding_by_resource, holding_count>>

TableInit ==
  /\ records = [id \in {} |-> None]
  /\ holding_by_resource = [r \in Resource |-> {}]
  /\ by_robot = [robot \in Robot |-> {}]
  /\ holding_count = 0
-----------------------------------------------------------------------------
(* Correctness.                                                            *)

(* Every field has its type; a claim's window is never empty.              *)
TableTypeOK ==
  /\ DOMAIN records \subseteq ReservationId
  /\ IsFiniteSet(DOMAIN records)
  /\ records \in [DOMAIN records -> Record]
  /\ holding_by_resource \in [Resource -> SUBSET Key]
  /\ by_robot \in [Robot -> SUBSET ReservationId]
  /\ holding_count \in Int

(* The indices the admission check and release_all_for read are the ones   *)
(* the records imply, whatever sequence of inserts, state changes, window  *)
(* changes and purges led here (index, unindex, by_robot_).                *)
IndexAgrees ==
  /\ \A r \in Resource :
       holding_by_resource[r] = KeysIn(records, DOMAIN records, r)
  /\ \A robot \in Robot :
       by_robot[robot] = {id \in DOMAIN records : records[id].robot = robot}

(* holding_count_ counts the claims that withhold a resource, neither      *)
(* drifting nor going below zero.                                          *)
CountAgrees == holding_count = Cardinality(Holders)

HoldersOf(r) == {id \in Holders : records[id].resource = r}

(* At no instant do claims of more robots cover a resource than it admits, *)
(* although check() samples only a few instants, extend() checks only the  *)
(* added span, and a robot's own claims are not counted against it.        *)
CapacityRespected ==
  \A r \in Resource, t \in Time :
    Cardinality(OccupantsAt(HoldersOf(r), t)) <= CapacityOf(r)

(* Claims of two robots that overlap in time.                              *)
Contend(i, j) ==
  /\ records[i].resource = records[j].resource
  /\ records[i].robot # records[j].robot
  /\ Overlaps(records[i].window, records[j].window)

(* What docs 25 sections 7, 8 and 11 call head-on and crossing movements.  *)
Excludes(r, u, v) ==
  \/ /\ r \in Corridor
     /\ u.direction # None /\ v.direction # None
     /\ u.direction # v.direction
  \/ /\ r \in Intersection
     /\ u.movement # None /\ v.movement # None
     /\ u.movement # v.movement
     /\ \E group \in ConflictGroups[r] : {u.movement, v.movement} \subseteq group

(* Two robots never hold a corridor in opposite directions at the same     *)
(* time, nor exclusive movements of an intersection, at any capacity and   *)
(* however often windows are extended.                                     *)
ExclusionRespected ==
  \A i, j \in Holders :
    Contend(i, j) =>
      ~Excludes(records[i].resource, records[i].usage, records[j].usage)
=============================================================================
