---------------------------- MODULE ConflictRules ----------------------------
(***************************************************************************)
(* What two robots that want a place at the same time are to each other    *)
(* (conflict_rules), and which of several descriptions of one contention   *)
(* is kept (is_better_description, reduce).  Pure functions of what is     *)
(* compared.                                                               *)
(*                                                                         *)
(* A claim is a record with at least a robot, a resource and a window:     *)
(* one robot in one place for one span, by intent or by grant.             *)
(***************************************************************************)
EXTENDS TimeWindow, FiniteSets

CONSTANTS
  None,                        \* std::nullopt, the empty id
  AbsorbedLead, CriticalLead   \* SeverityThresholds

(* make_severity_thresholds.                                               *)
ASSUME ThresholdAssumption ==
  /\ {AbsorbedLead, CriticalLead} \subseteq Nat
  /\ CriticalLead < AbsorbedLead

ConflictType ==
  {"temporal", "resource", "node", "edge", "corridor", "crossing", "head_on"}

Severity == {"low", "medium", "high"}

(* overlap_of, of windows that do overlap.                                 *)
OverlapOf(v, w) ==
  Window(IF v.start > w.start THEN v.start ELSE w.start,
         IF v.end < w.end THEN v.end ELSE w.end)

(* is_temporal_conflict: a robot does not block itself, and two places     *)
(* nobody could name are not the same place.                               *)
IsTemporalConflict(a, b) ==
  /\ a.robot # b.robot
  /\ a.resource # None
  /\ a.resource = b.resource
  /\ Overlaps(a.window, b.window)

(* distinct_robots_at.                                                     *)
DistinctRobotsAt(holders, resource, t) ==
  {h.robot : h \in {g \in holders : g.resource = resource /\ Contains(g.window, t)}}

(* Slip: who arrives while the two are there goes uncounted.               *)
StartOfShared(shared, holders, resource) == {shared.start}

(* The instants at which occupancy of the shared span can rise.            *)
SharedInstants(shared, holders, resource) ==
  {shared.start}
    \cup {t \in {h.window.start : h \in {g \in holders : g.resource = resource}} :
            Contains(shared, t)}

(* is_capacity_conflict: two claims meet, and at some instant they share   *)
(* the place holds more robots than it has room for.                       *)
IsCapacityConflict(a, b, holders, capacity) ==
  /\ IsTemporalConflict(a, b)
  /\ \/ capacity <= 1
     \/ \E t \in SharedInstants(OverlapOf(a.window, b.window), holders, a.resource) :
          Cardinality(DistinctRobotsAt(holders, a.resource, t)) > capacity

(* is_node_conflict, of visits.                                            *)
IsNodeConflict(a, b) ==
  /\ a.robot # b.robot
  /\ a.node = b.node
  /\ Overlaps(a.window, b.window)

(* is_following_conflict and is_head_on_conflict, of traversals: robots on *)
(* one edge came in by the same end or by opposite ones.                   *)
MeetOnEdge(a, b) ==
  /\ a.robot # b.robot
  /\ a.edge = b.edge
  /\ Overlaps(a.window, b.window)

IsFollowing(a, b) == MeetOnEdge(a, b) /\ a.from = b.from

IsHeadOnOnEdge(a, b) == MeetOnEdge(a, b) /\ a.from # b.from

(* can_deadlock_head_on.                                                   *)
CanDeadlockHeadOn(corridor, capacity) ==
  corridor.direction = "bidirectional" /\ capacity = 1

(* is_head_on_conflict, of passages: they need not share an edge.          *)
IsHeadOnInCorridor(corridor, capacity, a, b) ==
  /\ a.robot # b.robot
  /\ a.resource = b.resource
  /\ CanDeadlockHeadOn(corridor, capacity)
  /\ a.direction # b.direction
  /\ Overlaps(a.window, b.window)

(* movements_conflict.                                                     *)
MovementsConflict(groups, m, n) ==
  m # n /\ \E group \in groups : {m, n} \subseteq group

(* is_crossing_conflict: a way through that the map does not define is     *)
(* compatible with nothing.                                                *)
IsCrossing(intersection, a, b) ==
  /\ a.robot # b.robot
  /\ a.resource = b.resource
  /\ Overlaps(a.window, b.window)
  /\ \/ None \in {a.movement, b.movement}
     \/ MovementsConflict(intersection.groups, a.movement, b.movement)

(* conflict_type_precedence.                                               *)
Precedence(type) ==
  CASE type = "head_on"  -> 6
    [] type = "crossing" -> 5
    [] type = "corridor" -> 4
    [] type = "edge"     -> 3
    [] type = "node"     -> 2
    [] type = "resource" -> 1
    [] type = "temporal" -> 0

(* severity_for: the less warning the worse, and two robots head on are    *)
(* never merely something to watch.                                        *)
SeverityFor(type, overlap, now) ==
  LET lead == overlap.start - now
  IN  CASE lead < CriticalLead -> "high"
        [] lead >= CriticalLead /\ (lead < AbsorbedLead \/ type = "head_on") -> "medium"
        [] OTHER -> "low"
-----------------------------------------------------------------------------
(* Candidates: what one pass says of two robots and a place.  The robots   *)
(* are ordered, so that a pair is one contention however it was met.       *)
Candidate(a, b, resource, type) ==
  [robot_a  |-> IF a.robot < b.robot THEN a.robot ELSE b.robot,
   robot_b  |-> IF a.robot < b.robot THEN b.robot ELSE a.robot,
   resource |-> resource,
   type     |-> type,
   overlap  |-> OverlapOf(a.window, b.window)]

(* ContentionKey.                                                          *)
KeyOfContention(c) == <<c.robot_a, c.robot_b, c.resource>>

(* Slip: of two meetings of one type the first to be found stays.          *)
IsBetterType(c, incumbent) == Precedence(c.type) > Precedence(incumbent.type)

(* Slip: the earlier meeting, whatever is said of it.                      *)
IsEarlierDescription(c, incumbent) ==
  \/ c.overlap.start < incumbent.overlap.start
  \/ /\ c.overlap.start = incumbent.overlap.start
     /\ Precedence(c.type) > Precedence(incumbent.type)

(* is_better_description: the type that says more, then the earlier        *)
(* meeting, then the shorter.                                              *)
IsBetterDescription(c, incumbent) ==
  \/ Precedence(c.type) > Precedence(incumbent.type)
  \/ /\ Precedence(c.type) = Precedence(incumbent.type)
     /\ \/ c.overlap.start < incumbent.overlap.start
        \/ /\ c.overlap.start = incumbent.overlap.start
           /\ c.overlap.end < incumbent.overlap.end

(* One turn of reduce's loop: the best description of each contention.     *)
Keep(best, c) ==
  [key \in DOMAIN best \cup {KeyOfContention(c)} |->
     IF /\ key = KeyOfContention(c)
        /\ key \in DOMAIN best => IsBetterDescription(c, best[key])
     THEN c
     ELSE best[key]]
=============================================================================
