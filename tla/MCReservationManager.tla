------------------------ MODULE MCReservationManager ------------------------
(***************************************************************************)
(* Small instances of the reservation manager for TLC.                     *)
(***************************************************************************)
EXTENDS ReservationManager, TLC

CONSTANTS r1, r2, r3,   \* robots
          corridor, junction,        \* resources
          fwd, rev,     \* directions
          north, east                \* movements

NoUsage == [direction |-> None, movement |-> None]
Along(d) == [direction |-> d, movement |-> None]
Through(m) == [direction |-> None, movement |-> m]

Ask(id, robot, resource, start, duration, usage) ==
  [id |-> id, robot |-> robot, resource |-> resource, start |-> start,
   duration |-> duration, usage |-> usage]

Instants == 0..2

(* A corridor and a junction for two robots each. In the corridor: claims  *)
(* that state no direction, the earlier of which may be made last, one     *)
(* each way that meet when the first is extended, a second claim of a      *)
(* robot already there, ids used for two claims, and an empty span. In the *)
(* junction north and east cross each other, and a robot that asked for    *)
(* the one asks for the other too: its own claims never stop it.           *)
FloorCapacity == [r \in {corridor, junction} |-> 2]
FloorGroups == junction :> {{north, east}}
FloorRequests ==
  {Ask(1, r1, corridor, 0, 2, NoUsage),
   Ask(2, r1, corridor, 0, 1, Along(fwd)),
   Ask(2, r2, corridor, 1, 1, NoUsage),
   Ask(3, r3, corridor, 1, 1, Along(rev)),
   Ask(1, r1, junction, 0, 2, Through(north)),
   Ask(2, r2, junction, 1, 1, Through(east)),
   Ask(3, r2, junction, 1, 1, Through(north)),
   Ask(1, r3, corridor, 1, 0, Along(fwd)),
   Ask(None, r3, corridor, 1, 1, NoUsage)}

NoGroups == [r \in {} |-> {}]
NarrowCapacity == corridor :> 1
NoneKnown == [r \in {} |-> 0]

(* What is left of a state when data nothing reads any more is dropped:    *)
(* the grant time is read only while a claim is pending, the commit mark   *)
(* only until the claim has ended.                                         *)
LiveOf(rec) ==
  CASE rec.state = "pending" -> rec
    [] rec.state = "active"  -> [rec EXCEPT !.decided_at = 0]
    [] OTHER -> [rec EXCEPT !.decided_at = 0, !.committed = FALSE]

LiveRecords == [id \in DOMAIN records |-> LiveOf(records[id])]

LiveView ==
  <<LiveRecords, holding_by_resource, by_robot, holding_count, waits, now>>
=============================================================================
