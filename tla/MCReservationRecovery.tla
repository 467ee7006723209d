----------------------- MODULE MCReservationRecovery -----------------------
(***************************************************************************)
(* Small instances of the reservation manager that restarts.               *)
(***************************************************************************)
EXTENDS MCReservationManager, ReservationRecovery, ReservationRefinement

(* One passes at a time. The claims of the two robots overlap, so a store  *)
(* that mixes ages may hold both; a robot's own claims may overlap. A      *)
(* span of no length is refused.                                           *)
RestartRequests ==
  {Ask(1, r1, corridor, 0, 2, Along(fwd)),
   Ask(2, r2, corridor, 1, 1, Along(rev)),
   Ask(2, r1, corridor, 0, 1, NoUsage),
   Ask(2, r1, corridor, 1, 0, NoUsage)}

ShortInstants == 0..1

(* Where no grant times out before the clock stops the grant time is dead  *)
(* too, and nothing these runs check reads who waits.                      *)
Undated(recs) == [id \in DOMAIN recs |-> [LiveOf(recs[id]) EXCEPT !.decided_at = 0]]

SavedView ==
  <<Undated(records), holding_by_resource, by_robot, holding_count, now,
    Undated(saved), restoring, rejected, intact>>
=============================================================================
