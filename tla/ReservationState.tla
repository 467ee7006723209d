-------------------------- MODULE ReservationState --------------------------
(***************************************************************************)
(* The lifecycle of a reservation, domain/reservation_state.               *)
(***************************************************************************)

State    == {"pending", "active", "released", "expired", "cancelled"}
Terminal == {"released", "expired", "cancelled"}
Holding  == {"pending", "active"}

(* Slip: a claim is cancelled with its robot inside.                       *)
MayBecomeWithCancelInside ==
  [pending   |-> {"pending", "active", "expired", "cancelled"},
   active    |-> {"active", "released", "expired", "cancelled"},
   released  |-> {"released"},
   expired   |-> {"expired"},
   cancelled |-> {"cancelled"}]

(* kTransitions: a row per current state. Only the diagonal leaves a       *)
(* terminal state, and an active claim cannot be cancelled.                *)
MayBecome ==
  [pending   |-> {"pending", "active", "expired", "cancelled"},
   active    |-> {"active", "released", "expired"},
   released  |-> {"released"},
   expired   |-> {"expired"},
   cancelled |-> {"cancelled"}]

IsTransitionAllowed(from, to) == to \in MayBecome[from]
=============================================================================
