----------------------- MODULE ReservationRefinement -----------------------
(***************************************************************************)
(* The reservation manager implements the ledger: a claim that withholds a *)
(* resource books it for the instants of its window.                       *)
(***************************************************************************)
EXTENDS ReservationManager

Booked ==
  UNION {[robot : {records[id].robot}, resource : {records[id].resource},
          at : {t \in Time : Contains(records[id].window, t)},
          usage : {records[id].usage}] : id \in Holders}

Ledger == INSTANCE ReservationLedger WITH
  Instant  <- Time,
  Capacity <- [r \in Resource |-> CapacityOf(r)],
  Clash    <- Excludes,
  booked   <- Booked

(* Whatever is called in whatever order, every step of the manager is one  *)
(* the ledger allows: space and time are booked only while there is room,  *)
(* by one robot at a time, and taken back from others only to let a robot  *)
(* stay where it is.                                                       *)
ImplementsLedger == Ledger!Spec
=============================================================================
