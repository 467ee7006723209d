-------------------------- MODULE MCReservationBatch --------------------------
(***************************************************************************)
(* One place for one robot, and three that want it: 1 matters least, 2 and *)
(* 3 come back as soon as they may.  The fourth request is refused, being   *)
(* beyond the horizon: it only has its place in the order.                 *)
(***************************************************************************)
EXTENDS ReservationBatch, TLC

CONSTANT place

NoUsage == [direction |-> None, movement |-> None]

Ask(id, robot, start, duration) ==
  [id |-> id, robot |-> robot, resource |-> place, start |-> start,
   duration |-> duration, usage |-> NoUsage]

TheRequests ==
  {Ask(1, 1, 0, 1), Ask(2, 2, 0, 2), Ask(3, 3, 0, 1), Ask(4, 3, 2, 1)}

ThePriorities == 1 :> 0 @@ 2 :> 0 @@ 3 :> 1
TheTasks      == 1 :> 2 @@ 2 :> 1 @@ 3 :> 1

Around == -9..9
Nothing == {}
NoGroups == [r \in {} |-> {}]
ForOne == place :> 1
=============================================================================
