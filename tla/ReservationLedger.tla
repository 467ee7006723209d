------------------------- MODULE ReservationLedger -------------------------
(***************************************************************************)
(* What the reservation system promises, without claims, states, indices,  *)
(* buffers or clocks: a ledger of who has which place at which instant.    *)
(*                                                                         *)
(* An instant is only ever booked while there is room for it, and what is  *)
(* booked is only given up, except that a robot already in a resource may  *)
(* push others out of that same resource to stay longer.                   *)
(***************************************************************************)
EXTENDS Integers, FiniteSets

CONSTANTS Robot, Resource, Usage, Instant,
          Capacity,       \* how many robots each resource takes
          Clash(_, _, _)  \* usages of a resource that exclude each other

VARIABLE booked

Entry == [robot : Robot, resource : Resource, at : Instant, usage : Usage]

Entries(robot, resource, usage, span) ==
  [robot : {robot}, resource : {resource}, at : span, usage : {usage}]

(* The bookings of other robots that robot would meet.                     *)
Met(entries, robot, resource, t) ==
  {e \in entries : e.resource = resource /\ e.at = t /\ e.robot # robot}

HasRoom(entries, robot, resource, usage, t) ==
  LET met == Met(entries, robot, resource, t)
  IN  /\ Cardinality({e.robot : e \in met}) < Capacity[resource]
      /\ \A e \in met : ~Clash(resource, usage, e.usage)
-----------------------------------------------------------------------------
Book(robot, resource, usage, span) ==
  /\ \A t \in span : HasRoom(booked, robot, resource, usage, t)
  /\ booked' = booked \cup Entries(robot, resource, usage, span)

Vacate == booked' \in SUBSET booked

(* Only a robot that has the resource already stays into the span, and     *)
(* nobody else keeps any of that span.                                     *)
Stay(robot, resource, usage, span) ==
  /\ \E e \in booked : e.robot = robot /\ e.resource = resource
  /\ Capacity[resource] > 0
  /\ \E lost \in SUBSET {e \in booked : e.resource = resource /\ e.robot # robot} :
       /\ \A t \in span : Met(booked \ lost, robot, resource, t) = {}
       /\ booked' = (booked \ lost) \cup Entries(robot, resource, usage, span)

Init == booked = {}

Next ==
  \/ Vacate
  \/ \E robot \in Robot, resource \in Resource, usage \in Usage,
        span \in SUBSET Instant : Book(robot, resource, usage, span)
  \/ \E robot \in Robot, resource \in Resource, usage \in Usage,
        span \in SUBSET Instant : Stay(robot, resource, usage, span)

Spec == Init /\ [][Next]_booked
-----------------------------------------------------------------------------
(* What the rules above add up to: at no instant is a resource booked by   *)
(* more robots than it takes, nor by two whose usages exclude each other,  *)
(* however often robots stay on (IReservationManager, docs 06).            *)
NeverCrowded ==
  \A resource \in Resource, t \in Instant :
    LET there == {e \in booked : e.resource = resource /\ e.at = t}
    IN  /\ Cardinality({e.robot : e \in there}) <= Capacity[resource]
        /\ \A e, f \in there : e.robot # f.robot => ~Clash(resource, e.usage, f.usage)
=============================================================================
