-------------------------- MODULE DocumentedRules --------------------------
(***************************************************************************)
(* What the repository's documents say of a committed reservation, and its *)
(* code does not keep.                                                     *)
(***************************************************************************)
EXTENDS ReservationManager

(* Robots ask and commit, time passes, and the timer looks after what was  *)
(* granted: nobody calls expire() or anything else meanwhile.              *)
TimerNext ==
  \/ \E req \in Requests : Request(req)
  \/ \E id \in ReservationId : Commit(id)
  \/ Sweep
  \/ Tick

TimerSpec == Init /\ [][TimerNext]_vars

(* "Commit Zone [...]: once inside, the reservation is not changed         *)
(* carelessly" (docs/06 section 30): while its window lasts, a claim the   *)
(* robot is committed to is not taken away by a timer, which cannot stop   *)
(* the robot (sweep).                                                      *)
CommittedClaimsStand ==
  [][\A id \in Holders :
       /\ records[id].committed /\ ~IsPast(records[id].window, now)
       /\ id \in DOMAIN records'
       => (Sweep => records'[id].state \in Holding)]_vars
=============================================================================
