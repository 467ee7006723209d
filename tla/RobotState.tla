----------------------------- MODULE RobotState -----------------------------
(***************************************************************************)
(* The states of a robot, domain/robot_state, and who may name them.       *)
(***************************************************************************)

State == {"idle", "reserving", "moving", "waiting", "temporarily_stopped",
          "blocked", "replanning", "failed", "unknown"}

(* kTransitions: an idle robot has no progress to interrupt, a failed one  *)
(* has to come back through idle or unknown, the others may go anywhere.   *)
MayBecome(from) ==
  CASE from = "idle"   -> {"idle", "reserving", "moving", "failed", "unknown"}
    [] from = "failed" -> {"failed", "idle", "unknown"}
    [] OTHER           -> State

IsTransitionAllowed(from, to) == to \in MayBecome(from)

(* Slip: a robot may claim to be waiting.                                  *)
ReportableButDecided == State \ {"reserving", "replanning"}

(* is_robot_reportable: what traffic control decides about a robot, the    *)
(* robot does not report about itself.                                     *)
Reportable == State \ {"reserving", "waiting", "replanning"}
=============================================================================
