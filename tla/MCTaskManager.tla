--------------------------- MODULE MCTaskManager ---------------------------
(* Small registers for TLC.                                                *)
EXTENDS TaskManager, TLC

CONSTANTS r1, r2, here, there

(* A task as make_task builds it.                                          *)
Plain == [source       |-> here,
          destination  |-> there,
          robot        |-> None,
          status       |-> "created",
          priority     |-> 1,
          created_at   |-> 0,
          started_at   |-> None,
          completed_at |-> None,
          deadline     |-> None]

(* One that is ahead of its time, with an end before its start; and what   *)
(* the register refuses.                                                   *)
Odd == [Plain EXCEPT !.priority = 2, !.created_at = 1,
                     !.started_at = 1, !.completed_at = 0]

Refused == {[Plain EXCEPT !.destination = here],
            [Plain EXCEPT !.status = "assigned"],
            [Plain EXCEPT !.priority = 101],
            [Plain EXCEPT !.created_at = 1, !.deadline = 0]}
           \cup {[Plain EXCEPT !.robot = robot] : robot \in Robot}

Tasks == {Plain, Odd} \cup Refused

(* Robots are not told apart.                                              *)
Alike == Permutations(Robot)
=============================================================================
