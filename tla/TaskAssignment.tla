--------------------------- MODULE TaskAssignment ---------------------------
(***************************************************************************)
(* The seam between the task register and the engines that decide who does *)
(* what (task_assignment.h): requests for the tasks that want a robot are  *)
(* drawn up, an engine answers some of them in its own time, and its       *)
(* proposals are applied to a register that has moved on.  The engines are *)
(* not in src/: here they may propose anything about what they were asked. *)
(***************************************************************************)
EXTENDS TaskManager, Sequences

Seqs == INSTANCE SequencesExt

CONSTANTS Engine, MaxProposals  \* bound on the proposals of one answer

ASSUME AssignmentAssumption == MaxProposals \in Nat

VARIABLES
  requests,  \* what each engine has been asked, in the order it was asked
  answers,   \* the proposals of each engine that are yet to be applied
  refused    \* the proposals the last apply_assignments returned

assignmentVars == <<taskVars, requests, answers, refused>>

Proposal == [task : TaskId, robot : Robot]

(* by_priority, of the created tasks: highest first, ties by id.           *)
ByPriority ==
  Seqs!SetToSortSeq({id \in DOMAIN tasks : tasks[id].status = "created"},
                    LAMBDA i, j : \/ tasks[i].priority > tasks[j].priority
                                  \/ tasks[i].priority = tasks[j].priority /\ i < j)

(* assignment_requests.                                                    *)
Ask(engine) ==
  /\ ByPriority # << >>
  /\ requests' = [requests EXCEPT ![engine] = ByPriority]
  /\ UNCHANGED <<taskVars, answers, refused>>

Answer(engine) ==
  /\ answers[engine] = << >>
  /\ \E proposals \in Seqs!BoundedSeq([task : Seqs!ToSet(requests[engine]), robot : Robot],
                                      MaxProposals) :
       /\ proposals # << >>
       /\ answers' = [answers EXCEPT ![engine] = proposals]
  /\ requests' = [requests EXCEPT ![engine] = << >>]
  /\ UNCHANGED <<taskVars, refused>>

(* Slip: the first refusal ends the batch.                                 *)
TriedUntilRefused(result, proposal) ==
  IF result.refused # << >> THEN result
  ELSE IF MayAssign(result.register, proposal.task)
  THEN [result EXCEPT !.register = Assigned(@, proposal.task, proposal.robot, now)]
  ELSE [result EXCEPT !.refused = Append(@, proposal)]

(* One proposal of a batch: applied to what the ones before left behind.   *)
Tried(result, proposal) ==
  IF MayAssign(result.register, proposal.task)
  THEN [result EXCEPT !.register = Assigned(@, proposal.task, proposal.robot, now)]
  ELSE [result EXCEPT !.refused = Append(@, proposal)]

ApplyAssignments(engine) ==
  LET result == Seqs!FoldLeft(Tried, [register |-> Register, refused |-> << >>],
                              answers[engine])
  IN  /\ answers[engine] # << >>
      /\ Becomes(result.register)
      /\ refused' = result.refused
      /\ answers' = [answers EXCEPT ![engine] = << >>]
      /\ UNCHANGED <<now, requests>>

AssignmentInit ==
  /\ Init
  /\ requests = [engine \in Engine |-> << >>]
  /\ answers = [engine \in Engine |-> << >>]
  /\ refused = << >>

AssignmentNext ==
  \/ Next /\ UNCHANGED <<requests, answers, refused>>
  \/ \E engine \in Engine :
       \/ Ask(engine)
       \/ Answer(engine)
       \/ task_version + Len(answers[engine]) <= MaxVersion /\ ApplyAssignments(engine)

AssignmentSpec == AssignmentInit /\ [][AssignmentNext]_assignmentVars
-----------------------------------------------------------------------------
(* Correctness.                                                            *)

Applied(engine) == answers[engine] # << >> /\ answers'[engine] = << >>

(* What an answer says last about a task.                                  *)
LastWords(proposals) ==
  {i \in DOMAIN proposals :
     \A j \in DOMAIN proposals : j > i => proposals[j].task # proposals[i].task}

(* However stale its answer, an engine learns what became of it: a task    *)
(* the last proposal for which came back is untouched, whatever was        *)
(* proposed before, and one for which it did not has that robot            *)
(* (apply_assignments).                                                    *)
EngineKnows ==
  [][\A engine \in Engine : Applied(engine) =>
       \A i \in LastWords(answers[engine]) :
         LET proposal == answers[engine][i]
             id       == proposal.task
         IN  IF proposal \in Seqs!ToSet(refused')
             THEN id \in DOMAIN tasks => id \in DOMAIN tasks' /\ tasks'[id] = tasks[id]
             ELSE tasks'[id].status = "assigned" /\ tasks'[id].robot = proposal.robot
    ]_assignmentVars
=============================================================================
