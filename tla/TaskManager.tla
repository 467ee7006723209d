---------------------------- MODULE TaskManager ----------------------------
(***************************************************************************)
(* task::TaskManager: the register that owns every task.  The transition   *)
(* table of the domain decides which moves are legal and stamps when the   *)
(* work began and ended; the register refuses what would lose work, and    *)
(* counts changes so that a decision made a moment ago can be seen to be   *)
(* stale.                                                                  *)
(*                                                                         *)
(* Calls that are refused change nothing and are not written out.          *)
(***************************************************************************)
EXTENDS Integers, FiniteSets

CONSTANTS
  Robot,
  TaskId,      \* ordered as the code orders ids
  Node,        \* where work starts and ends
  Time,
  Offered,     \* tasks callers build and offer
  Priority,    \* priorities callers may set
  Deadline,    \* deadlines callers may set
  None,        \* std::nullopt
  MinTaskPriority, MaxTaskPriority,
  MaxVersion   \* bound on the version counter

Status   == {"created", "assigned", "planning", "running", "waiting",
             "completed", "cancelled", "failed"}
Terminal == {"completed", "cancelled", "failed"}
Active   == {"assigned", "planning", "running", "waiting"}

OrNone(S) == S \cup {None}

(* domain::Task: an aggregate that anybody can fill in.                    *)
Aggregate == [source       : Node,
              destination  : Node,
              robot        : OrNone(Robot),
              status       : Status,
              priority     : Int,
              created_at   : Time,
              started_at   : OrNone(Time),
              completed_at : OrNone(Time),
              deadline     : OrNone(Int)]

ASSUME TaskAssumption ==
  /\ TaskId \subseteq Nat
  /\ Time \cup Priority \cup Deadline \subseteq Int
  /\ None \notin Robot \cup Time
  /\ Offered \subseteq Aggregate
  /\ {MinTaskPriority, MaxTaskPriority} \subseteq Int
  /\ MaxVersion \in Nat

VARIABLES
  tasks,         \* tasks_: a record for each task
  task_version,  \* version_: of the set of tasks
  now            \* the caller's clock

taskVars == <<tasks, task_version, now>>

(* Slip: a task may finish while it is held.                               *)
MayBecomeWithEarlyFinish ==
  [created   |-> {"created", "assigned", "cancelled", "failed"},
   assigned  |-> {"assigned", "planning", "cancelled", "failed"},
   planning  |-> Active \cup {"cancelled", "failed"},
   running   |-> {"planning", "running", "waiting"} \cup Terminal,
   waiting   |-> {"planning", "running", "waiting"} \cup Terminal,
   completed |-> {"completed"},
   cancelled |-> {"cancelled"},
   failed    |-> {"failed"}]

(* kTransitions: only the diagonal leaves a terminal status.               *)
MayBecome ==
  [created   |-> {"created", "assigned", "cancelled", "failed"},
   assigned  |-> {"assigned", "planning", "cancelled", "failed"},
   planning  |-> Active \cup {"cancelled", "failed"},
   running   |-> {"planning", "running", "waiting"} \cup Terminal,
   waiting   |-> {"planning", "running", "waiting", "cancelled", "failed"},
   completed |-> {"completed"},
   cancelled |-> {"cancelled"},
   failed    |-> {"failed"}]

(* A task as the register keeps it.                                        *)
Task == [source       : Node,
         destination  : Node,
         robot        : OrNone(Robot),
         status       : Status,
         priority     : MinTaskPriority..MaxTaskPriority,
         created_at   : Time,
         started_at   : OrNone(Time),
         completed_at : OrNone(Time),
         deadline     : OrNone(Int),
         version      : Nat,
         fresh        : BOOLEAN]  \* observed only: it came without stamps
-----------------------------------------------------------------------------
(* A register is the tasks with the version counter.                       *)
Register == [tasks |-> tasks, version |-> task_version]

(* touch.                                                                  *)
Touched(register, id, task) ==
  LET next == register.version + 1
  IN  [tasks   |-> [i \in DOMAIN register.tasks \cup {id} |->
                      IF i = id THEN [task EXCEPT !.version = next]
                                ELSE register.tasks[i]],
       version |-> next]

Becomes(register) ==
  /\ tasks' = register.tasks
  /\ task_version' = register.version

(* Slip: every move to running starts the work.                            *)
WithStatusStampedAgain(task, next, at) ==
  [task EXCEPT
     !.status       = next,
     !.started_at   = IF next = "running" THEN at ELSE @,
     !.completed_at = IF next \in Terminal /\ @ = None THEN at ELSE @]

(* with_status, where the transition is allowed: the first move to running *)
(* starts the work, a terminal status ends it.                             *)
WithStatus(task, next, at) ==
  [task EXCEPT
     !.status       = next,
     !.started_at   = IF next = "running" /\ @ = None THEN at ELSE @,
     !.completed_at = IF next \in Terminal /\ @ = None THEN at ELSE @]

(* Slip: the priority is taken as it comes.                                *)
MayCreateAtAnyPriority(id, task) ==
  /\ id \notin DOMAIN tasks
  /\ task.source # task.destination
  /\ task.status = "created" /\ task.robot = None
  /\ task.deadline # None => task.deadline >= task.created_at

(* validate_new, and a new id.  Nobody looks at the stamps, nor whether    *)
(* created_at has come.                                                    *)
MayCreate(id, task) ==
  /\ id \notin DOMAIN tasks
  /\ task.source # task.destination
  /\ task.status = "created" /\ task.robot = None
  /\ task.priority \in MinTaskPriority..MaxTaskPriority
  /\ task.deadline # None => task.deadline >= task.created_at

(* The record of a task just accepted: kept as the caller built it.        *)
Recorded(task) ==
  [source       |-> task.source,
   destination  |-> task.destination,
   robot        |-> task.robot,
   status       |-> task.status,
   priority     |-> task.priority,
   created_at   |-> task.created_at,
   started_at   |-> task.started_at,
   completed_at |-> task.completed_at,
   deadline     |-> task.deadline,
   version      |-> 0,
   fresh        |-> task.started_at = None /\ task.completed_at = None]

Create(id, task) ==
  /\ MayCreate(id, task)
  /\ Becomes(Touched(Register, id, Recorded(task)))
  /\ UNCHANGED now

(* Only history is forgotten.                                              *)
Remove(id) ==
  /\ id \in DOMAIN tasks
  /\ tasks[id].status \in Terminal
  /\ Becomes([tasks   |-> [i \in DOMAIN tasks \ {id} |-> tasks[i]],
              version |-> task_version + 1])
  /\ UNCHANGED now

MayAssign(register, id) ==
  /\ id \in DOMAIN register.tasks
  /\ "assigned" \in MayBecome[register.tasks[id].status]

(* Slip: giving a task to the robot that has it counts as a change.        *)
AssignedEveryTime(register, id, robot, at) ==
  Touched(register, id,
          [WithStatus(register.tasks[id], "assigned", at) EXCEPT !.robot = robot])

(* assign, where it is allowed: giving a task to the robot that has it     *)
(* already is a repeat.                                                    *)
Assigned(register, id, robot, at) ==
  LET task == [WithStatus(register.tasks[id], "assigned", at) EXCEPT !.robot = robot]
  IN  IF task = register.tasks[id] THEN register ELSE Touched(register, id, task)

Assign(id, robot) ==
  /\ MayAssign(Register, id)
  /\ Becomes(Assigned(Register, id, robot, now))
  /\ UNCHANGED now

(* advance: the one door of the lifecycle.  A repeated report of the       *)
(* status a task is in already is accepted and moves nothing.              *)
Advance(id, next) ==
  /\ id \in DOMAIN tasks
  /\ next \in MayBecome[tasks[id].status]
  /\ Becomes(IF next = tasks[id].status THEN Register
             ELSE Touched(Register, id, WithStatus(tasks[id], next, now)))
  /\ UNCHANGED now

(* set_priority and set_deadline, of a live task, to another value.        *)
SetPriority(id, priority) ==
  /\ id \in DOMAIN tasks
  /\ tasks[id].status \notin Terminal
  /\ priority \in (MinTaskPriority..MaxTaskPriority) \ {tasks[id].priority}
  /\ Becomes(Touched(Register, id, [tasks[id] EXCEPT !.priority = priority]))
  /\ UNCHANGED now

SetDeadline(id, deadline) ==
  /\ id \in DOMAIN tasks
  /\ tasks[id].status \notin Terminal
  /\ deadline # None => deadline >= tasks[id].created_at
  /\ deadline # tasks[id].deadline
  /\ Becomes(Touched(Register, id, [tasks[id] EXCEPT !.deadline = deadline]))
  /\ UNCHANGED now

Tick ==
  /\ \E t \in Time : t > now /\ now' = t
  /\ UNCHANGED <<tasks, task_version>>

NoTasks == [id \in {} |-> None]

Init ==
  /\ tasks = NoTasks
  /\ task_version = 0
  /\ now \in Time

Change ==
  \/ \E id \in TaskId :
       \/ \E task \in Offered : Create(id, task)
       \/ Remove(id)
       \/ \E robot \in Robot : Assign(id, robot)
       \/ \E next \in Status : Advance(id, next)
       \/ \E priority \in Priority : SetPriority(id, priority)
       \/ \E deadline \in OrNone(Deadline) : SetDeadline(id, deadline)

Next ==
  \/ task_version < MaxVersion /\ Change
  \/ Tick

Spec == Init /\ [][Next]_taskVars
-----------------------------------------------------------------------------
(* Correctness.                                                            *)

(* Every variable has its type; no record carries a version the register   *)
(* has not reached.                                                        *)
TypeOK ==
  /\ task_version \in Nat
  /\ DOMAIN tasks \subseteq TaskId
  /\ tasks \in [DOMAIN tasks -> Task]
  /\ \A id \in DOMAIN tasks : tasks[id].version \in 1..task_version
  /\ now \in Time

(* Status and stamps tell the same story (with_status): whatever stamps a  *)
(* task came with, work that runs or is complete has a start and a         *)
(* finished task an end; if it came with none, as make_task builds it,     *)
(* nothing else has an end, no end is earlier than the start, and what is  *)
(* only created has neither.                                               *)
StampsAgree ==
  \A id \in DOMAIN tasks :
    LET task == tasks[id]
    IN  /\ task.status \in {"running", "completed"} => task.started_at # None
        /\ task.status \in Terminal => task.completed_at # None
        /\ task.status = "created" => task.robot = None
        /\ task.fresh =>
             /\ task.completed_at # None => task.status \in Terminal
             /\ task.status = "created" => task.started_at = None
             /\ None \notin {task.started_at, task.completed_at} =>
                  task.started_at <= task.completed_at

(* Work is never lost and never done twice: a live task stays in the       *)
(* register, the start of work is stamped once however often it is held or *)
(* planned again, and a finished task stays as it is until it is removed   *)
(* (docs/24 section 30, TaskRejection::task_still_live).                   *)
WorkIsKept ==
  [][\A id \in DOMAIN tasks :
       /\ tasks[id].status \notin Terminal => id \in DOMAIN tasks'
       /\ id \in DOMAIN tasks' =>
            /\ tasks[id].status \in Terminal => tasks'[id] = tasks[id]
            /\ tasks[id].started_at # None =>
                 tasks'[id].started_at = tasks[id].started_at
    ]_taskVars

(* The register without the versions it carries.                           *)
Content == [id \in DOMAIN tasks |-> [tasks[id] EXCEPT !.version = 0]]

(* No change of a task, or of the set of them, goes unnoticed: what was    *)
(* decided before is seen to be stale; and a call that is counted changed  *)
(* something, so that a call sent again makes nothing stale                *)
(* (TaskManager::touch, assign, advance).                                  *)
VersionMovesWithTasks ==
  [][/\ Content' # Content => task_version' > task_version
     /\ task_version' = task_version + 1 => Content' # Content]_taskVars
=============================================================================
