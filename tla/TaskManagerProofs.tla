------------------------- MODULE TaskManagerProofs -------------------------
(***************************************************************************)
(* Theorems about the task register, for every set of tasks and robots and *)
(* every sequence of calls.                                                *)
(***************************************************************************)
EXTENDS TaskAssignment, FiniteSetFacts

(* What of the transition table the stamps rest on: only running work      *)
(* completes, a finished task goes nowhere, nothing becomes new again.     *)
LEMMA TableFacts ==
  ASSUME NEW s \in Status, NEW t \in MayBecome[s]
  PROVE  /\ t \in Status
         /\ t = "completed" => s \in {"running", "completed"}
         /\ s \in Terminal => t = s
         /\ t = "created" => s = "created"
<1>1. CASE s = "created"    BY <1>1 DEF MayBecome, Status, Terminal
<1>2. CASE s = "assigned"   BY <1>2 DEF MayBecome, Status, Terminal
<1>3. CASE s = "planning"   BY <1>3 DEF MayBecome, Status, Terminal, Active
<1>4. CASE s = "running"    BY <1>4 DEF MayBecome, Status, Terminal
<1>5. CASE s = "waiting"    BY <1>5 DEF MayBecome, Status, Terminal
<1>6. CASE s = "completed"  BY <1>6 DEF MayBecome, Status, Terminal
<1>7. CASE s = "cancelled"  BY <1>7 DEF MayBecome, Status, Terminal
<1>8. CASE s = "failed"     BY <1>8 DEF MayBecome, Status, Terminal
<1>9. QED  BY <1>1, <1>2, <1>3, <1>4, <1>5, <1>6, <1>7, <1>8 DEF Status

(* A task whose stamps agree with its status; of one that came without     *)
(* stamps, none is in the future.                                          *)
WellStamped(task, at) ==
  /\ task.status \in {"running", "completed"} => task.started_at # None
  /\ task.status \in Terminal => task.completed_at # None
  /\ task.status = "created" => task.robot = None
  /\ task.fresh =>
       /\ task.completed_at # None => task.status \in Terminal
       /\ task.status = "created" => task.started_at = None
       /\ task.started_at # None => task.started_at <= at
       /\ None \notin {task.started_at, task.completed_at} =>
            task.started_at <= task.completed_at

(* The inductive invariant.  That no start of a task that came without     *)
(* one lies in the future is what StampsAgree lacks: the end is stamped    *)
(* with the clock.                                                         *)
IInv ==
  /\ TypeOK
  /\ \A id \in DOMAIN tasks : WellStamped(tasks[id], now)

(* with_status: allowed moves keep the stamps right, a start once stamped  *)
(* stays, and everything else of the task is left alone.                   *)
LEMMA StatusMoves ==
  ASSUME NEW task \in Task, NEW at \in Time, WellStamped(task, at),
         NEW next \in MayBecome[task.status], NEW moved,
         moved = WithStatus(task, next, at)
  PROVE  /\ moved \in Task
         /\ moved.status = next
         /\ WellStamped(moved, at)
         /\ task.started_at # None => moved.started_at = task.started_at
         /\ moved.robot = task.robot /\ moved.fresh = task.fresh
         /\ next = task.status => moved = task
<1> DEFINE started == IF next = "running" /\ task.started_at = None
                      THEN at ELSE task.started_at
           ended   == IF next \in Terminal /\ task.completed_at = None
                      THEN at ELSE task.completed_at
           t1 == [task EXCEPT !.status = next]
           t2 == [t1 EXCEPT !.started_at = IF next = "running" /\ @ = None THEN at ELSE @]
           t3 == [t2 EXCEPT !.completed_at =
                               IF next \in Terminal /\ @ = None THEN at ELSE @]
<1>1. /\ next \in Status
      /\ next = "completed" => task.status \in {"running", "completed"}
      /\ task.status \in Terminal => next = task.status
      /\ next = "created" => task.status = "created"
  BY TableFacts DEF Task
<1>2. /\ t1 \in Task /\ t1.status = next
      /\ t1.started_at = task.started_at /\ t1.completed_at = task.completed_at
      /\ t1.robot = task.robot /\ t1.fresh = task.fresh
      /\ next = task.status => t1 = task
  BY <1>1 DEF Task
<1> HIDE DEF t1
<1>3. /\ t2 \in Task /\ t2.status = next
      /\ t2.started_at = started /\ t2.completed_at = task.completed_at
      /\ t2.robot = task.robot /\ t2.fresh = task.fresh
      /\ started = task.started_at => t2 = t1
  BY <1>2 DEF Task, OrNone
<1> HIDE DEF t2
<1>4. /\ t3 \in Task /\ t3.status = next
      /\ t3.started_at = started /\ t3.completed_at = ended
      /\ t3.robot = task.robot /\ t3.fresh = task.fresh
      /\ ended = task.completed_at => t3 = t2
  BY <1>3 DEF Task, OrNone
<1> HIDE DEF t3
<1>5. moved = t3
  BY DEF WithStatus, t1, t2, t3
<1>6. None \notin Time /\ at \in Int /\ at # None
  BY TaskAssumption
<1>7. WellStamped(t3, at)
  <2>1. next \in {"running", "completed"} => started # None
    BY <1>1, <1>6 DEF WellStamped
  <2>2. /\ next \in Terminal => ended # None
        /\ task.fresh /\ ended # None => next \in Terminal
    BY <1>1, <1>6 DEF WellStamped
  <2>3. /\ next = "created" => t3.robot = None
        /\ task.fresh /\ next = "created" => started = None
    BY <1>1, <1>4 DEF WellStamped
  <2>4. task.fresh /\ started # None => started <= at
    BY <1>6 DEF WellStamped
  <2>5. task.fresh /\ None \notin {started, ended} => started <= ended
    <3>0. SUFFICES ASSUME task.fresh, None \notin {started, ended}
                   PROVE  started <= ended
      OBVIOUS
    <3>1. CASE ended = task.completed_at
      <4>1. CASE started = task.started_at  BY <3>0, <3>1, <4>1 DEF WellStamped
      <4>2. CASE started # task.started_at
        BY <3>0, <3>1, <4>2, <1>1 DEF WellStamped, Terminal
      <4>3. QED  BY <4>1, <4>2
    <3>2. CASE ended # task.completed_at
      <4>1. ended = at
        BY <3>2
      <4>2. QED  BY <3>0, <2>4, <4>1
    <3>3. QED  BY <3>1, <3>2
  <2> HIDE DEF started, ended
  <2>6. QED  BY <1>4, <2>1, <2>2, <2>3, <2>4, <2>5 DEF WellStamped
<1>8. next = task.status => started = task.started_at /\ ended = task.completed_at
  BY <1>1 DEF WellStamped
<1>9. task.started_at # None => started = task.started_at
  OBVIOUS
<1> HIDE DEF started, ended
<1>10. QED  BY <1>2, <1>3, <1>4, <1>5, <1>7, <1>8, <1>9

-----------------------------------------------------------------------------
(* What the changes have in common.                                        *)

(* A touched record tells something its old one did not.                   *)
Differs(task, other) == [task EXCEPT !.version = 0] # [other EXCEPT !.version = 0]

(* A record is written: it is well stamped, it was not finished before,    *)
(* its start stays and it is another one.                                  *)
Touching(id, task) ==
  /\ id \in TaskId /\ task \in Task
  /\ Becomes(Touched(Register, id, task)) /\ UNCHANGED now
  /\ WellStamped(task, now)
  /\ id \in DOMAIN tasks =>
       /\ tasks[id].status \notin Terminal
       /\ tasks[id].started_at # None => task.started_at = tasks[id].started_at
       /\ Differs(task, tasks[id])

(* A difference in a field other than the version is one.                  *)
LEMMA FieldsDiffer ==
  ASSUME NEW task \in Task, NEW other \in Task,
         \/ task.status # other.status
         \/ task.robot # other.robot
         \/ task.priority # other.priority
         \/ task.deadline # other.deadline
  PROVE  Differs(task, other)
BY DEF Differs, Task

Given(old, robot, at) == [WithStatus(old, "assigned", at) EXCEPT !.robot = robot]

(* assign: what is given to a robot is well stamped and was not finished,  *)
(* and giving it to the robot that has it changes nothing.                 *)
LEMMA GivenTo ==
  ASSUME NEW old \in Task, NEW at \in Time, WellStamped(old, at),
         "assigned" \in MayBecome[old.status], NEW robot \in Robot,
         NEW task, task = Given(old, robot, at)
  PROVE  /\ task \in Task /\ task.status = "assigned" /\ task.robot = robot
         /\ WellStamped(task, at)
         /\ old.started_at # None => task.started_at = old.started_at
         /\ old.status \notin Terminal
         /\ task # old => Differs(task, old)
<1> DEFINE moved == WithStatus(old, "assigned", at)
<1>1. /\ moved \in Task /\ moved.status = "assigned" /\ WellStamped(moved, at)
      /\ old.started_at # None => moved.started_at = old.started_at
      /\ "assigned" = old.status => moved = old
  BY StatusMoves
<1>2. task = [moved EXCEPT !.robot = robot]
  BY DEF Given
<1> HIDE DEF moved
<1>3. /\ task \in Task /\ task.status = "assigned" /\ task.robot = robot
      /\ task.started_at = moved.started_at /\ task.completed_at = moved.completed_at
      /\ task.fresh = moved.fresh
  BY <1>1, <1>2 DEF Task, OrNone
<1>4. WellStamped(task, at)
  BY <1>1, <1>3 DEF WellStamped
<1>5. old.status \notin Terminal
  BY TableFacts DEF Task, Terminal
<1>6. ASSUME task # old PROVE Differs(task, old)
  <2>1. task.status # old.status \/ task.robot # old.robot
    <3>1. ASSUME task.status = old.status, task.robot = old.robot PROVE task = old
      <4>1. moved = old
        BY <3>1, <1>1, <1>3
      <4>2. QED  BY <3>1, <4>1, <1>2, <1>3 DEF Task
    <3>2. QED  BY <3>1, <1>6
  <2>2. QED  BY <2>1, <1>3, FieldsDiffer
<1>7. QED  BY <1>1, <1>3, <1>4, <1>5, <1>6

(* Every call repeats what is so already, drops a task, or touches one.    *)
LEMMA ChangesTouch ==
  ASSUME IInv, Change
  PROVE  \/ UNCHANGED taskVars
         \/ \E id \in TaskId : Remove(id)
         \/ \E id \in TaskId, task \in Task : Touching(id, task)
<1> DEFINE Goal == \/ UNCHANGED taskVars
                   \/ \E id \in TaskId, task \in Task : Touching(id, task)
<1>0. /\ now \in Time
      /\ \A id \in DOMAIN tasks : tasks[id] \in Task /\ WellStamped(tasks[id], now)
  BY DEF IInv, TypeOK
<1>1. ASSUME NEW id \in TaskId, NEW task \in Offered, Create(id, task) PROVE Goal
  <2> DEFINE new == Recorded(task)
  <2>1. id \notin DOMAIN tasks /\ MayCreate(id, task) /\ task \in Aggregate
    BY <1>1, TaskAssumption DEF Create, MayCreate
  <2>2. new \in Task
    BY <2>1 DEF Recorded, MayCreate, Aggregate, Task
  <2>3. WellStamped(new, now)
    BY <2>1 DEF Recorded, MayCreate, WellStamped, Terminal
  <2>4. Becomes(Touched(Register, id, new)) /\ UNCHANGED now
    BY <1>1 DEF Create
  <2> HIDE DEF new
  <2>5. QED  BY <2>1, <2>2, <2>3, <2>4 DEF Touching
<1>2. ASSUME NEW id \in TaskId, NEW robot \in Robot, Assign(id, robot) PROVE Goal
  <2> DEFINE old  == tasks[id]
             task == Given(old, robot, now)
  <2>1. id \in DOMAIN tasks /\ "assigned" \in MayBecome[old.status]
    BY <1>2 DEF Assign, MayAssign, Register
  <2>2. old \in Task /\ WellStamped(old, now)
    BY <1>0, <2>1
  <2>3. Becomes(IF task = old THEN Register ELSE Touched(Register, id, task)) /\ UNCHANGED now
    BY <1>2 DEF Assign, Assigned, Register, Given
  <2>4. task = Given(old, robot, now)
    OBVIOUS
  <2> HIDE DEF task
  <2>5. /\ task \in Task /\ WellStamped(task, now)
        /\ old.started_at # None => task.started_at = old.started_at
        /\ old.status \notin Terminal
        /\ task # old => Differs(task, old)
    BY <1>0, <2>1, <2>2, <2>4, GivenTo
  <2>6. CASE task = old
    BY <2>3, <2>6 DEF Becomes, Register, taskVars
  <2>7. CASE task # old
    BY <2>1, <2>3, <2>5, <2>7 DEF Touching
  <2>8. QED  BY <2>6, <2>7
<1>3. ASSUME NEW id \in TaskId, NEW next \in Status, Advance(id, next) PROVE Goal
  <2> DEFINE old  == tasks[id]
             task == WithStatus(old, next, now)
  <2>1. id \in DOMAIN tasks /\ next \in MayBecome[old.status]
    BY <1>3 DEF Advance
  <2>2. old \in Task /\ WellStamped(old, now)
    BY <1>0, <2>1
  <2>3. /\ task \in Task /\ task.status = next /\ WellStamped(task, now)
        /\ old.started_at # None => task.started_at = old.started_at
    BY <1>0, <2>1, <2>2, StatusMoves
  <2>4. Becomes(IF next = old.status THEN Register ELSE Touched(Register, id, task))
        /\ UNCHANGED now
    BY <1>3 DEF Advance
  <2> HIDE DEF task
  <2>5. CASE next = old.status
    BY <2>4, <2>5 DEF Becomes, Register, taskVars
  <2>6. CASE next # old.status
    <3>1. Differs(task, old)
      BY <2>2, <2>3, <2>6, FieldsDiffer
    <3>2. old.status \notin Terminal
      BY <2>1, <2>2, <2>6, TableFacts DEF Task
    <3>3. QED  BY <2>1, <2>3, <2>4, <2>6, <3>1, <3>2 DEF Touching
  <2>7. QED  BY <2>5, <2>6
<1>4. ASSUME NEW id \in TaskId, NEW priority \in Priority, SetPriority(id, priority)
      PROVE  Goal
  <2> DEFINE old  == tasks[id]
             task == [old EXCEPT !.priority = priority]
  <2>1. /\ id \in DOMAIN tasks /\ old.status \notin Terminal
        /\ priority \in MinTaskPriority..MaxTaskPriority /\ priority # old.priority
        /\ Becomes(Touched(Register, id, task)) /\ UNCHANGED now
    BY <1>4 DEF SetPriority
  <2>2. old \in Task /\ WellStamped(old, now)
    BY <1>0, <2>1
  <2>3. /\ task \in Task /\ task.priority = priority /\ task.status = old.status
        /\ task.started_at = old.started_at /\ task.completed_at = old.completed_at
        /\ task.robot = old.robot /\ task.fresh = old.fresh
    BY <2>1, <2>2 DEF Task
  <2>4. WellStamped(task, now)
    BY <2>2, <2>3 DEF WellStamped
  <2>5. Differs(task, old)
    BY <2>1, <2>2, <2>3, FieldsDiffer
  <2> HIDE DEF task
  <2>6. QED  BY <2>1, <2>3, <2>4, <2>5 DEF Touching
<1>5. ASSUME NEW id \in TaskId, NEW deadline \in OrNone(Deadline),
             SetDeadline(id, deadline)
      PROVE  Goal
  <2> DEFINE old  == tasks[id]
             task == [old EXCEPT !.deadline = deadline]
  <2>1. /\ id \in DOMAIN tasks /\ old.status \notin Terminal
        /\ deadline # old.deadline /\ deadline \in OrNone(Int)
        /\ Becomes(Touched(Register, id, task)) /\ UNCHANGED now
    BY <1>5, TaskAssumption DEF SetDeadline, OrNone
  <2>2. old \in Task /\ WellStamped(old, now)
    BY <1>0, <2>1
  <2>3. /\ task \in Task /\ task.deadline = deadline /\ task.status = old.status
        /\ task.started_at = old.started_at /\ task.completed_at = old.completed_at
        /\ task.robot = old.robot /\ task.fresh = old.fresh
    BY <2>1, <2>2 DEF Task
  <2>4. WellStamped(task, now)
    BY <2>2, <2>3 DEF WellStamped
  <2>5. Differs(task, old)
    BY <2>1, <2>2, <2>3, FieldsDiffer
  <2> HIDE DEF task
  <2>6. QED  BY <2>1, <2>3, <2>4, <2>5 DEF Touching
<1> HIDE DEF Goal
<1>6. Goal \/ \E id \in TaskId : Remove(id)
  BY <1>1, <1>2, <1>3, <1>4, <1>5 DEF Change
<1>7. QED  BY <1>6 DEF Goal

-----------------------------------------------------------------------------
(* The steps.                                                              *)

(* What touch() writes: one record, at the next version.                   *)
LEMMA TouchEffect ==
  ASSUME IInv, NEW id \in TaskId, NEW task \in Task, Touching(id, task)
  PROVE  /\ task_version \in Nat /\ task_version' = task_version + 1
         /\ DOMAIN tasks' = DOMAIN tasks \cup {id}
         /\ tasks' = [i \in DOMAIN tasks \cup {id} |->
                        IF i = id THEN [task EXCEPT !.version = task_version + 1]
                                  ELSE tasks[i]]
         /\ tasks'[id] = [task EXCEPT !.version = task_version + 1]
         /\ \A i \in DOMAIN tasks' : i # id => i \in DOMAIN tasks /\ tasks'[i] = tasks[i]
<1>1. task_version \in Nat
  BY DEF IInv, TypeOK
<1>2. /\ task_version' = task_version + 1
      /\ tasks' = [i \in DOMAIN tasks \cup {id} |->
                     IF i = id THEN [task EXCEPT !.version = task_version + 1]
                               ELSE tasks[i]]
  BY DEF Touching, Becomes, Touched, Register
<1>3. QED  BY <1>1, <1>2

(* The stamped record is the task but for its version.                     *)
LEMMA Stamped ==
  ASSUME NEW task \in Task, NEW version \in Nat
  PROVE  LET new == [task EXCEPT !.version = version]
         IN  /\ new \in Task /\ new.version = version
             /\ new.status = task.status /\ new.robot = task.robot
             /\ new.started_at = task.started_at
             /\ new.completed_at = task.completed_at /\ new.fresh = task.fresh
             /\ [new EXCEPT !.version = 0] = [task EXCEPT !.version = 0]
BY DEF Task

(* The register starts empty.                                              *)
LEMMA InitIInv == Init => IInv
BY DEF Init, NoTasks, IInv, TypeOK

(* Every step keeps the invariant.                                         *)
LEMMA NextIInv == IInv /\ [Next]_taskVars => IInv'
<1> SUFFICES ASSUME IInv, [Next]_taskVars PROVE IInv'
  OBVIOUS
<1>0. /\ task_version \in Nat /\ now \in Time /\ DOMAIN tasks \subseteq TaskId
      /\ \A id \in DOMAIN tasks :
           tasks[id] \in Task /\ tasks[id].version \in 1..task_version
           /\ WellStamped(tasks[id], now)
  BY DEF IInv, TypeOK
<1>1. CASE UNCHANGED taskVars
  BY <1>1 DEF IInv, TypeOK, taskVars
<1>2. ASSUME NEW id \in TaskId, Remove(id) PROVE IInv'
  <2>1. /\ tasks' = [i \in DOMAIN tasks \ {id} |-> tasks[i]]
        /\ task_version' = task_version + 1 /\ now' = now
    BY <1>2 DEF Remove, Becomes
  <2>2. /\ DOMAIN tasks' = DOMAIN tasks \ {id}
        /\ \A i \in DOMAIN tasks' : i \in DOMAIN tasks /\ tasks'[i] = tasks[i]
    BY <2>1
  <2>3. 1..task_version \subseteq 1..task_version' /\ task_version' \in Nat
    BY <1>0, <2>1
  <2>4. tasks' \in [DOMAIN tasks' -> Task]
    BY <1>0, <2>1, <2>2
  <2>5. QED  BY <1>0, <2>1, <2>2, <2>3, <2>4 DEF IInv, TypeOK
<1>3. ASSUME NEW id \in TaskId, NEW task \in Task, Touching(id, task) PROVE IInv'
  <2> DEFINE new == [task EXCEPT !.version = task_version + 1]
  <2>1. /\ task_version' = task_version + 1
        /\ DOMAIN tasks' = DOMAIN tasks \cup {id}
        /\ tasks' = [i \in DOMAIN tasks \cup {id} |-> IF i = id THEN new ELSE tasks[i]]
        /\ tasks'[id] = new
        /\ \A i \in DOMAIN tasks' : i # id => i \in DOMAIN tasks /\ tasks'[i] = tasks[i]
    BY <1>3, TouchEffect
  <2>2. /\ task_version + 1 \in Nat /\ 1..task_version \subseteq 1..task_version'
        /\ task_version + 1 \in 1..task_version' /\ task_version' \in Nat
    BY <1>0, <2>1
  <2>3. /\ new \in Task /\ new.version = task_version + 1
        /\ new.status = task.status /\ new.robot = task.robot
        /\ new.started_at = task.started_at /\ new.completed_at = task.completed_at
        /\ new.fresh = task.fresh
    BY <2>2, Stamped
  <2> HIDE DEF new
  <2>4. now' = now /\ WellStamped(new, now)
    BY <1>3, <2>3 DEF Touching, WellStamped
  <2>5. \A i \in DOMAIN tasks' :
          tasks'[i] \in Task /\ tasks'[i].version \in 1..task_version'
          /\ WellStamped(tasks'[i], now')
    BY <1>0, <2>1, <2>2, <2>3, <2>4
  <2>6. tasks' \in [DOMAIN tasks' -> Task]
    BY <2>1, <2>5
  <2>7. QED  BY <1>0, <2>1, <2>2, <2>4, <2>5, <2>6 DEF IInv, TypeOK
<1>4. CASE Tick
  <2>1. now' \in Time /\ now' > now /\ tasks' = tasks /\ task_version' = task_version
    BY <1>4 DEF Tick
  <2>2. now \in Int /\ now' \in Int
    BY <1>0, <2>1, TaskAssumption
  <2>3. ASSUME NEW id \in DOMAIN tasks PROVE WellStamped(tasks[id], now')
    <3> DEFINE started == tasks[id].started_at
    <3>1. WellStamped(tasks[id], now) /\ (started # None => started \in Int)
      BY <1>0, TaskAssumption DEF Task, OrNone
    <3>2. tasks[id].fresh /\ started # None => started <= now'
      BY <3>1, <2>1, <2>2 DEF WellStamped
    <3>3. QED  BY <3>1, <3>2 DEF WellStamped
  <2>4. QED  BY <1>0, <2>1, <2>3 DEF IInv, TypeOK
<1>5. QED  BY <1>1, <1>2, <1>3, <1>4, ChangesTouch DEF Next

(* The invariant holds in every state of every run.                        *)
THEOREM InvariantHolds == Spec => []IInv
BY InitIInv, NextIInv, PTL DEF Spec

(* Every variable keeps its type, whatever calls come.                     *)
THEOREM TaskTypeCorrect == Spec => []TypeOK
<1>1. IInv => TypeOK
  BY DEF IInv
<1>2. QED  BY <1>1, InvariantHolds, PTL

(* with_status: no sequence of holds, replans and assignments brings the   *)
(* stamps of a task out of step with its status.                           *)
THEOREM StampsNeverDisagree == Spec => []StampsAgree
<1>1. IInv => StampsAgree
  BY DEF IInv, WellStamped, StampsAgree
<1>2. QED  BY <1>1, InvariantHolds, PTL

(* One step of the register keeps live work and its start.                 *)
LEMMA StepKeepsWork ==
  ASSUME IInv, [Next]_taskVars, NEW id \in DOMAIN tasks
  PROVE  /\ tasks[id].status \notin Terminal => id \in DOMAIN tasks'
         /\ id \in DOMAIN tasks' =>
              /\ tasks[id].status \in Terminal => tasks'[id] = tasks[id]
              /\ tasks[id].started_at # None =>
                   tasks'[id].started_at = tasks[id].started_at
<1>1. CASE tasks' = tasks
  BY <1>1
<1>2. CASE \E other \in TaskId : Remove(other)
  <2> PICK other \in TaskId : Remove(other)
    BY <1>2
  <2>1. /\ tasks' = [i \in DOMAIN tasks \ {other} |-> tasks[i]]
        /\ tasks[other].status \in Terminal
    BY DEF Remove, Becomes
  <2>2. DOMAIN tasks' = DOMAIN tasks \ {other}
        /\ \A i \in DOMAIN tasks' : tasks'[i] = tasks[i]
    BY <2>1
  <2>3. QED  BY <2>1, <2>2
<1>3. CASE \E other \in TaskId, task \in Task : Touching(other, task)
  <2> PICK other \in TaskId, task \in Task : Touching(other, task)
    BY <1>3
  <2>1. /\ task_version \in Nat
        /\ DOMAIN tasks' = DOMAIN tasks \cup {other}
        /\ tasks'[other] = [task EXCEPT !.version = task_version + 1]
        /\ \A i \in DOMAIN tasks' : i # other => tasks'[i] = tasks[i]
    BY TouchEffect
  <2>2. CASE id # other
    BY <2>1, <2>2
  <2>3. CASE id = other
    <3>1. tasks'[id].started_at = task.started_at
      <4>1. task_version + 1 \in Nat
        BY <2>1
      <4>2. [task EXCEPT !.version = task_version + 1].started_at = task.started_at
        BY <4>1, Stamped
      <4>3. QED  BY <4>2, <2>1, <2>3
    <3>2. /\ tasks[id].status \notin Terminal
          /\ tasks[id].started_at # None => task.started_at = tasks[id].started_at
      BY <2>3 DEF Touching
    <3>3. QED  BY <2>1, <3>1, <3>2
  <2>4. QED  BY <2>2, <2>3
<1>4. QED  BY <1>1, <1>2, <1>3, ChangesTouch DEF Next, Tick, taskVars

(* ITaskManager::remove, advance: live work is never lost nor started      *)
(* twice, and what is finished stays as it ended.                          *)
THEOREM WorkIsNeverLost == Spec => WorkIsKept
<1>1. IInv /\ [Next]_taskVars =>
        [\A id \in DOMAIN tasks :
           /\ tasks[id].status \notin Terminal => id \in DOMAIN tasks'
           /\ id \in DOMAIN tasks' =>
                /\ tasks[id].status \in Terminal => tasks'[id] = tasks[id]
                /\ tasks[id].started_at # None =>
                     tasks'[id].started_at = tasks[id].started_at]_taskVars
  BY StepKeepsWork
<1>2. QED  BY <1>1, InvariantHolds, PTL DEF Spec, WorkIsKept

(* One step moves the version by one exactly if it moves the content.      *)
LEMMA StepCounts ==
  ASSUME IInv, [Next]_taskVars
  PROVE  /\ Content' # Content => task_version' > task_version
         /\ task_version' = task_version + 1 => Content' # Content
<1>0. task_version \in Nat
  BY DEF IInv, TypeOK
<1>1. CASE UNCHANGED <<tasks, task_version>>
  <2>1. Content' = Content
    BY <1>1 DEF Content
  <2>2. task_version' # task_version + 1
    BY <1>0, <1>1
  <2>3. QED  BY <2>1, <2>2
<1>2. CASE \E id \in TaskId : Remove(id)
  <2> PICK id \in TaskId : Remove(id)
    BY <1>2
  <2>1. /\ tasks' = [i \in DOMAIN tasks \ {id} |-> tasks[i]]
        /\ id \in DOMAIN tasks /\ task_version' = task_version + 1
    BY DEF Remove, Becomes
  <2>2. id \notin DOMAIN Content' /\ id \in DOMAIN Content
    BY <2>1 DEF Content
  <2>3. QED  BY <1>0, <2>1, <2>2
<1>3. CASE \E id \in TaskId, task \in Task : Touching(id, task)
  <2> PICK id \in TaskId, task \in Task : Touching(id, task)
    BY <1>3
  <2>1. /\ task_version' = task_version + 1
        /\ DOMAIN tasks' = DOMAIN tasks \cup {id}
        /\ tasks'[id] = [task EXCEPT !.version = task_version + 1]
    BY TouchEffect
  <2>2. Content'[id] = [task EXCEPT !.version = 0]
    <3>1. Content'[id] = [tasks'[id] EXCEPT !.version = 0]
      BY <2>1 DEF Content
    <3>2. task_version + 1 \in Nat
      BY <1>0
    <3>3. QED  BY <2>1, <3>1, <3>2, Stamped
  <2>3. CASE id \notin DOMAIN tasks
    <3>1. id \in DOMAIN Content' /\ id \notin DOMAIN Content
      BY <2>1, <2>3 DEF Content
    <3>2. QED  BY <1>0, <2>1, <3>1
  <2>4. CASE id \in DOMAIN tasks
    <3>1. Content[id] = [tasks[id] EXCEPT !.version = 0]
      BY <2>4 DEF Content
    <3>2. Content'[id] # Content[id]
      BY <2>2, <2>4, <3>1 DEF Touching, Differs
    <3>3. Content' # Content
      BY <3>2
    <3>4. QED  BY <1>0, <2>1, <3>3
  <2>5. QED  BY <2>3, <2>4
<1>4. QED  BY <1>1, <1>2, <1>3, ChangesTouch DEF Next, Tick, taskVars

(* TaskManager::touch: every change of a task, or of the set of them,      *)
(* moves the version on, and what is counted is a change.                  *)
THEOREM VersionTellsChange == Spec => VersionMovesWithTasks
<1>1. IInv /\ [Next]_taskVars =>
        [/\ Content' # Content => task_version' > task_version
         /\ task_version' = task_version + 1 => Content' # Content]_taskVars
  BY StepCounts
<1>2. QED  BY <1>1, InvariantHolds, PTL DEF Spec, VersionMovesWithTasks

-----------------------------------------------------------------------------
(* Batches.  apply_assignments folds the proposals into the register: the  *)
(* fold the model's definition comes to.                                   *)
Trial(batch, base) ==
  CHOOSE iter :
    iter = [s \in SUBSET DOMAIN batch |->
              IF s = {} THEN base
              ELSE Tried(iter[s \ {Greatest(s)}], batch[Greatest(s)])]

AfterAll(batch, base) == Seqs!FoldLeft(Tried, base, batch)

LEMMA TrialIsFold ==
  ASSUME NEW batch, NEW base
  PROVE  AfterAll(batch, base) = Trial(batch, base)[DOMAIN batch]
BY DEF AfterAll, Seqs!FoldLeft, Seqs!MapThenFoldSet, Seqs!Max, Trial, Greatest

(* after[i] is what comes of the first i proposals.                        *)
OneByOne(after, n, batch, base, V) ==
  /\ after \in [0..n -> V]
  /\ after[0] = base
  /\ \A i \in 1..n : after[i] = Tried(after[i - 1], batch[i])
  /\ AfterAll(batch, base) = after[n]

StaysIn(V, n, batch) == \A v \in V, i \in 1..n : Tried(v, batch[i]) \in V

(* That fold tries one proposal after the other.                           *)
LEMMA AppliedOneByOne ==
  ASSUME NEW n \in Nat, NEW batch, DOMAIN batch = 1..n, NEW V, NEW base \in V,
         StaysIn(V, n, batch)
  PROVE  \E after : OneByOne(after, n, batch, base, V)
<1> DEFINE step == [x \in V \X (1..n) |-> Tried(x[1], batch[x[2]])]
           iter == Trial(batch, base)
<1>1. step \in [V \X (1..n) -> V]
  BY DEF StaysIn
<1>2. \A v \in V, i \in 1..n : step[<<v, i>>] = Tried(v, batch[i])
  OBVIOUS
<1> HIDE DEF step
<1>3. PICK f : IsFold(f, n, V, base, step)
  BY <1>1, FoldExists
<1>4. f = [s \in SUBSET DOMAIN batch |->
             IF s = {} THEN base
             ELSE Tried(f[s \ {Greatest(s)}], batch[Greatest(s)])]
  <2>1. ASSUME NEW s \in SUBSET (1..n), s # {}
        PROVE  f[s] = Tried(f[s \ {Greatest(s)}], batch[Greatest(s)])
    <3>1. Greatest(s) \in 1..n
      BY <2>1, GreatestOf
    <3>2. f[s \ {Greatest(s)}] \in V
      BY <1>3 DEF IsFold
    <3>3. f[s] = step[<<f[s \ {Greatest(s)}], Greatest(s)>>]
      BY <1>3, <2>1 DEF IsFold
    <3>4. QED  BY <1>2, <3>1, <3>2, <3>3
  <2>2. f[{}] = base /\ f \in [SUBSET (1..n) -> V]
    BY <1>3 DEF IsFold
  <2>3. QED  BY <2>1, <2>2
<1>5. iter = [s \in SUBSET DOMAIN batch |->
                IF s = {} THEN base
                ELSE Tried(iter[s \ {Greatest(s)}], batch[Greatest(s)])]
  BY <1>4 DEF Trial
<1> HIDE DEF iter
<1>6. iter[1..0] = base
  <2>1. 1..0 = {}
    OBVIOUS
  <2>2. QED  BY <1>5, <2>1
<1>7. ASSUME NEW i \in 1..n
      PROVE  iter[1..i] = Tried(iter[1..(i - 1)], batch[i])
  <2>1. 1..i \in SUBSET (1..n) /\ 1..i # {} /\ (1..i) \ {i} = 1..(i - 1)
    <3>1. 1..i \subseteq 1..n /\ i \in 1..i
      OBVIOUS
    <3>2. (1..i) \ {i} = 1..(i - 1)
      OBVIOUS
    <3>3. QED  BY <3>1, <3>2
  <2>2. Greatest(1..i) = i
    <3>1. 1..i \in SUBSET Int /\ i \in 1..i /\ \A x \in 1..i : x <= i
      OBVIOUS
    <3>2. QED  BY <3>1, GreatestIs
  <2>3. iter[1..i] = Tried(iter[(1..i) \ {Greatest(1..i)}], batch[Greatest(1..i)])
    BY <1>5, <2>1
  <2>4. QED  BY <2>1, <2>2, <2>3
<1> DEFINE after == [i \in 0..n |-> iter[1..i]]
           Bad == {i \in 0..n : after[i] \notin V}
<1>8. after[0] = base /\ \A i \in 1..n : after[i] = Tried(after[i - 1], batch[i])
  BY <1>6, <1>7
<1>9. Bad = {}
  <2>1. SUFFICES ASSUME Bad # {} PROVE FALSE
    OBVIOUS
  <2>2. PICK i \in Bad : \A j \in Bad : i <= j
    <3>1. Bad \in SUBSET Nat
      OBVIOUS
    <3> HIDE DEF Bad
    <3>2. QED  BY <2>1, <3>1, LeastNatural
  <2>3. i # 0
    BY <2>2, <1>8
  <2>4. i \in 1..n /\ i - 1 \in 0..n /\ ~(i <= i - 1)
    BY <2>3
  <2>5. after[i - 1] \in V
    BY <2>2, <2>4
  <2>6. after[i] \in V
    BY <1>8, <2>4, <2>5 DEF StaysIn
  <2>7. QED  BY <2>2, <2>6
<1>10. after \in [0..n -> V]
  BY <1>9
<1>11. AfterAll(batch, base) = after[n]
  BY TrialIsFold DEF iter
<1> HIDE DEF after
<1>12. OneByOne(after, n, batch, base, V)
  BY <1>8, <1>10, <1>11 DEF OneByOne
<1>13. QED  BY <1>12

(* A register as the proposals of a batch may find it.                     *)
Registers ==
  {register \in [tasks : UNION {[D -> Task] : D \in SUBSET TaskId}, version : Nat] :
     \A id \in DOMAIN register.tasks : WellStamped(register.tasks[id], now)}

(* What a batch has come to after some of its proposals.                   *)
Progress(proposals) == [register : Registers, refused : Seq(proposals)]

LEMMA Appended ==
  ASSUME NEW T, NEW s \in Seq(T), NEW e \in T
  PROVE  /\ Append(s, e) \in Seq(T)
         /\ Seqs!ToSet(Append(s, e)) = Seqs!ToSet(s) \cup {e}
<1>1. /\ Append(s, e) \in Seq(T) /\ Len(Append(s, e)) = Len(s) + 1 /\ Len(s) \in Nat
      /\ \A i \in 1..Len(s) : Append(s, e)[i] = s[i]
      /\ Append(s, e)[Len(s) + 1] = e
  OBVIOUS
<1>2. DOMAIN s = 1..Len(s) /\ DOMAIN Append(s, e) = 1..(Len(s) + 1)
  BY <1>1
<1>3. ASSUME NEW x \in Seqs!ToSet(Append(s, e)) PROVE x \in Seqs!ToSet(s) \cup {e}
  <2>1. PICK i \in 1..(Len(s) + 1) : x = Append(s, e)[i]
    BY <1>2, <1>3 DEF Seqs!ToSet
  <2>2. i \in 1..Len(s) \/ i = Len(s) + 1
    BY <1>1
  <2>3. QED  BY <1>1, <1>2, <2>1, <2>2 DEF Seqs!ToSet
<1>4. ASSUME NEW x \in Seqs!ToSet(s) \cup {e} PROVE x \in Seqs!ToSet(Append(s, e))
  <2>1. CASE x = e
    <3>1. Len(s) + 1 \in DOMAIN Append(s, e)
      BY <1>1, <1>2
    <3>2. QED  BY <1>1, <2>1, <3>1 DEF Seqs!ToSet
  <2>2. CASE x \in Seqs!ToSet(s)
    <3>1. PICK i \in 1..Len(s) : x = s[i]
      BY <1>2, <2>2 DEF Seqs!ToSet
    <3>2. i \in DOMAIN Append(s, e) /\ Append(s, e)[i] = x
      BY <1>1, <1>2, <3>1
    <3>3. QED  BY <3>2 DEF Seqs!ToSet
  <2>3. QED  BY <1>4, <2>1, <2>2
<1>5. QED  BY <1>1, <1>3, <1>4

(* assign, on any register: one task is given, or nothing is.              *)
LEMMA GivenInRegister ==
  ASSUME now \in Time, NEW register \in Registers, NEW id,
         MayAssign(register, id), NEW robot \in Robot,
         NEW new, new = Assigned(register, id, robot, now)
  PROVE  /\ new \in Registers
         /\ DOMAIN new.tasks = DOMAIN register.tasks
         /\ \A other \in DOMAIN register.tasks :
              other # id => new.tasks[other] = register.tasks[other]
         /\ new.tasks[id].status = "assigned" /\ new.tasks[id].robot = robot
         /\ register.tasks[id].status \notin Terminal
         /\ register.tasks[id].started_at # None =>
              new.tasks[id].started_at = register.tasks[id].started_at
         /\ \/ new = register
            \/ /\ new.version = register.version + 1
               /\ new.tasks[id].version = new.version
               /\ Differs(new.tasks[id], register.tasks[id])
<1> DEFINE old   == register.tasks[id]
           given == Given(old, robot, now)
           D     == DOMAIN register.tasks
<1>1. /\ D \in SUBSET TaskId /\ register.tasks \in [D -> Task]
      /\ register.version \in Nat
      /\ register = [tasks |-> register.tasks, version |-> register.version]
      /\ \A i \in D : register.tasks[i] \in Task /\ WellStamped(register.tasks[i], now)
  BY DEF Registers
<1>2. id \in D /\ old \in Task /\ WellStamped(old, now) /\ "assigned" \in MayBecome[old.status]
  BY <1>1 DEF MayAssign
<1>3. new = IF given = old THEN register ELSE Touched(register, id, given)
  BY DEF Assigned, Given
<1>4. given = Given(old, robot, now)
  OBVIOUS
<1> HIDE DEF given
<1>5. /\ given \in Task /\ given.status = "assigned" /\ given.robot = robot
      /\ WellStamped(given, now)
      /\ old.started_at # None => given.started_at = old.started_at
      /\ old.status \notin Terminal
      /\ given # old => Differs(given, old)
  BY <1>2, <1>4, GivenTo
<1>6. CASE given = old
  BY <1>1, <1>2, <1>3, <1>5, <1>6
<1>7. CASE given # old
  <2> DEFINE next    == register.version + 1
             stamped == [given EXCEPT !.version = next]
  <2>1. next \in Nat
    BY <1>1
  <2>2. /\ stamped \in Task /\ stamped.version = next
        /\ stamped.status = given.status /\ stamped.robot = given.robot
        /\ stamped.started_at = given.started_at
        /\ stamped.completed_at = given.completed_at /\ stamped.fresh = given.fresh
        /\ [stamped EXCEPT !.version = 0] = [given EXCEPT !.version = 0]
    <3> HIDE DEF next
    <3>1. QED  BY <1>5, <2>1, Stamped
  <2>3. new = [tasks   |-> [i \in D |-> IF i = id THEN stamped ELSE register.tasks[i]],
               version |-> next]
    <3>1. D \cup {id} = D
      BY <1>2
    <3>2. QED  BY <1>3, <1>7, <3>1 DEF Touched
  <2> HIDE DEF stamped, next
  <2>4. /\ new.version = next /\ DOMAIN new.tasks = D /\ new.tasks[id] = stamped
        /\ \A i \in D : i # id => new.tasks[i] = register.tasks[i]
    BY <1>2, <2>3
  <2>5. WellStamped(stamped, now) /\ Differs(stamped, old)
    BY <1>5, <1>7, <2>2 DEF WellStamped, Differs
  <2>6. new \in Registers
    <3>1. new.tasks \in [D -> Task]
      BY <1>1, <2>2, <2>3
    <3>2. new \in [tasks : UNION {[E -> Task] : E \in SUBSET TaskId}, version : Nat]
      BY <1>1, <2>1, <2>3, <3>1
    <3>3. \A i \in DOMAIN new.tasks : WellStamped(new.tasks[i], now)
      BY <1>1, <2>4, <2>5
    <3>4. QED  BY <3>2, <3>3 DEF Registers
  <2>7. new.version = register.version + 1
    BY <2>4 DEF next
  <2>8. QED  BY <1>5, <2>2, <2>4, <2>5, <2>6, <2>7
<1>8. QED  BY <1>6, <1>7

(* What the first k proposals of a batch have come to, next to the         *)
(* register they were applied to.  A task that may be given stays so, so   *)
(* all the proposals for one task share a fate.                            *)
Kept(register) ==
  /\ DOMAIN register.tasks = DOMAIN tasks
  /\ \A id \in DOMAIN tasks :
       /\ ~MayAssign(Register, id) => register.tasks[id] = tasks[id]
       /\ MayAssign(Register, id) => MayAssign(register, id)
       /\ tasks[id].started_at # None =>
            register.tasks[id].started_at = tasks[id].started_at
       /\ register.tasks[id].version \in 1..register.version

Counted(register) ==
  /\ register.version >= task_version
  /\ register.version = task_version => register.tasks = tasks
  /\ register.version = task_version + 1 =>
       \E id \in DOMAIN tasks : Differs(register.tasks[id], tasks[id])

Told(batch, k, progress) ==
  /\ \A proposal \in Seqs!ToSet(progress.refused) : ~MayAssign(Register, proposal.task)
  /\ \A i \in 1..k :
       IF MayAssign(Register, batch[i].task)
       THEN (\A j \in 1..k : j > i => batch[j].task # batch[i].task) =>
              LET task == progress.register.tasks[batch[i].task]
              IN  task.status = "assigned" /\ task.robot = batch[i].robot
       ELSE batch[i] \in Seqs!ToSet(progress.refused)

(* One more proposal.                                                      *)
LEMMA OneMore ==
  ASSUME IInv, NEW n \in Nat, NEW batch, NEW k \in 1..n,
         \A i \in 1..n : batch[i].robot \in Robot,
         NEW P, \A i \in 1..n : batch[i] \in P,
         NEW before \in Progress(P), NEW after, after = Tried(before, batch[k]),
         Kept(before.register), Counted(before.register), Told(batch, k - 1, before)
  PROVE  Kept(after.register) /\ Counted(after.register) /\ Told(batch, k, after)
<1> DEFINE proposal == batch[k]
           id       == batch[k].task
           old      == before.register
           new      == Assigned(old, id, proposal.robot, now)
<1>1. /\ old \in Registers /\ before.refused \in Seq(P)
      /\ before = [register |-> old, refused |-> before.refused]
      /\ proposal \in P /\ proposal.robot \in Robot
      /\ now \in Time /\ task_version \in Nat /\ old.version \in Nat
  BY DEF Progress, IInv, TypeOK, Registers
<1>2. DOMAIN tasks = DOMAIN Register.tasks /\ tasks = Register.tasks
  BY DEF Register
<1>3. MayAssign(old, id) <=> MayAssign(Register, id)
  BY <1>2 DEF Kept, MayAssign
<1>4. \A i \in 1..k : i \in 1..(k - 1) \/ i = k
  OBVIOUS
<1>5. CASE ~MayAssign(old, id)
  <2>1. after = [register |-> old, refused |-> Append(before.refused, proposal)]
    BY <1>1, <1>5 DEF Tried
  <2>2. after.register = old
        /\ Seqs!ToSet(after.refused) = Seqs!ToSet(before.refused) \cup {proposal}
    BY <1>1, <2>1, Appended
  <2>3. Told(batch, k, after)
    <3>1. \A p \in Seqs!ToSet(after.refused) : ~MayAssign(Register, p.task)
      BY <1>3, <1>5, <2>2 DEF Told
    <3>2. ASSUME NEW i \in 1..k, ~MayAssign(Register, batch[i].task)
          PROVE  batch[i] \in Seqs!ToSet(after.refused)
      BY <1>4, <2>2, <3>2 DEF Told
    <3>3. ASSUME NEW i \in 1..k, MayAssign(Register, batch[i].task),
                 \A j \in 1..k : j > i => batch[j].task # batch[i].task
          PROVE  LET task == after.register.tasks[batch[i].task]
                 IN  task.status = "assigned" /\ task.robot = batch[i].robot
      <4>1. i \in 1..(k - 1)
        BY <1>3, <1>4, <1>5, <3>3
      <4>2. \A j \in 1..(k - 1) : j > i => batch[j].task # batch[i].task
        BY <3>3
      <4>3. QED  BY <2>2, <3>3, <4>1, <4>2 DEF Told
    <3>4. QED  BY <3>1, <3>2, <3>3 DEF Told
  <2>4. QED  BY <2>2, <2>3
<1>6. CASE MayAssign(old, id)
  <2>1. after.register = new /\ after.refused = before.refused
    BY <1>1, <1>6 DEF Tried
  <2>2. new = Assigned(old, id, proposal.robot, now)
    OBVIOUS
  <2> HIDE DEF new
  <2>3. /\ new \in Registers
        /\ DOMAIN new.tasks = DOMAIN old.tasks
        /\ \A other \in DOMAIN old.tasks : other # id => new.tasks[other] = old.tasks[other]
        /\ new.tasks[id].status = "assigned" /\ new.tasks[id].robot = proposal.robot
        /\ old.tasks[id].started_at # None =>
             new.tasks[id].started_at = old.tasks[id].started_at
        /\ \/ new = old
           \/ /\ new.version = old.version + 1
              /\ new.tasks[id].version = new.version
              /\ Differs(new.tasks[id], old.tasks[id])
    BY <1>1, <1>6, <2>2, GivenInRegister
  <2>4. id \in DOMAIN tasks /\ DOMAIN new.tasks = DOMAIN tasks
    BY <1>3, <1>6, <2>3 DEF MayAssign, Register, Kept
  <2>5. MayAssign(new, id)
    BY <2>3, <2>4 DEF MayAssign, MayBecome
  <2>6. ASSUME NEW other \in DOMAIN tasks
        PROVE  /\ ~MayAssign(Register, other) => new.tasks[other] = tasks[other]
               /\ MayAssign(Register, other) => MayAssign(new, other)
               /\ tasks[other].started_at # None =>
                    new.tasks[other].started_at = tasks[other].started_at
               /\ new.tasks[other].version \in 1..new.version
    <3>1. old.tasks[other].version \in 1..new.version
      BY <1>1, <2>3 DEF Kept
    <3>2. CASE other # id
      <4>1. new.tasks[other] = old.tasks[other]
        BY <2>3, <3>2 DEF Kept
      <4>2. MayAssign(old, other) => MayAssign(new, other)
        BY <4>1, <2>4 DEF MayAssign
      <4>3. QED  BY <3>1, <4>1, <4>2 DEF Kept
    <3>3. CASE other = id
      <4>1. new.tasks[id].version \in 1..new.version
        BY <1>1, <2>3, <3>1, <3>3
      <4>2. tasks[id].started_at # None =>
              new.tasks[id].started_at = tasks[id].started_at
        BY <2>3, <2>4 DEF Kept
      <4>3. QED  BY <1>3, <1>6, <2>5, <3>3, <4>1, <4>2
    <3>4. QED  BY <3>2, <3>3
  <2>7. Kept(new)
    BY <2>4, <2>6 DEF Kept
  <2>8. Counted(new)
    <3>1. CASE new = old
      BY <3>1
    <3>2. CASE new # old
      <4>1. new.version = old.version + 1 /\ Differs(new.tasks[id], old.tasks[id])
        BY <2>3, <3>2
      <4>2. old.version = task_version => old.tasks = tasks
        BY DEF Counted
      <4>3. old.version >= task_version
        BY DEF Counted
      <4>4. new.version > task_version
        BY <1>1, <4>1, <4>3
      <4>5. new.version = task_version + 1 => Differs(new.tasks[id], tasks[id])
        BY <1>1, <4>1, <4>2
      <4>6. QED  BY <1>1, <2>4, <4>1, <4>4, <4>5 DEF Counted
    <3>3. QED  BY <3>1, <3>2
  <2>9. Told(batch, k, after)
    <3>1. \A p \in Seqs!ToSet(after.refused) : ~MayAssign(Register, p.task)
      BY <2>1 DEF Told
    <3>2. ASSUME NEW i \in 1..k, ~MayAssign(Register, batch[i].task)
          PROVE  batch[i] \in Seqs!ToSet(after.refused)
      BY <1>3, <1>4, <1>6, <2>1, <3>2 DEF Told
    <3>3. ASSUME NEW i \in 1..k, MayAssign(Register, batch[i].task),
                 \A j \in 1..k : j > i => batch[j].task # batch[i].task
          PROVE  /\ new.tasks[batch[i].task].status = "assigned"
                 /\ new.tasks[batch[i].task].robot = batch[i].robot
      <4>1. CASE i = k
        BY <2>3, <4>1
      <4>2. CASE i # k
        <5>1. i \in 1..(k - 1) /\ k > i /\ k \in 1..k
          BY <4>2
        <5>2. batch[i].task # id
          BY <3>3, <5>1
        <5>3. /\ old.tasks[batch[i].task].status = "assigned"
              /\ old.tasks[batch[i].task].robot = batch[i].robot
          <6>1. \A j \in 1..(k - 1) : j > i => batch[j].task # batch[i].task
            BY <3>3
          <6>2. QED  BY <3>3, <5>1, <6>1 DEF Told
        <5>4. batch[i].task \in DOMAIN old.tasks
          BY <3>3 DEF MayAssign, Register, Kept
        <5>5. QED  BY <2>3, <5>2, <5>3, <5>4
      <4>3. QED  BY <4>1, <4>2
    <3>4. QED  BY <2>1, <3>1, <3>2, <3>3 DEF Told
  <2>10. QED  BY <2>1, <2>7, <2>8, <2>9
<1>7. QED  BY <1>5, <1>6

(* The whole batch.                                                        *)
LEMMA BatchTold ==
  ASSUME IInv, NEW n \in Nat, NEW batch, DOMAIN batch = 1..n,
         \A i \in 1..n : batch[i].robot \in Robot,
         NEW result,
         result = AfterAll(batch, [register |-> Register, refused |-> << >>])
  PROVE  /\ result.register \in Registers
         /\ Kept(result.register) /\ Counted(result.register)
         /\ Told(batch, n, result)
<1> DEFINE P    == {batch[i] : i \in 1..n}
           V    == Progress(P)
           base == [register |-> Register, refused |-> << >>]
<1>1. Register \in Registers
  <2>1. /\ tasks \in UNION {[D -> Task] : D \in SUBSET TaskId} /\ task_version \in Nat
        /\ \A id \in DOMAIN tasks : WellStamped(tasks[id], now)
    BY DEF IInv, TypeOK
  <2>2. QED  BY <2>1 DEF Registers, Register
<1>2. base \in V
  BY <1>1 DEF Progress
<1>3. ASSUME NEW v \in V, NEW i \in 1..n PROVE Tried(v, batch[i]) \in V
  <2> DEFINE new == Assigned(v.register, batch[i].task, batch[i].robot, now)
  <2>1. /\ v.register \in Registers /\ v.refused \in Seq(P) /\ batch[i] \in P
        /\ v = [register |-> v.register, refused |-> v.refused] /\ now \in Time
    BY DEF Progress, IInv, TypeOK
  <2>2. CASE MayAssign(v.register, batch[i].task)
    <3>1. new \in Registers
      <4>1. new = Assigned(v.register, batch[i].task, batch[i].robot, now)
        OBVIOUS
      <4> HIDE DEF new
      <4>2. QED  BY <2>1, <2>2, <4>1, GivenInRegister
    <3>2. Tried(v, batch[i]) = [register |-> new, refused |-> v.refused]
      BY <2>1, <2>2 DEF Tried
    <3> HIDE DEF new
    <3>3. QED  BY <2>1, <3>1, <3>2 DEF Progress
  <2>3. CASE ~MayAssign(v.register, batch[i].task)
    <3>1. Tried(v, batch[i]) = [register |-> v.register,
                                refused  |-> Append(v.refused, batch[i])]
      BY <2>1, <2>3 DEF Tried
    <3>2. Append(v.refused, batch[i]) \in Seq(P)
      BY <2>1, Appended
    <3>3. QED  BY <2>1, <3>1, <3>2 DEF Progress
  <2>4. QED  BY <2>2, <2>3
<1>4. \A i \in 1..n : batch[i] \in P
  OBVIOUS
<1> HIDE DEF P, base
<1>5. PICK after :
        /\ after \in [0..n -> V]
        /\ after[0] = base
        /\ \A i \in 1..n : after[i] = Tried(after[i - 1], batch[i])
        /\ AfterAll(batch, base) = after[n]
  <2> HIDE DEF V
  <2>1. StaysIn(V, n, batch)
    BY <1>3 DEF StaysIn
  <2>2. PICK after : OneByOne(after, n, batch, base, V)
    BY <1>2, <2>1, AppliedOneByOne
  <2>3. QED  BY <2>2 DEF OneByOne
<1>6. result = after[n]
  BY <1>5 DEF base
<1> DEFINE Fine(k) == /\ Kept(after[k].register) /\ Counted(after[k].register)
                      /\ Told(batch, k, after[k])
           Bad == {k \in 0..n : ~Fine(k)}
<1>7. Fine(0)
  <2>1. after[0].register = Register /\ after[0].refused = << >>
    BY <1>5 DEF base
  <2>2. Kept(Register)
    BY DEF Kept, Register, IInv, TypeOK
  <2>3. Counted(Register)
    BY DEF Counted, Register, IInv, TypeOK
  <2>4. Told(batch, 0, after[0])
    BY <2>1 DEF Told, Seqs!ToSet
  <2>5. QED  BY <2>1, <2>2, <2>3, <2>4
<1>8. ASSUME NEW k \in 1..n, Fine(k - 1) PROVE Fine(k)
  <2> DEFINE before == after[k - 1]
             next   == after[k]
  <2>1. before \in Progress(P) /\ next = Tried(before, batch[k])
    BY <1>5
  <2>2. Kept(before.register) /\ Counted(before.register) /\ Told(batch, k - 1, before)
    BY <1>8
  <2>3. Kept(next.register) /\ Counted(next.register) /\ Told(batch, k, next)
    <3> HIDE DEF before, next
    <3>1. QED  BY <1>4, <2>1, <2>2, OneMore
  <2>4. QED  BY <2>3
<1> HIDE DEF Fine
<1>9. Bad = {}
  <2>1. SUFFICES ASSUME Bad # {} PROVE FALSE
    OBVIOUS
  <2>2. PICK k \in Bad : \A j \in Bad : k <= j
    <3>1. Bad \in SUBSET Nat
      OBVIOUS
    <3> HIDE DEF Bad
    <3>2. QED  BY <2>1, <3>1, LeastNatural
  <2>3. k # 0
    BY <1>7, <2>2
  <2>4. k \in 1..n /\ k - 1 \in 0..n /\ ~(k <= k - 1)
    BY <2>3
  <2>5. Fine(k - 1)
    BY <2>2, <2>4
  <2>6. QED  BY <1>8, <2>2, <2>4, <2>5
<1>10. Fine(n) /\ after[n] \in V
  BY <1>5, <1>9
<1>11. QED  BY <1>6, <1>10 DEF Fine, Progress

-----------------------------------------------------------------------------
(* The register with engines that answer late.                             *)

(* What an engine has answered: proposals that name robots.                *)
Answered(proposals) ==
  \E n \in Nat : /\ DOMAIN proposals = 1..n
               /\ \A i \in 1..n : proposals[i].robot \in Robot

AssignInv ==
  /\ IInv
  /\ answers = [engine \in Engine |-> answers[engine]]
  /\ \A engine \in Engine : Answered(answers[engine])

(* What applying an answer does, for an answer of any length.              *)
LEMMA BatchEffect ==
  ASSUME AssignInv, NEW engine \in Engine, ApplyAssignments(engine)
  PROVE  LET new == [tasks |-> tasks', version |-> task_version']
         IN  /\ new \in Registers /\ Kept(new) /\ Counted(new)
             /\ \E n \in Nat :
                  /\ DOMAIN answers[engine] = 1..n
                  /\ Told(answers[engine], n, [register |-> new, refused |-> refused'])
             /\ now' = now
<1> DEFINE batch  == answers[engine]
           result == AfterAll(batch, [register |-> Register, refused |-> << >>])
           new    == [tasks |-> tasks', version |-> task_version']
<1>1. PICK n \in Nat : DOMAIN batch = 1..n /\ \A i \in 1..n : batch[i].robot \in Robot
  BY DEF AssignInv, Answered
<1>2. /\ result.register \in Registers
      /\ Kept(result.register) /\ Counted(result.register)
      /\ Told(batch, n, result)
  <2>1. result = AfterAll(batch, [register |-> Register, refused |-> << >>])
    OBVIOUS
  <2> HIDE DEF result, batch
  <2>2. QED  BY <1>1, <2>1, BatchTold DEF AssignInv
<1>3. tasks' = result.register.tasks /\ task_version' = result.register.version
      /\ refused' = result.refused /\ now' = now
  BY DEF ApplyAssignments, Becomes, AfterAll
<1> HIDE DEF result
<1>4. result.register = new
  BY <1>2, <1>3 DEF Registers
<1>5. Told(batch, n, [register |-> new, refused |-> refused'])
  BY <1>2, <1>3, <1>4 DEF Told
<1>6. QED  BY <1>1, <1>2, <1>3, <1>4, <1>5

LEMMA BatchKeepsIInv ==
  ASSUME AssignInv, NEW engine \in Engine, ApplyAssignments(engine)
  PROVE  IInv'
<1> DEFINE new == [tasks |-> tasks', version |-> task_version']
<1>1. new \in Registers /\ Kept(new) /\ Counted(new) /\ now' = now
  BY BatchEffect
<1>2. /\ tasks' \in UNION {[D -> Task] : D \in SUBSET TaskId} /\ task_version' \in Nat
      /\ \A id \in DOMAIN tasks' : WellStamped(tasks'[id], now)
  BY <1>1 DEF Registers
<1>3. DOMAIN tasks' \subseteq TaskId /\ tasks' \in [DOMAIN tasks' -> Task]
  BY <1>2
<1>4. \A id \in DOMAIN tasks' : tasks'[id].version \in 1..task_version'
  BY <1>1 DEF Kept
<1>5. now \in Time
  BY DEF AssignInv, IInv, TypeOK
<1>6. QED  BY <1>1, <1>2, <1>3, <1>4, <1>5 DEF IInv, TypeOK

(* Everything but an answer applied is a call of the register or nothing.  *)
LEMMA AssignmentSteps ==
  ASSUME AssignInv, [AssignmentNext]_assignmentVars
  PROVE  [Next]_taskVars \/ \E engine \in Engine : ApplyAssignments(engine)
BY DEF AssignmentNext, Ask, Answer, assignmentVars

LEMMA NextAssignInv == AssignInv /\ [AssignmentNext]_assignmentVars => AssignInv'
<1> SUFFICES ASSUME AssignInv, [AssignmentNext]_assignmentVars PROVE AssignInv'
  OBVIOUS
<1>1. IInv'
  BY AssignmentSteps, NextIInv, BatchKeepsIInv DEF AssignInv
<1>2. CASE UNCHANGED answers
  BY <1>1, <1>2 DEF AssignInv, Answered
<1>3. ASSUME NEW engine \in Engine, Answer(engine) PROVE AssignInv'
  <2>1. PICK proposals \in Seqs!BoundedSeq([task : Seqs!ToSet(requests[engine]), robot : Robot],
                                           MaxProposals) :
          answers' = [answers EXCEPT ![engine] = proposals]
    BY <1>3 DEF Answer
  <2> DEFINE T == Seqs!ToSet(requests[engine])
  <2>2. PICK n \in 0..MaxProposals : proposals \in [1..n -> [task : T, robot : Robot]]
    <3> HIDE DEF T
    <3>1. QED  BY <2>1 DEF Seqs!BoundedSeq, Seqs!SeqOf, T
  <2>3. n \in Nat
    BY <2>2, AssignmentAssumption
  <2>4. Answered(proposals)
    <3> HIDE DEF T
    <3>1. QED  BY <2>2, <2>3 DEF Answered
  <2>5. QED  BY <1>1, <2>1, <2>4 DEF AssignInv, Answered
<1>4. ASSUME NEW engine \in Engine, ApplyAssignments(engine) PROVE AssignInv'
  <2>1. answers' = [answers EXCEPT ![engine] = << >>]
    BY <1>4 DEF ApplyAssignments
  <2>2. Answered(<< >>)
    <3>1. 0 \in Nat /\ DOMAIN << >> = 1..0 /\ \A i \in 1..0 : << >>[i].robot \in Robot
      OBVIOUS
    <3>2. QED  BY <3>1 DEF Answered
  <2>3. QED  BY <1>1, <2>1, <2>2 DEF AssignInv, Answered
<1>5. QED
  BY <1>2, <1>3, <1>4 DEF AssignmentNext, Ask, assignmentVars

LEMMA AssignmentInvariant == AssignmentSpec => []AssignInv
<1>1. AssignmentInit => AssignInv
  <2>1. Answered(<< >>)
    <3>1. 0 \in Nat /\ DOMAIN << >> = 1..0 /\ \A i \in 1..0 : << >>[i].robot \in Robot
      OBVIOUS
    <3>2. QED  BY <3>1 DEF Answered
  <2>2. QED  BY <2>1, InitIInv DEF AssignmentInit, AssignInv
<1>2. QED  BY <1>1, NextAssignInv, PTL DEF AssignmentSpec

(* Types and stamps stay right with answers of any length applied at once. *)
THEOREM BatchesKeepTheRegister == AssignmentSpec => [](TypeOK /\ StampsAgree)
<1>1. AssignInv => TypeOK /\ StampsAgree
  BY DEF AssignInv, IInv, WellStamped, StampsAgree
<1>2. QED  BY <1>1, AssignmentInvariant, PTL

(* A batch keeps live work and its start, and leaves finished tasks alone. *)
LEMMA BatchKeepsWork ==
  ASSUME AssignInv, NEW engine \in Engine, ApplyAssignments(engine),
         NEW id \in DOMAIN tasks
  PROVE  /\ id \in DOMAIN tasks'
         /\ tasks[id].status \in Terminal => tasks'[id] = tasks[id]
         /\ tasks[id].started_at # None => tasks'[id].started_at = tasks[id].started_at
<1> DEFINE new == [tasks |-> tasks', version |-> task_version']
<1>1. Kept(new)
  BY BatchEffect
<1>2. tasks[id] \in Task
  BY DEF AssignInv, IInv, TypeOK
<1>3. tasks[id].status \in Terminal => ~MayAssign(Register, id)
  <2>1. ASSUME tasks[id].status \in Terminal, MayAssign(Register, id) PROVE FALSE
    <3>1. "assigned" \in MayBecome[tasks[id].status] /\ tasks[id].status \in Status
      BY <1>2, <2>1 DEF MayAssign, Register, Task
    <3>2. QED  BY <2>1, <3>1, TableFacts DEF Terminal
  <2>2. QED  BY <2>1
<1>4. QED  BY <1>1, <1>3 DEF Kept

(* A batch that moves the version by one changed a task, and one that      *)
(* changed a task moved the version.                                       *)
LEMMA BatchCounts ==
  ASSUME AssignInv, NEW engine \in Engine, ApplyAssignments(engine)
  PROVE  /\ Content' # Content => task_version' > task_version
         /\ task_version' = task_version + 1 => Content' # Content
<1> DEFINE new == [tasks |-> tasks', version |-> task_version']
<1>1. Kept(new) /\ Counted(new) /\ task_version' \in Nat /\ task_version \in Nat
  BY BatchEffect DEF Registers, AssignInv, IInv, TypeOK
<1>2. Content' # Content => task_version' # task_version
  BY <1>1 DEF Counted, Content
<1>3. ASSUME task_version' = task_version + 1 PROVE Content' # Content
  <2>1. PICK id \in DOMAIN tasks : Differs(tasks'[id], tasks[id])
    BY <1>1, <1>3 DEF Counted
  <2>2. id \in DOMAIN tasks'
    BY <1>1 DEF Kept
  <2>3. /\ Content[id] = [tasks[id] EXCEPT !.version = 0]
        /\ Content'[id] = [tasks'[id] EXCEPT !.version = 0]
    BY <2>1, <2>2 DEF Content
  <2>4. Content'[id] # Content[id]
    BY <2>1, <2>3 DEF Differs
  <2>5. QED  BY <2>4
<1>4. QED  BY <1>1, <1>2, <1>3 DEF Counted

(* An engine that applies its answer learns what became of each task.      *)
LEMMA BatchTells ==
  ASSUME AssignInv, NEW engine \in Engine, ApplyAssignments(engine),
         NEW i \in LastWords(answers[engine])
  PROVE  LET proposal == answers[engine][i]
             id       == proposal.task
         IN  IF proposal \in Seqs!ToSet(refused')
             THEN id \in DOMAIN tasks => id \in DOMAIN tasks' /\ tasks'[id] = tasks[id]
             ELSE tasks'[id].status = "assigned" /\ tasks'[id].robot = proposal.robot
<1> DEFINE new   == [tasks |-> tasks', version |-> task_version']
           batch == answers[engine]
<1>1. PICK n \in Nat :
        DOMAIN batch = 1..n /\ Told(batch, n, [register |-> new, refused |-> refused'])
  BY BatchEffect
<1>2. i \in 1..n /\ \A j \in 1..n : j > i => batch[j].task # batch[i].task
  BY <1>1 DEF LastWords
<1>3. CASE batch[i] \in Seqs!ToSet(refused')
  <2>1. ~MayAssign(Register, batch[i].task)
    BY <1>1, <1>3 DEF Told
  <2>2. Kept(new)
    BY BatchEffect
  <2>3. batch[i].task \in DOMAIN tasks =>
          batch[i].task \in DOMAIN tasks' /\ tasks'[batch[i].task] = tasks[batch[i].task]
    BY <2>1, <2>2 DEF Kept
  <2>4. QED  BY <1>3, <2>3
<1>4. CASE batch[i] \notin Seqs!ToSet(refused')
  <2>1. MayAssign(Register, batch[i].task)
    BY <1>1, <1>2, <1>4 DEF Told
  <2>2. tasks'[batch[i].task].status = "assigned"
        /\ tasks'[batch[i].task].robot = batch[i].robot
    BY <1>1, <1>2, <2>1 DEF Told
  <2>3. QED  BY <1>4, <2>2
<1>5. QED  BY <1>3, <1>4

(* ITaskManager::remove, assign, apply_assignments: live work is never     *)
(* lost nor started twice, whatever engines propose about it and when.     *)
THEOREM BatchesKeepWork == AssignmentSpec => WorkIsKept
<1>1. AssignInv /\ [AssignmentNext]_assignmentVars =>
        [\A id \in DOMAIN tasks :
           /\ tasks[id].status \notin Terminal => id \in DOMAIN tasks'
           /\ id \in DOMAIN tasks' =>
                /\ tasks[id].status \in Terminal => tasks'[id] = tasks[id]
                /\ tasks[id].started_at # None =>
                     tasks'[id].started_at = tasks[id].started_at]_taskVars
  BY AssignmentSteps, StepKeepsWork, BatchKeepsWork DEF AssignInv
<1>2. QED  BY <1>1, AssignmentInvariant, PTL DEF AssignmentSpec, WorkIsKept

(* TaskManager::touch: what a batch changes moves the version on.          *)
THEOREM BatchesAreCounted == AssignmentSpec => VersionMovesWithTasks
<1>1. AssignInv /\ [AssignmentNext]_assignmentVars =>
        [/\ Content' # Content => task_version' > task_version
         /\ task_version' = task_version + 1 => Content' # Content]_taskVars
  BY AssignmentSteps, StepCounts, BatchCounts DEF AssignInv
<1>2. QED  BY <1>1, AssignmentInvariant, PTL DEF AssignmentSpec, VersionMovesWithTasks

(* apply_assignments: whatever happened to the register since it was       *)
(* asked, an engine learns of each proposal what became of it.             *)
THEOREM EnginesLearn == AssignmentSpec => EngineKnows
<1>1. AssignInv /\ [AssignmentNext]_assignmentVars =>
        [\A engine \in Engine : Applied(engine) =>
           \A i \in LastWords(answers[engine]) :
             LET proposal == answers[engine][i]
                 id       == proposal.task
             IN  IF proposal \in Seqs!ToSet(refused')
                 THEN id \in DOMAIN tasks =>
                        id \in DOMAIN tasks' /\ tasks'[id] = tasks[id]
                 ELSE tasks'[id].status = "assigned" /\ tasks'[id].robot = proposal.robot
        ]_assignmentVars
  <2> SUFFICES ASSUME AssignInv, AssignmentNext, NEW engine \in Engine, Applied(engine)
               PROVE  ApplyAssignments(engine)
    BY BatchTells
  <2>1. answers'[engine] # answers[engine] /\ answers'[engine] = << >>
    BY DEF Applied
  <2>2. ASSUME NEW other \in Engine, Answer(other) PROVE FALSE
    <3>1. answers'[other] # << >> /\ (other # engine => answers'[engine] = answers[engine])
      BY <2>2 DEF Answer, AssignInv
    <3>2. QED  BY <2>1, <3>1
  <2>3. ASSUME NEW other \in Engine, ApplyAssignments(other) PROVE other = engine
    BY <2>1, <2>3 DEF ApplyAssignments, AssignInv
  <2>4. QED  BY <2>1, <2>2, <2>3 DEF AssignmentNext, Ask
<1>2. QED  BY <1>1, AssignmentInvariant, PTL DEF AssignmentSpec, EngineKnows
=============================================================================
