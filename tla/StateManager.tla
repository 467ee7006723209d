---------------------------- MODULE StateManager ----------------------------
(***************************************************************************)
(* state::StateManager: the fleet's picture of itself.  It has two doors:  *)
(* apply() takes what a robot says about itself, assign_state() what       *)
(* traffic control decides about it.  One version counter for the whole    *)
(* fleet tells a plan made a moment ago that the fleet has moved.          *)
(*                                                                         *)
(* Calls that are refused change nothing and are not written out. Battery, *)
(* velocity, heading, node and edge of a robot are left out: updates that  *)
(* contradict themselves are refused before anything is looked at.         *)
(***************************************************************************)
EXTENDS RobotState, Integers

CONSTANTS
  Robot, Command, Route, Task,
  Time,             \* instants, the robots' and the controller's
  Position,         \* places along a line
  Hold,             \* reasons to wait, with the resource and since when
  None,             \* std::nullopt
  MinimumProgress,  \* StallPolicy::minimum_progress
  MaxVersion        \* bound on the version counter

ASSUME StateAssumption ==
  /\ Time \subseteq Int
  /\ Position \subseteq Int
  /\ MinimumProgress \in Nat
  /\ MaxVersion \in Nat
  /\ \A S \in {Command, Hold, State, Position} : None \notin S

VARIABLES
  robots,   \* robots_: a record for each registered robot
  version,  \* version_: the fleet's
  plan      \* the picture a planner works from: the fleet and its version

stateVars == <<robots, version, plan>>

OrNone(S) == S \cup {None}

Record == [state                : State,
           waiting              : OrNone(Hold),
           position             : OrNone(Position),
           observed_at          : Time,
           progress             : [position : OrNone(Position), at : Time],
           last_command         : OrNone(Command),
           last_ack             : OrNone(Command),
           route                : OrNone(Route),
           task                 : OrNone(Task),
           controller_timestamp : Time,
           version              : Nat]

Update == [robot     : Robot,
           timestamp : Time,
           position  : Position,
           reported  : OrNone(State),
           ack       : OrNone(Command)]

Registered == DOMAIN robots
-----------------------------------------------------------------------------
(* Slip: the version is the robot's own.                                   *)
TouchOwnCounter(robot, record, at) ==
  /\ version' = version + 1
  /\ robots' = [r \in Registered \cup {robot} |->
                  IF r = robot
                  THEN [record EXCEPT !.version = @ + 1, !.controller_timestamp = at]
                  ELSE robots[r]]

(* Slip: the record is stamped before the counter moves.                   *)
TouchBeforeCounting(robot, record, at) ==
  /\ version' = version + 1
  /\ robots' = [r \in Registered \cup {robot} |->
                  IF r = robot
                  THEN [record EXCEPT !.version = version, !.controller_timestamp = at]
                  ELSE robots[r]]

(* touch: every accepted change takes the next version of the fleet.       *)
Touch(robot, record, at) ==
  /\ version' = version + 1
  /\ robots' = [r \in Registered \cup {robot} |->
                  IF r = robot
                  THEN [record EXCEPT !.version = version + 1,
                                      !.controller_timestamp = at]
                  ELSE robots[r]]

Register(robot, at) ==
  /\ robot \notin Registered
  /\ Touch(robot, [state                |-> "idle",
                   waiting              |-> None,
                   position             |-> None,
                   observed_at          |-> at,
                   progress             |-> [position |-> None, at |-> at],
                   last_command         |-> None,
                   last_ack             |-> None,
                   route                |-> None,
                   task                 |-> None,
                   controller_timestamp |-> at,
                   version              |-> 0], at)
  /\ UNCHANGED plan

Deregister(robot) ==
  /\ robot \in Registered
  /\ version' = version + 1
  /\ robots' = [r \in Registered \ {robot} |-> robots[r]]
  /\ UNCHANGED plan

Distance(p, q) == IF p > q THEN p - q ELSE q - p

(* has_progressed.  A record starts at the origin of the map.              *)
HasProgressed(from, to) ==
  Distance(IF from = None THEN 0 ELSE from, to) >= MinimumProgress

(* Slip: the mark follows every report.                                    *)
ProgressAfterAnyReport(record, update) ==
  [position |-> update.position, at |-> update.timestamp]

(* The mark stays where the robot last got somewhere.                      *)
ProgressAfter(record, update) ==
  IF HasProgressed(record.progress.position, update.position)
  THEN [position |-> update.position, at |-> update.timestamp]
  ELSE record.progress

(* Slip: updates are taken in the order they arrive.                       *)
IsStaleNever(record, update) == FALSE

(* Equal timestamps are accepted, older ones are not.                      *)
IsStale(record, update) == update.timestamp < record.observed_at

Apply(update) ==
  /\ update.robot \in Registered
  /\ update.reported \in OrNone(Reportable)
  /\ LET record == robots[update.robot]
         next   == IF update.reported = None THEN record.state ELSE update.reported
     IN  /\ ~IsStale(record, update)
         /\ IsTransitionAllowed(record.state, next)
         /\ Touch(update.robot,
                  [record EXCEPT
                     !.progress    = ProgressAfter(record, update),
                     !.state       = next,
                     !.position    = update.position,
                     !.observed_at = update.timestamp,
                     !.last_ack    = IF update.ack = None THEN @ ELSE update.ack,
                     !.waiting     = IF next = "waiting" THEN @ ELSE None],
                  update.timestamp)
  /\ UNCHANGED plan

(* assign_state: a wait has its reason, and nothing else has one.          *)
AssignState(robot, state, at, hold) ==
  /\ robot \in Registered
  /\ IsTransitionAllowed(robots[robot].state, state)
  /\ state = "waiting" <=> hold # None
  /\ Touch(robot, [robots[robot] EXCEPT !.state = state,
                                        !.observed_at = at,
                                        !.waiting = hold], at)
  /\ UNCHANGED plan

RecordCommand(robot, command, created_at) ==
  /\ robot \in Registered
  /\ Touch(robot, [robots[robot] EXCEPT !.last_command = command], created_at)
  /\ UNCHANGED plan

AssignRoute(robot, route, at) ==
  /\ robot \in Registered
  /\ Touch(robot, [robots[robot] EXCEPT !.route = route], at)
  /\ UNCHANGED plan

AssignTask(robot, task, at) ==
  /\ robot \in Registered
  /\ Touch(robot, [robots[robot] EXCEPT !.task = task], at)
  /\ UNCHANGED plan

(* Slip: any acknowledgement will do.                                      *)
OutstandingUntilAnyAck(robot) ==
  robots[robot].last_command # None /\ robots[robot].last_ack = None

(* is_command_outstanding.                                                 *)
Outstanding(robot) ==
  /\ robots[robot].last_command # None
  /\ robots[robot].last_ack # robots[robot].last_command

(* A planner takes a picture of the fleet, with the version it shows.      *)
Plan ==
  /\ plan' = [fleet |-> robots, version |-> version]
  /\ UNCHANGED <<robots, version>>
-----------------------------------------------------------------------------
NoRobots == [r \in {} |-> None]

Init ==
  /\ robots = NoRobots
  /\ version = 0
  /\ plan = [fleet |-> robots, version |-> version]

Change ==
  /\ version < MaxVersion
  /\ \/ \E update \in Update : Apply(update)
     \/ \E robot \in Robot :
          \/ Deregister(robot)
          \/ \E at \in Time :
               \/ Register(robot, at)
               \/ \E state \in State, hold \in OrNone(Hold) :
                    AssignState(robot, state, at, hold)
               \/ \E command \in Command : RecordCommand(robot, command, at)
               \/ \E route \in OrNone(Route) : AssignRoute(robot, route, at)
               \/ \E task \in OrNone(Task) : AssignTask(robot, task, at)

Next == Change \/ Plan

Spec == Init /\ [][Next]_stateVars
-----------------------------------------------------------------------------
(* Correctness.                                                            *)

(* Every variable has its type; nothing carries a version the fleet has    *)
(* not reached.                                                            *)
TypeOK ==
  /\ version \in Nat
  /\ Registered \subseteq Robot
  /\ robots \in [Registered -> Record]
  /\ \A robot \in Registered : robots[robot].version \in 1..version
  /\ plan.version \in 0..version

(* A robot has a reason to wait exactly while it waits, through whichever  *)
(* door it came or went (StateManager::apply, assign_state).               *)
ReasonIffWaiting ==
  \A robot \in Registered :
    robots[robot].waiting # None <=> robots[robot].state = "waiting"

(* A plan that still carries the fleet's version still describes it, and a *)
(* robot whose version is no later than the plan's is as the plan saw it,  *)
(* over any number of changes, departures and returns (touch).             *)
PlansGoStale ==
  /\ version = plan.version => robots = plan.fleet
  /\ \A robot \in Registered :
       robots[robot].version <= plan.version =>
         robot \in DOMAIN plan.fleet /\ robots[robot] = plan.fleet[robot]
=============================================================================
