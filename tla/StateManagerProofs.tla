------------------------- MODULE StateManagerProofs -------------------------
(***************************************************************************)
(* Theorems about the state manager, for every fleet and every sequence of *)
(* calls, and about what it shows of robots that report over a network.    *)
(***************************************************************************)
EXTENDS FleetTelemetry, TLAPS

(* What a call leaves of a record that was well formed is well formed.     *)
LEMMA UpdatedRecord ==
  ASSUME NEW record \in Record, NEW update \in Update,
         NEW next \in State
  PROVE  [record EXCEPT
            !.progress    = ProgressAfter(record, update),
            !.state       = next,
            !.position    = update.position,
            !.observed_at = update.timestamp,
            !.last_ack    = IF update.ack = None THEN @ ELSE update.ack,
            !.waiting     = IF next = "waiting" THEN @ ELSE None] \in Record
<1>1. ProgressAfter(record, update) \in [position : OrNone(Position), at : Time]
  BY DEF ProgressAfter, Record, Update, OrNone
<1> DEFINE r1 == [record EXCEPT !.progress = ProgressAfter(record, update)]
           r2 == [r1 EXCEPT !.state = next]
           r3 == [r2 EXCEPT !.position = update.position]
           r4 == [r3 EXCEPT !.observed_at = update.timestamp]
           r5 == [r4 EXCEPT !.last_ack = IF update.ack = None THEN @ ELSE update.ack]
           r6 == [r5 EXCEPT !.waiting = IF next = "waiting" THEN @ ELSE None]
<1>2. r1 \in Record  BY <1>1 DEF Record
<1> HIDE DEF r1
<1>3. r2 \in Record  BY <1>2 DEF Record
<1> HIDE DEF r2
<1>4. r3 \in Record  BY <1>3 DEF Record, Update, OrNone
<1> HIDE DEF r3
<1>5. r4 \in Record  BY <1>4 DEF Record, Update
<1> HIDE DEF r4
<1>6. r5 \in Record  BY <1>5 DEF Record, Update, OrNone
<1> HIDE DEF r5
<1>7. r6 \in Record  BY <1>6 DEF Record, OrNone
<1>8. QED  BY <1>7 DEF r1, r2, r3, r4, r5

(* touch() keeps the types: the record takes a version the fleet reaches.  *)
LEMMA TouchTypes ==
  ASSUME TypeOK, NEW robot \in Robot, NEW record \in Record, NEW at \in Time,
         Touch(robot, record, at), UNCHANGED plan
  PROVE  TypeOK'
<1> DEFINE stamped == [record EXCEPT !.version = version + 1,
                                     !.controller_timestamp = at]
<1>1. version \in Nat /\ version' = version + 1
  BY DEF TypeOK, Touch
<1>2. stamped \in Record /\ stamped.version = version + 1
  <2>1. version + 1 \in Nat
    BY <1>1
  <2>2. QED  BY <2>1 DEF Record
<1> HIDE DEF stamped
<1>3. robots' = [r \in Registered \cup {robot} |->
                   IF r = robot THEN stamped ELSE robots[r]]
  BY DEF Touch, stamped
<1>4. Registered' = Registered \cup {robot}
  BY <1>3 DEF Registered
<1>5. Registered' \subseteq Robot
  BY <1>4 DEF TypeOK
<1>6. \A r \in Registered : robots[r] \in Record /\ robots[r].version \in 1..version
  BY DEF TypeOK
<1>7. \A r \in Registered' :
        /\ robots'[r] = IF r = robot THEN stamped ELSE robots[r]
        /\ r = robot \/ r \in Registered
  BY <1>3, <1>4
<1>8. \A r \in Registered' : robots'[r] \in Record
  BY <1>2, <1>6, <1>7
<1>9. robots' \in [Registered' -> Record]
  BY <1>3, <1>4, <1>8
<1>10. \A r \in Registered' : robots'[r].version \in 1..version'
  <2> SUFFICES ASSUME NEW r \in Registered' PROVE robots'[r].version \in 1..version'
    OBVIOUS
  <2>1. CASE r = robot  BY <2>1, <1>1, <1>2, <1>7
  <2>2. CASE r # robot  BY <2>2, <1>1, <1>6, <1>7
  <2>3. QED  BY <2>1, <2>2
<1>11. plan'.version \in 0..version'
  BY <1>1 DEF TypeOK
<1>12. QED  BY <1>1, <1>5, <1>9, <1>10, <1>11 DEF TypeOK

(* Every change but a departure touches one record.                        *)
Touching(robot, record, at) ==
  /\ robot \in Robot /\ record \in Record /\ at \in Time
  /\ Touch(robot, record, at)
  /\ UNCHANGED plan

(* What the calls have in common: each takes a robot out of the register,  *)
(* or touches one record that has a reason to wait exactly if it waits.    *)
LEMMA ChangesTouch ==
  ASSUME TypeOK, ReasonIffWaiting, Change
  PROVE  \/ \E robot \in Robot : Deregister(robot)
         \/ \E robot \in Robot, record \in Record, at \in Time :
              /\ Touching(robot, record, at)
              /\ record.waiting # None <=> record.state = "waiting"
<1> DEFINE Good(record) == record.waiting # None <=> record.state = "waiting"
<1> DEFINE Goal == \E robot \in Robot, record \in Record, at \in Time :
                     Touching(robot, record, at) /\ Good(record)
<1>0. \A r \in Registered : robots[r] \in Record /\ Good(robots[r]) /\ r \in Robot
  BY DEF TypeOK, ReasonIffWaiting
<1>1. ASSUME NEW update \in Update, Apply(update) PROVE Goal
  <2> DEFINE record == robots[update.robot]
             next   == IF update.reported = None THEN record.state ELSE update.reported
             after  == [record EXCEPT
                          !.progress    = ProgressAfter(record, update),
                          !.state       = next,
                          !.position    = update.position,
                          !.observed_at = update.timestamp,
                          !.last_ack    = IF update.ack = None THEN @ ELSE update.ack,
                          !.waiting     = IF next = "waiting" THEN @ ELSE None]
  <2>1. record \in Record /\ Good(record) /\ update.robot \in Robot
    BY <1>0, <1>1 DEF Apply
  <2>2. update.reported # None => update.reported \in Reportable
    BY <1>1 DEF Apply, OrNone
  <2>3. next \in State
    BY <2>1, <2>2 DEF Record, Reportable
  <2>4. after \in Record
    <3> HIDE DEF next
    <3>1. QED  BY <2>1, <2>3, UpdatedRecord
  <2>5. next = "waiting" => record.state = "waiting"
    BY <2>2 DEF Reportable
  <2>6. after.state = next /\ after.waiting = IF next = "waiting" THEN record.waiting ELSE None
    BY <2>1 DEF Record
  <2>7. Good(after)
    BY <2>1, <2>5, <2>6
  <2>8. update.timestamp \in Time
    BY DEF Update
  <2>9. Touch(update.robot, after, update.timestamp) /\ UNCHANGED plan
    BY <1>1 DEF Apply
  <2>10. QED  BY <2>1, <2>4, <2>7, <2>8, <2>9 DEF Touching
<1>2. ASSUME NEW robot \in Robot, NEW at \in Time, Register(robot, at) PROVE Goal
  <2> DEFINE fresh == [state                |-> "idle",
                       waiting              |-> None,
                       position             |-> None,
                       observed_at          |-> at,
                       progress             |-> [position |-> None, at |-> at],
                       last_command         |-> None,
                       last_ack             |-> None,
                       route                |-> None,
                       task                 |-> None,
                       controller_timestamp |-> at,
                       version              |-> 0]
  <2>1. fresh \in Record
    BY DEF Record, OrNone, State
  <2>2. Good(fresh)
    OBVIOUS
  <2>3. Touch(robot, fresh, at) /\ UNCHANGED plan
    BY <1>2 DEF Register
  <2>4. QED  BY <2>1, <2>2, <2>3 DEF Touching
<1>3. ASSUME NEW robot \in Robot, NEW at \in Time, NEW state \in State,
             NEW hold \in OrNone(Hold), AssignState(robot, state, at, hold)
      PROVE  Goal
  <2> DEFINE after == [robots[robot] EXCEPT !.state = state,
                                            !.observed_at = at,
                                            !.waiting = hold]
  <2>1. robots[robot] \in Record
    BY <1>0, <1>3 DEF AssignState
  <2>2. after \in Record /\ after.state = state /\ after.waiting = hold
    BY <2>1 DEF Record
  <2>3. Good(after)
    BY <1>3, <2>2 DEF AssignState
  <2>4. Touch(robot, after, at) /\ UNCHANGED plan
    BY <1>3 DEF AssignState
  <2>5. QED  BY <2>2, <2>3, <2>4 DEF Touching
<1>4. ASSUME NEW robot \in Robot, NEW at \in Time, NEW command \in Command,
             RecordCommand(robot, command, at)
      PROVE  Goal
  <2> DEFINE after == [robots[robot] EXCEPT !.last_command = command]
  <2>1. robots[robot] \in Record /\ Good(robots[robot])
    BY <1>0, <1>4 DEF RecordCommand
  <2>2. after \in Record /\ Good(after)
    BY <2>1 DEF Record, OrNone
  <2>3. Touch(robot, after, at) /\ UNCHANGED plan
    BY <1>4 DEF RecordCommand
  <2>4. QED  BY <2>2, <2>3 DEF Touching
<1>5. ASSUME NEW robot \in Robot, NEW at \in Time, NEW route \in OrNone(Route),
             AssignRoute(robot, route, at)
      PROVE  Goal
  <2> DEFINE after == [robots[robot] EXCEPT !.route = route]
  <2>1. robots[robot] \in Record /\ Good(robots[robot])
    BY <1>0, <1>5 DEF AssignRoute
  <2>2. after \in Record /\ Good(after)
    BY <2>1 DEF Record
  <2>3. Touch(robot, after, at) /\ UNCHANGED plan
    BY <1>5 DEF AssignRoute
  <2>4. QED  BY <2>2, <2>3 DEF Touching
<1>6. ASSUME NEW robot \in Robot, NEW at \in Time, NEW task \in OrNone(Task),
             AssignTask(robot, task, at)
      PROVE  Goal
  <2> DEFINE after == [robots[robot] EXCEPT !.task = task]
  <2>1. robots[robot] \in Record /\ Good(robots[robot])
    BY <1>0, <1>6 DEF AssignTask
  <2>2. after \in Record /\ Good(after)
    BY <2>1 DEF Record
  <2>3. Touch(robot, after, at) /\ UNCHANGED plan
    BY <1>6 DEF AssignTask
  <2>4. QED  BY <2>2, <2>3 DEF Touching
<1> HIDE DEF Goal
<1>7. Goal \/ \E robot \in Robot : Deregister(robot)
  BY <1>1, <1>2, <1>3, <1>4, <1>5, <1>6 DEF Change
<1>8. QED  BY <1>7 DEF Goal

-----------------------------------------------------------------------------
(* The inductive invariant: the three properties carry each other.  A plan *)
(* is told from the fleet by its version only because no record is ahead   *)
(* of the fleet, which is the last part of TypeOK.                         *)
IInv == TypeOK /\ ReasonIffWaiting /\ PlansGoStale

(* The empty register satisfies it.                                        *)
LEMMA InitIInv == Init => IInv
<1> SUFFICES ASSUME Init PROVE IInv
  OBVIOUS
<1>1. Registered = {} /\ version = 0 /\ plan.version = 0 /\ plan.fleet = robots
  BY DEF Init, NoRobots, Registered
<1>2. robots \in [Registered -> Record]
  BY <1>1 DEF Init, NoRobots, Registered
<1>3. QED  BY <1>1, <1>2 DEF IInv, TypeOK, ReasonIffWaiting, PlansGoStale

(* A departure changes the version, and no record that stays.              *)
LEMMA DepartureKeepsIInv ==
  ASSUME IInv, NEW robot \in Robot, Deregister(robot)
  PROVE  IInv'
<1>1. /\ version \in Nat /\ version' = version + 1 /\ plan' = plan
      /\ plan.version \in 0..version
  BY DEF IInv, TypeOK, Deregister
<1>2. robots' = [r \in Registered \ {robot} |-> robots[r]]
  BY DEF Deregister
<1>3. /\ Registered' = Registered \ {robot}
      /\ \A r \in Registered' : r \in Registered /\ robots'[r] = robots[r]
  BY <1>2 DEF Registered
<1>4. \A r \in Registered : robots[r] \in Record /\ robots[r].version \in 1..version
  BY DEF IInv, TypeOK
<1>5. robots' \in [Registered' -> Record]
  BY <1>2, <1>3, <1>4
<1>6. \A r \in Registered' : robots'[r].version \in 1..version'
  <2>1. 1..version \subseteq 1..version'
    BY <1>1
  <2>2. QED  BY <2>1, <1>3, <1>4
<1>7. TypeOK'
  BY <1>1, <1>3, <1>5, <1>6 DEF IInv, TypeOK
<1>8. ReasonIffWaiting'
  BY <1>3 DEF IInv, ReasonIffWaiting
<1>9. version' # plan'.version
  BY <1>1
<1>10. PlansGoStale'
  BY <1>1, <1>3, <1>9 DEF IInv, PlansGoStale
<1>11. QED  BY <1>7, <1>8, <1>10 DEF IInv

(* A touch puts one record ahead of every plan, and leaves the others.     *)
LEMMA TouchKeepsIInv ==
  ASSUME IInv, NEW robot \in Robot, NEW record \in Record, NEW at \in Time,
         Touching(robot, record, at),
         record.waiting # None <=> record.state = "waiting"
  PROVE  IInv'
<1> DEFINE stamped == [record EXCEPT !.version = version + 1,
                                     !.controller_timestamp = at]
<1>1. /\ version \in Nat /\ version' = version + 1 /\ plan' = plan
      /\ plan.version \in 0..version
  BY DEF IInv, TypeOK, Touching, Touch
<1>2. /\ stamped.version = version + 1
      /\ stamped.state = record.state
      /\ stamped.waiting = record.waiting
  BY <1>1 DEF Record
<1>3. TypeOK'
  BY TouchTypes DEF IInv, Touching
<1>4. robots' = [r \in Registered \cup {robot} |->
                   IF r = robot THEN stamped ELSE robots[r]]
  BY DEF Touching, Touch
<1> HIDE DEF stamped
<1>5. /\ Registered' = Registered \cup {robot}
      /\ robots'[robot] = stamped
      /\ \A r \in Registered' :
           r # robot => r \in Registered /\ robots'[r] = robots[r]
  BY <1>4 DEF Registered
<1>6. ReasonIffWaiting'
  BY <1>2, <1>5 DEF IInv, ReasonIffWaiting
<1>7. version' # plan'.version /\ ~(stamped.version <= plan'.version)
  BY <1>1, <1>2
<1>8. PlansGoStale'
  <2>1. ASSUME NEW r \in Registered', robots'[r].version <= plan'.version
        PROVE  r \in DOMAIN plan'.fleet /\ robots'[r] = plan'.fleet[r]
    <3>1. r # robot
      BY <2>1, <1>5, <1>7
    <3>2. r \in Registered /\ robots'[r] = robots[r]
      BY <3>1, <1>5
    <3>3. QED  BY <2>1, <3>2, <1>1 DEF IInv, PlansGoStale
  <2>2. QED  BY <2>1, <1>7 DEF PlansGoStale
<1>9. QED  BY <1>3, <1>6, <1>8 DEF IInv

(* Every step keeps it: calls, pictures taken, and stuttering.             *)
LEMMA NextIInv == IInv /\ [Next]_stateVars => IInv'
<1> SUFFICES ASSUME IInv, [Next]_stateVars PROVE IInv'
  OBVIOUS
<1>1. CASE Change
  BY <1>1, ChangesTouch, DepartureKeepsIInv, TouchKeepsIInv DEF IInv
<1>2. CASE Plan
  <2>1. /\ UNCHANGED <<robots, version>>
        /\ plan'.fleet = robots /\ plan'.version = version
    BY <1>2 DEF Plan
  <2>2. version \in Nat
    BY DEF IInv, TypeOK
  <2>3. TypeOK'
    BY <2>1, <2>2 DEF IInv, TypeOK, Registered
  <2>4. ReasonIffWaiting'
    BY <2>1 DEF IInv, ReasonIffWaiting, Registered
  <2>5. PlansGoStale'
    BY <2>1 DEF PlansGoStale, Registered
  <2>6. QED  BY <2>3, <2>4, <2>5 DEF IInv
<1>3. CASE UNCHANGED stateVars
  BY <1>3 DEF IInv, TypeOK, ReasonIffWaiting, PlansGoStale, Registered, stateVars
<1>4. QED  BY <1>1, <1>2, <1>3 DEF Next

(* The invariant holds in every state of every run.                        *)
THEOREM InvariantHolds == Spec => []IInv
BY InitIInv, NextIInv, PTL DEF Spec

(* Every variable keeps its type, whatever calls come.                     *)
THEOREM StateTypeCorrect == Spec => []TypeOK
<1>1. IInv => TypeOK
  BY DEF IInv
<1>2. QED  BY <1>1, InvariantHolds, PTL

(* StateManager::apply and assign_state: a reason exists exactly while a   *)
(* robot waits.                                                            *)
THEOREM WaitsAreExplained == Spec => []ReasonIffWaiting
<1>1. IInv => ReasonIffWaiting
  BY DEF IInv
<1>2. QED  BY <1>1, InvariantHolds, PTL

(* StateManager::touch: a plan that still carries the fleet's version      *)
(* describes the fleet as it is.                                           *)
THEOREM CurrentPlansAreRight == Spec => []PlansGoStale
<1>1. IInv => PlansGoStale
  BY DEF IInv
<1>2. QED  BY <1>1, InvariantHolds, PTL

-----------------------------------------------------------------------------
(* The fleet that reports over a network.  A clock that runs as long as    *)
(* the system does has an instant for every timestamp: Time = Nat does,    *)
(* whatever the skew.                                                      *)
TimestampsFit ==
  /\ 0 \in Time
  /\ \A at \in Time, robot \in Robot : at + Skew[robot] \in Time

FleetTypes ==
  /\ now \in Time
  /\ telemetry \subseteq Update
  /\ orders \subseteq Robot \X Command
  /\ heard \in [Robot -> OrNone(Command)]
  /\ track \in [Robot -> SUBSET (Time \X (Position \cup {0}))]

(* What the controller does is one of the calls the state manager takes.   *)
LEMMA FleetCalls ==
  ASSUME FleetTypes, [FleetNext]_fleetVars
  PROVE  [Next]_stateVars
<1>1. ASSUME version < MaxVersion, Deliver PROVE Change
  <2>1. PICK report \in telemetry : Apply(report)
    BY <1>1 DEF Deliver
  <2>2. report \in Update
    BY DEF FleetTypes
  <2>3. QED  BY <1>1, <2>1, <2>2 DEF Change
<1>2. ASSUME NEW robot \in Robot, version < MaxVersion,
             Enrol(robot) \/ Retire(robot) \/ Decide(robot) \/ Watch(robot)
               \/ Assign(robot) \/ Send(robot)
      PROVE  Change
  <2>1. now \in Time
    BY DEF FleetTypes
  <2>2. CASE Enrol(robot)  BY <1>2, <2>1, <2>2 DEF Enrol, Change
  <2>3. CASE Retire(robot)  BY <1>2, <2>3 DEF Retire, Change
  <2>4. CASE Decide(robot)
    <3>1. PICK decision \in Assigned : AssignState(robot, decision[1], now, decision[2])
      BY <2>4 DEF Decide
    <3>2. decision[1] \in State /\ decision[2] \in OrNone(Hold)
      BY FleetAssumption
    <3>3. QED  BY <1>2, <2>1, <3>1, <3>2 DEF Change
  <2>5. CASE Watch(robot)
    <3>1. Verdict(robot) \in State /\ None \in OrNone(Hold)
      BY DEF Verdict, State, OrNone
    <3>2. AssignState(robot, Verdict(robot), now, None)
      BY <2>5 DEF Watch
    <3>3. QED  BY <1>2, <2>1, <3>1, <3>2 DEF Change
  <2>6. CASE Assign(robot)  BY <1>2, <2>1, <2>6 DEF Assign, Change
  <2>7. CASE Send(robot)
    <3>1. PICK command \in Command : RecordCommand(robot, command, now)
      BY <2>7 DEF Send
    <3>2. QED  BY <1>2, <2>1, <3>1 DEF Change
  <2>8. QED  BY <1>2, <2>2, <2>3, <2>4, <2>5, <2>6, <2>7
<1>3. ASSUME NEW robot \in Robot, Report(robot) \/ Hear(robot)
      PROVE  UNCHANGED stateVars
  BY <1>3 DEF Report, Hear
<1>4. TakePicture => Plan
  BY DEF TakePicture
<1>5. Tick \/ UNCHANGED fleetVars => UNCHANGED stateVars
  BY DEF Tick, fleetVars
<1>6. QED  BY <1>1, <1>2, <1>3, <1>4, <1>5 DEF FleetNext, Next

(* Time goes on, and the network carries what fits its types.              *)
LEMMA FleetKeepsTypes ==
  ASSUME TimestampsFit, IInv, FleetTypes, [FleetNext]_fleetVars
  PROVE  FleetTypes'
<1>0. \A robot \in Robot : track[robot] \subseteq Time \X (Position \cup {0})
  BY DEF FleetTypes
<1>1. ASSUME Deliver PROVE FleetTypes'
  <2>1. PICK report \in telemetry :
          track' = [track EXCEPT ![report.robot] =
                      @ \cup {<<report.timestamp, report.position>>}]
    BY <1>1 DEF Deliver
  <2>2. report \in Update
    BY DEF FleetTypes
  <2>3. <<report.timestamp, report.position>> \in Time \X (Position \cup {0})
    BY <2>2 DEF Update
  <2>4. track' \in [Robot -> SUBSET (Time \X (Position \cup {0}))]
    BY <1>0, <2>1, <2>2, <2>3 DEF FleetTypes, Update
  <2>5. QED  BY <1>1, <2>4 DEF FleetTypes, Deliver
<1>2. ASSUME NEW robot \in Robot, Report(robot) PROVE FleetTypes'
  <2>1. PICK position \in Position, reported \in Reported :
          telemetry' = telemetry \cup {[robot     |-> robot,
                                       timestamp |-> now + Skew[robot],
                                       position  |-> position,
                                       reported  |-> reported,
                                       ack       |-> heard[robot]]}
    BY <1>2 DEF Report
  <2>2. now + Skew[robot] \in Time /\ heard[robot] \in OrNone(Command)
    BY DEF TimestampsFit, FleetTypes
  <2>3. reported \in OrNone(State)
    BY FleetAssumption
  <2>4. [robot     |-> robot,
         timestamp |-> now + Skew[robot],
         position  |-> position,
         reported  |-> reported,
         ack       |-> heard[robot]] \in Update
    BY <2>2, <2>3 DEF Update
  <2>5. telemetry' \subseteq Update
    BY <2>1, <2>4 DEF FleetTypes
  <2>6. QED  BY <1>2, <2>5 DEF FleetTypes, Report
<1>3. ASSUME NEW robot \in Robot, Hear(robot) PROVE FleetTypes'
  <2>1. PICK order \in orders : heard' = [heard EXCEPT ![robot] = order[2]]
    BY <1>3 DEF Hear
  <2>2. order[2] \in OrNone(Command)
    BY DEF FleetTypes, OrNone
  <2>3. heard' \in [Robot -> OrNone(Command)]
    BY <2>1, <2>2 DEF FleetTypes
  <2>4. QED  BY <1>3, <2>3 DEF FleetTypes, Hear
<1>4. ASSUME NEW robot \in Robot, Enrol(robot) PROVE FleetTypes'
  <2>1. {<<now, 0>>} \subseteq Time \X (Position \cup {0})
    BY DEF FleetTypes
  <2>2. track' \in [Robot -> SUBSET (Time \X (Position \cup {0}))]
    BY <1>0, <1>4, <2>1 DEF FleetTypes, Enrol
  <2>3. QED  BY <1>4, <2>2 DEF FleetTypes, Enrol
<1>5. ASSUME NEW robot \in Robot, Retire(robot) PROVE FleetTypes'
  <2>1. track' \in [Robot -> SUBSET (Time \X (Position \cup {0}))]
    BY <1>0, <1>5 DEF FleetTypes, Retire
  <2>2. QED  BY <1>5, <2>1 DEF FleetTypes, Retire
<1>6. ASSUME NEW robot \in Robot, Decide(robot) \/ Watch(robot) \/ Assign(robot)
      PROVE  FleetTypes'
  BY <1>6 DEF FleetTypes, Decide, Watch, Assign
<1>7. ASSUME NEW robot \in Robot, Send(robot) PROVE FleetTypes'
  <2>1. PICK command \in Command : orders' = orders \cup {<<robot, command>>}
    BY <1>7 DEF Send
  <2>2. orders' \subseteq Robot \X Command
    BY <2>1 DEF FleetTypes
  <2>3. QED  BY <1>7, <2>2 DEF FleetTypes, Send
<1>8. ASSUME TakePicture \/ UNCHANGED fleetVars PROVE FleetTypes'
  BY <1>8 DEF FleetTypes, TakePicture, fleetVars
<1>9. ASSUME Tick PROVE FleetTypes'
  BY <1>9 DEF FleetTypes, Tick
<1>10. QED
  BY <1>1, <1>2, <1>3, <1>4, <1>5, <1>6, <1>7, <1>8, <1>9 DEF FleetNext

(* Nothing is on its way when the fleet is empty.                          *)
LEMMA FleetInitTypes == ASSUME TimestampsFit, FleetInit PROVE IInv /\ FleetTypes
<1>1. IInv
  BY InitIInv DEF FleetInit
<1>2. FleetTypes
  BY DEF FleetInit, FleetTypes, TimestampsFit, OrNone
<1>3. QED  BY <1>1, <1>2

FInv == IInv /\ FleetTypes

(* Both invariants are kept by whatever happens to fleet and network.      *)
LEMMA NextFInv == ASSUME TimestampsFit PROVE FInv /\ [FleetNext]_fleetVars => FInv'
BY FleetCalls, FleetKeepsTypes, NextIInv DEF FInv

(* The state manager with reports that are lost, late and repeated is the  *)
(* state manager: what is shown of it above holds of the fleet too.        *)
THEOREM FleetOnlyCalls == ASSUME TimestampsFit PROVE FleetSpec => Spec
<1>1. FleetInit => Init /\ FInv
  BY FleetInitTypes DEF FleetInit, FInv
<1>2. FInv /\ [FleetNext]_fleetVars => FInv' /\ [Next]_stateVars
  BY NextFInv, FleetCalls DEF FInv
<1>3. QED  BY <1>1, <1>2, PTL DEF FleetSpec, Spec

(* Types, reasons to wait and stale plans, with the network in between.    *)
THEOREM FleetIsConsistent ==
  ASSUME TimestampsFit
  PROVE  FleetSpec => [](TypeOK /\ ReasonIffWaiting /\ PlansGoStale)
<1>1. IInv => TypeOK /\ ReasonIffWaiting /\ PlansGoStale
  BY DEF IInv
<1>2. QED  BY <1>1, FleetOnlyCalls, InvariantHolds, PTL

-----------------------------------------------------------------------------
(* What a step of the fleet does to the records.                           *)
OthersStay(robot) ==
  \A r \in Registered : r # robot => r \in Registered' /\ robots'[r] = robots[r]

(* A report is taken in: not older than what is shown.                     *)
TakesIn(report) ==
  /\ report \in telemetry /\ report.robot \in Registered
  /\ Registered' = Registered /\ OthersStay(report.robot)
  /\ ~IsStale(robots[report.robot], report)
  /\ LET record == robots[report.robot]
         after  == robots'[report.robot]
     IN  /\ after.position = report.position
         /\ after.observed_at = report.timestamp
         /\ after.progress = ProgressAfter(record, report)
         /\ after.last_ack = IF report.ack = None THEN record.last_ack ELSE report.ack
  /\ track' = [track EXCEPT ![report.robot] =
                  @ \cup {<<report.timestamp, report.position>>}]
  /\ UNCHANGED <<now, telemetry, heard>>

(* A robot comes: nothing is known of it but that it is there.             *)
Comes(robot) ==
  /\ robot \notin Registered
  /\ Registered' = Registered \cup {robot} /\ OthersStay(robot)
  /\ robots'[robot].position = None
  /\ robots'[robot].observed_at = now
  /\ robots'[robot].progress = [position |-> None, at |-> now]
  /\ robots'[robot].last_ack = None
  /\ track' = [track EXCEPT ![robot] = {<<now, 0>>}]
  /\ UNCHANGED <<now, telemetry, heard>>

Goes(robot) ==
  /\ Registered' = Registered \ {robot} /\ OthersStay(robot)
  /\ track' = [track EXCEPT ![robot] = {}]
  /\ UNCHANGED <<now, telemetry, heard>>

(* Decisions leave alone what the robot said of itself, but for its date.  *)
LeavesAlone ==
  /\ Registered' = Registered
  /\ \A r \in Registered :
       /\ robots'[r].position = robots[r].position
       /\ robots'[r].progress = robots[r].progress
       /\ robots'[r].last_ack = robots[r].last_ack
       /\ robots'[r].observed_at \in {robots[r].observed_at, now}
  /\ UNCHANGED <<now, telemetry, heard, track>>

(* Nothing but the network and the clock moves.                            *)
Outside ==
  /\ UNCHANGED <<robots, track>>
  /\ now' \in {now, now + 1}
  /\ \/ UNCHANGED <<telemetry, heard>>
     \/ \E robot \in Robot : Report(robot) \/ Hear(robot)

(* touch() writes the record it is given, stamped, and leaves the others.  *)
LEMMA TouchWrites ==
  ASSUME NEW robot, NEW record \in Record, NEW at, Touch(robot, record, at)
  PROVE  /\ Registered' = Registered \cup {robot}
         /\ OthersStay(robot)
         /\ robots'[robot].position = record.position
         /\ robots'[robot].observed_at = record.observed_at
         /\ robots'[robot].progress = record.progress
         /\ robots'[robot].last_ack = record.last_ack
<1> DEFINE stamped == [record EXCEPT !.version = version + 1,
                                     !.controller_timestamp = at]
<1>1. /\ stamped.position = record.position
      /\ stamped.observed_at = record.observed_at
      /\ stamped.progress = record.progress
      /\ stamped.last_ack = record.last_ack
  BY DEF Record
<1>2. robots' = [r \in Registered \cup {robot} |->
                   IF r = robot THEN stamped ELSE robots[r]]
  BY DEF Touch
<1> HIDE DEF stamped
<1>3. /\ Registered' = Registered \cup {robot}
      /\ robots'[robot] = stamped
      /\ OthersStay(robot)
  BY <1>2 DEF Registered, OthersStay
<1>4. QED  BY <1>1, <1>3

(* A decision about one robot leaves every robot's own word alone.         *)
LEMMA DecisionLeavesAlone ==
  ASSUME NEW robot \in Registered, NEW record \in Record, NEW at,
         Touch(robot, record, at),
         record.position = robots[robot].position,
         record.progress = robots[robot].progress,
         record.last_ack = robots[robot].last_ack,
         record.observed_at \in {robots[robot].observed_at, now},
         UNCHANGED <<now, telemetry, heard, track>>
  PROVE  LeavesAlone
<1>1. /\ Registered' = Registered
      /\ OthersStay(robot)
      /\ robots'[robot].position = robots[robot].position
      /\ robots'[robot].progress = robots[robot].progress
      /\ robots'[robot].last_ack = robots[robot].last_ack
      /\ robots'[robot].observed_at \in {robots[robot].observed_at, now}
  <2>1. /\ Registered' = Registered \cup {robot}
        /\ OthersStay(robot)
        /\ robots'[robot].position = record.position
        /\ robots'[robot].observed_at = record.observed_at
        /\ robots'[robot].progress = record.progress
        /\ robots'[robot].last_ack = record.last_ack
    BY TouchWrites
  <2>. QED  BY <2>1
<1>2. ASSUME NEW r \in Registered, r # robot
      PROVE  robots'[r] = robots[r]
  BY <1>1, <1>2 DEF OthersStay
<1>3. ASSUME NEW r \in Registered
      PROVE  /\ robots'[r].position = robots[r].position
             /\ robots'[r].progress = robots[r].progress
             /\ robots'[r].last_ack = robots[r].last_ack
             /\ robots'[r].observed_at \in {robots[r].observed_at, now}
  <2>1. CASE r = robot
    BY <1>1, <2>1
  <2>2. CASE r # robot
    BY <1>2, <2>2
  <2>. QED  BY <2>1, <2>2
<1>. QED  BY <1>1, <1>3 DEF LeavesAlone

LEMMA FleetEffects ==
  ASSUME FInv, [FleetNext]_fleetVars
  PROVE  \/ \E report \in telemetry : TakesIn(report)
         \/ \E robot \in Robot : Comes(robot) \/ Goes(robot)
         \/ LeavesAlone
         \/ Outside
<1>0. /\ \A r \in Registered : robots[r] \in Record /\ r \in Robot
      /\ telemetry \subseteq Update
  BY DEF FInv, IInv, TypeOK, FleetTypes
<1>1. ASSUME Deliver PROVE \E report \in telemetry : TakesIn(report)
  <2>1. PICK report \in telemetry :
          /\ Apply(report)
          /\ track' = [track EXCEPT ![report.robot] =
                          @ \cup {<<report.timestamp, report.position>>}]
    BY <1>1 DEF Deliver
  <2> DEFINE record == robots[report.robot]
             next   == IF report.reported = None THEN record.state ELSE report.reported
             after  == [record EXCEPT
                          !.progress    = ProgressAfter(record, report),
                          !.state       = next,
                          !.position    = report.position,
                          !.observed_at = report.timestamp,
                          !.last_ack    = IF report.ack = None THEN @ ELSE report.ack,
                          !.waiting     = IF next = "waiting" THEN @ ELSE None]
  <2>2. report \in Update /\ report.robot \in Registered /\ record \in Record
    BY <1>0, <2>1 DEF Apply
  <2>3. next \in State
    BY <2>1, <2>2 DEF Apply, Record, Reportable, OrNone
  <2>4. after \in Record
    <3> HIDE DEF next
    <3>1. QED  BY <2>2, <2>3, UpdatedRecord
  <2>5. /\ after.position = report.position
        /\ after.observed_at = report.timestamp
        /\ after.progress = ProgressAfter(record, report)
        /\ after.last_ack = IF report.ack = None THEN record.last_ack ELSE report.ack
    BY <2>2 DEF Record
  <2>6. Touch(report.robot, after, report.timestamp) /\ ~IsStale(record, report)
    BY <2>1 DEF Apply
  <2> HIDE DEF after
  <2>7. /\ Registered' = Registered \cup {report.robot}
        /\ OthersStay(report.robot)
        /\ robots'[report.robot].position = after.position
        /\ robots'[report.robot].observed_at = after.observed_at
        /\ robots'[report.robot].progress = after.progress
        /\ robots'[report.robot].last_ack = after.last_ack
    BY <2>4, <2>6, TouchWrites
  <2>8. TakesIn(report)
    BY <1>1, <2>1, <2>2, <2>5, <2>6, <2>7 DEF TakesIn, Deliver
  <2>9. QED  BY <2>8
<1>2. ASSUME NEW robot \in Robot, Enrol(robot) PROVE Comes(robot)
  <2> DEFINE fresh == [state                |-> "idle",
                       waiting              |-> None,
                       position             |-> None,
                       observed_at          |-> now,
                       progress             |-> [position |-> None, at |-> now],
                       last_command         |-> None,
                       last_ack             |-> None,
                       route                |-> None,
                       task                 |-> None,
                       controller_timestamp |-> now,
                       version              |-> 0]
  <2>1. fresh \in Record
    BY DEF Record, OrNone, State, FInv, FleetTypes
  <2>2. Touch(robot, fresh, now) /\ robot \notin Registered
    BY <1>2 DEF Enrol, Register
  <2>3. /\ Registered' = Registered \cup {robot}
        /\ OthersStay(robot)
        /\ robots'[robot].position = fresh.position
        /\ robots'[robot].observed_at = fresh.observed_at
        /\ robots'[robot].progress = fresh.progress
        /\ robots'[robot].last_ack = fresh.last_ack
    <3> HIDE DEF fresh
    <3>1. QED  BY <2>1, <2>2, TouchWrites
  <2>4. QED  BY <1>2, <2>2, <2>3 DEF Enrol, Comes
<1>3. ASSUME NEW robot \in Robot, Retire(robot) PROVE Goes(robot)
  <2>1. robots' = [r \in Registered \ {robot} |-> robots[r]]
    BY <1>3 DEF Retire, Deregister
  <2>2. Registered' = Registered \ {robot} /\ OthersStay(robot)
    BY <2>1 DEF Registered, OthersStay
  <2>3. QED  BY <1>3, <2>2 DEF Retire, Goes
<1>4. ASSUME NEW robot \in Robot, NEW state \in State, NEW hold \in OrNone(Hold),
             AssignState(robot, state, now, hold),
             UNCHANGED <<now, telemetry, orders, heard, track>>
      PROVE  LeavesAlone
  <2> DEFINE after == [robots[robot] EXCEPT !.state = state,
                                            !.observed_at = now,
                                            !.waiting = hold]
  <2>1. robot \in Registered /\ Touch(robot, after, now)
    BY <1>4 DEF AssignState
  <2>2. now \in Time
    BY DEF FInv, FleetTypes
  <2>3. /\ after \in Record
        /\ after.position = robots[robot].position
        /\ after.progress = robots[robot].progress
        /\ after.last_ack = robots[robot].last_ack
        /\ after.observed_at = now
    BY <1>0, <2>1, <2>2 DEF Record
  <2> HIDE DEF after
  <2>4. QED  BY <1>4, <2>1, <2>3, DecisionLeavesAlone
<1>5. ASSUME NEW robot \in Robot, Decide(robot) PROVE LeavesAlone
  <2>1. PICK decision \in Assigned : AssignState(robot, decision[1], now, decision[2])
    BY <1>5 DEF Decide
  <2>2. decision[1] \in State /\ decision[2] \in OrNone(Hold)
    BY FleetAssumption
  <2>3. QED  BY <1>4, <1>5, <2>1, <2>2 DEF Decide
<1>6. ASSUME NEW robot \in Robot, Watch(robot) PROVE LeavesAlone
  <2>1. Verdict(robot) \in State /\ None \in OrNone(Hold)
    BY DEF Verdict, State, OrNone
  <2>2. QED  BY <1>4, <1>6, <2>1 DEF Watch
<1>7. ASSUME NEW robot \in Robot, Assign(robot) PROVE LeavesAlone
  <2>1. CASE \E route \in OrNone(Route) : AssignRoute(robot, route, now)
    <3>1. PICK route \in OrNone(Route) : AssignRoute(robot, route, now)
      BY <2>1
    <3> DEFINE after == [robots[robot] EXCEPT !.route = route]
    <3>2. robot \in Registered /\ Touch(robot, after, now)
      BY <3>1 DEF AssignRoute
    <3>3. /\ after \in Record
          /\ after.position = robots[robot].position
          /\ after.progress = robots[robot].progress
          /\ after.last_ack = robots[robot].last_ack
          /\ after.observed_at = robots[robot].observed_at
      BY <1>0, <3>2 DEF Record
    <3> HIDE DEF after
    <3>4. QED  BY <1>7, <3>2, <3>3, DecisionLeavesAlone DEF Assign
  <2>2. CASE \E task \in OrNone(Task) : AssignTask(robot, task, now)
    <3>1. PICK task \in OrNone(Task) : AssignTask(robot, task, now)
      BY <2>2
    <3> DEFINE after == [robots[robot] EXCEPT !.task = task]
    <3>2. robot \in Registered /\ Touch(robot, after, now)
      BY <3>1 DEF AssignTask
    <3>3. /\ after \in Record
          /\ after.position = robots[robot].position
          /\ after.progress = robots[robot].progress
          /\ after.last_ack = robots[robot].last_ack
          /\ after.observed_at = robots[robot].observed_at
      BY <1>0, <3>2 DEF Record
    <3> HIDE DEF after
    <3>4. QED  BY <1>7, <3>2, <3>3, DecisionLeavesAlone DEF Assign
  <2>3. QED  BY <1>7, <2>1, <2>2 DEF Assign
<1>8. ASSUME NEW robot \in Robot, Send(robot) PROVE LeavesAlone
  <2>1. PICK command \in Command : RecordCommand(robot, command, now)
    BY <1>8 DEF Send
  <2> DEFINE after == [robots[robot] EXCEPT !.last_command = command]
  <2>2. robot \in Registered /\ Touch(robot, after, now)
    BY <2>1 DEF RecordCommand
  <2>3. /\ after \in Record
        /\ after.position = robots[robot].position
        /\ after.progress = robots[robot].progress
        /\ after.last_ack = robots[robot].last_ack
        /\ after.observed_at = robots[robot].observed_at
    BY <1>0, <2>2 DEF Record, OrNone
  <2> HIDE DEF after
  <2>4. QED  BY <1>8, <2>2, <2>3, DecisionLeavesAlone DEF Send
<1>9. ASSUME TakePicture \/ Tick \/ UNCHANGED fleetVars
               \/ \E robot \in Robot : Report(robot) \/ Hear(robot)
      PROVE  Outside
  BY <1>9 DEF Outside, TakePicture, Plan, Tick, Report, Hear, fleetVars, stateVars
<1>10. QED
  BY <1>1, <1>2, <1>3, <1>5, <1>6, <1>7, <1>8, <1>9 DEF FleetNext

-----------------------------------------------------------------------------
(* Acknowledgements.  No report acknowledges what its robot has not heard, *)
(* so no record does, whatever was lost in between.                        *)
Reached(robot, ack) ==
  ack # None => heard[robot] # None /\ heard[robot] >= ack

AcksReached ==
  /\ \A report \in telemetry : Reached(report.robot, report.ack)
  /\ \A robot \in Registered : Reached(robot, robots[robot].last_ack)

LEMMA NextAcksReached ==
  ASSUME TimestampsFit, FInv, AcksReached, [FleetNext]_fleetVars
  PROVE  AcksReached'
<1>0. /\ telemetry \subseteq Update
      /\ heard \in [Robot -> OrNone(Command)]
      /\ \A c \in Command : c \in Int /\ c # None
      /\ \A r \in Registered : r \in Robot /\ robots[r].last_ack \in OrNone(Command)
  BY StateAssumption, FleetAssumption DEF FInv, FleetTypes, IInv, TypeOK, Record
<1>1. ASSUME NEW report \in telemetry, TakesIn(report) PROVE AcksReached'
  BY <1>1 DEF TakesIn, OthersStay, AcksReached, Reached
<1>2. ASSUME NEW robot \in Robot, Comes(robot) PROVE AcksReached'
  BY <1>2 DEF Comes, OthersStay, AcksReached, Reached
<1>3. ASSUME NEW robot \in Robot, Goes(robot) PROVE AcksReached'
  BY <1>3 DEF Goes, OthersStay, AcksReached, Reached
<1>4. ASSUME LeavesAlone PROVE AcksReached'
  BY <1>4 DEF LeavesAlone, AcksReached, Reached
<1>5. ASSUME UNCHANGED <<robots, telemetry, heard>> PROVE AcksReached'
  BY <1>5 DEF AcksReached, Reached, Registered
<1>6. ASSUME NEW robot \in Robot, Report(robot) PROVE AcksReached'
  <2>1. \A report \in telemetry' :
          report \in telemetry \/ (report.robot = robot /\ report.ack = heard[robot])
    BY <1>6 DEF Report
  <2>2. UNCHANGED <<robots, heard>>
    BY <1>6 DEF Report, stateVars
  <2>3. Reached(robot, heard[robot])
    BY <1>0 DEF Reached, OrNone
  <2>4. QED  BY <2>1, <2>2, <2>3 DEF AcksReached, Reached, Registered
<1>7. ASSUME NEW robot \in Robot, Hear(robot) PROVE AcksReached'
  <2>1. PICK order \in orders :
          /\ heard[robot] # None => order[2] > heard[robot]
          /\ heard' = [heard EXCEPT ![robot] = order[2]]
    BY <1>7 DEF Hear
  <2>2. order[2] \in Command
    BY DEF FInv, FleetTypes
  <2>3. ASSUME NEW r \in Robot, NEW ack \in OrNone(Command), Reached(r, ack)
        PROVE  ack # None => heard'[r] # None /\ heard'[r] >= ack
    BY <1>0, <2>1, <2>2, <2>3 DEF Reached, OrNone
  <2>4. UNCHANGED <<robots, telemetry>>
    BY <1>7 DEF Hear, stateVars
  <2>5. \A report \in telemetry : report.robot \in Robot /\ report.ack \in OrNone(Command)
    BY <1>0 DEF Update
  <2>6. QED  BY <1>0, <2>3, <2>4, <2>5 DEF AcksReached, Reached, Registered
<1>8. QED
  BY <1>1, <1>2, <1>3, <1>4, <1>5, <1>6, <1>7, FleetEffects DEF Outside

(* StateManager::is_command_outstanding: a command taken as acknowledged   *)
(* is one its robot has received, whatever was lost, late or repeated, and *)
(* however far the clocks are apart.                                       *)
THEOREM AcknowledgedWasReceived ==
  ASSUME TimestampsFit
  PROVE  FleetSpec => []AcknowledgedIsHeard
<1>1. FleetInit => FInv /\ AcksReached
  <2>1. FleetInit => AcksReached
    BY DEF FleetInit, Init, NoRobots, Registered, AcksReached
  <2>2. QED  BY <2>1, FleetInitTypes DEF FInv
<1>2. FInv /\ AcksReached /\ [FleetNext]_fleetVars => FInv' /\ AcksReached'
  BY NextFInv, NextAcksReached
<1>3. AcksReached => AcknowledgedIsHeard
  BY DEF AcksReached, Reached, AcknowledgedIsHeard, Outstanding
<1>4. QED  BY <1>1, <1>2, <1>3, PTL DEF FleetSpec

-----------------------------------------------------------------------------
(* Robots in step with the controller: none runs ahead of it.  Where one   *)
(* does, a decision dates its record back and older reports are taken in.  *)
InStepFit == 0 \in Time /\ \A robot \in Robot : Skew[robot] = 0

(* Where the progress mark stands: a record starts at the origin.          *)
MarkedPlace(robot) ==
  LET place == robots[robot].progress.position
  IN  IF place = None THEN 0 ELSE place

(* The date of a record is the latest thing known of the robot.            *)
Dated(robot) ==
  /\ robots[robot].observed_at <= now
  /\ \A o \in track[robot] : o[1] <= robots[robot].observed_at

(* The place shown is the last one measured.                               *)
ShowsLast(robot) ==
  \E o \in track[robot] :
    /\ \A other \in track[robot] : other[1] <= o[1]
    /\ robots[robot].position # None => o[2] = robots[robot].position

(* The mark is a place the robot was seen at; it was not seen far from it  *)
(* since, and it did not stand there before.                               *)
Marked(robot) ==
  LET at == robots[robot].progress.at
  IN  /\ <<at, MarkedPlace(robot)>> \in track[robot]
      /\ \A o \in track[robot] :
           o[1] > at => Distance(MarkedPlace(robot), o[2]) < MinimumProgress
      /\ MinimumProgress > 0 =>
           \A o \in track[robot] :
             o[1] < at => \E later \in track[robot] :
                            later[1] >= o[1] /\ later[2] # MarkedPlace(robot)

PictureInv ==
  /\ \A report \in telemetry : report.timestamp <= now
  /\ \A robot \in Registered : Dated(robot) /\ ShowsLast(robot) /\ Marked(robot)

(* What follows of the types, in the form the steps below use.             *)
LEMMA FleetNumbers ==
  ASSUME FInv
  PROVE  /\ now \in Int /\ MinimumProgress \in Int /\ MinimumProgress >= 0
         /\ \A report \in telemetry :
              /\ report.robot \in Robot /\ report.timestamp \in Int
              /\ report.position \in Int /\ report.position # None
         /\ \A robot \in Robot : \A o \in track[robot] :
              o[1] \in Int /\ o[2] \in Int /\ o = <<o[1], o[2]>>
         /\ \A robot \in Registered :
              /\ robot \in Robot
              /\ robots[robot].observed_at \in Int
              /\ robots[robot].progress.at \in Int
              /\ MarkedPlace(robot) \in Int
<1>1. Time \subseteq Int /\ Position \subseteq Int /\ None \notin Position
  BY StateAssumption
<1>2. now \in Int /\ MinimumProgress \in Int /\ MinimumProgress >= 0
  BY <1>1, StateAssumption DEF FInv, FleetTypes
<1>3. \A report \in telemetry :
        /\ report.robot \in Robot /\ report.timestamp \in Int
        /\ report.position \in Int /\ report.position # None
  BY <1>1 DEF FInv, FleetTypes, Update
<1>4. ASSUME NEW robot \in Robot, NEW o \in track[robot]
      PROVE  o[1] \in Int /\ o[2] \in Int /\ o = <<o[1], o[2]>>
  <2>1. o \in Time \X (Position \cup {0})
    BY DEF FInv, FleetTypes
  <2>2. o[1] \in Time /\ o[2] \in Position \cup {0} /\ o = <<o[1], o[2]>>
    BY <2>1
  <2>3. QED  BY <2>2, <1>1
<1>5. ASSUME NEW robot \in Registered
      PROVE  /\ robot \in Robot
             /\ robots[robot].observed_at \in Int
             /\ robots[robot].progress.at \in Int
             /\ MarkedPlace(robot) \in Int
  <2>1. robot \in Robot /\ robots[robot] \in Record
    BY DEF FInv, IInv, TypeOK
  <2>2. /\ robots[robot].observed_at \in Time
        /\ robots[robot].progress \in [position : OrNone(Position), at : Time]
    BY <2>1 DEF Record
  <2>3. /\ robots[robot].progress.at \in Time
        /\ robots[robot].progress.position \in Position \cup {None}
    BY <2>2 DEF OrNone
  <2>4. MarkedPlace(robot) \in Position \cup {0}
    BY <2>3 DEF MarkedPlace
  <2>5. MarkedPlace(robot) \in Int
    <3>1. CASE MarkedPlace(robot) \in Position  BY <3>1, <1>1
    <3>2. CASE MarkedPlace(robot) = 0  BY <3>2
    <3>3. QED  BY <2>4, <3>1, <3>2
  <2>6. QED  BY <2>1, <2>2, <2>3, <2>5, <1>1
<1>6. QED  BY <1>2, <1>3, <1>4, <1>5

(* A robot the step says nothing of stays as it was shown.                 *)
LEMMA UntouchedStays ==
  ASSUME FInv, PictureInv, NEW robot \in Registered, robot \in Registered',
         robots'[robot].position = robots[robot].position,
         robots'[robot].progress = robots[robot].progress,
         robots'[robot].observed_at \in {robots[robot].observed_at, now},
         track'[robot] = track[robot], now' \in {now, now + 1}
  PROVE  (Dated(robot) /\ ShowsLast(robot) /\ Marked(robot))'
<1>0. Dated(robot) /\ ShowsLast(robot) /\ Marked(robot)
  BY DEF PictureInv
<1>1. Dated(robot)'
  BY <1>0, FleetNumbers DEF Dated
<1>2. ShowsLast(robot)'
  BY <1>0 DEF ShowsLast
<1>3. Marked(robot)'
  BY <1>0 DEF Marked, MarkedPlace
<1>4. QED  BY <1>1, <1>2, <1>3

(* A report taken in becomes what is shown, and moves the mark or not.     *)
LEMMA ReportShows ==
  ASSUME FInv, PictureInv, NEW report \in telemetry, TakesIn(report)
  PROVE  (Dated(report.robot) /\ ShowsLast(report.robot) /\ Marked(report.robot))'
<1> DEFINE robot == report.robot
           at    == report.timestamp
           seen  == <<at, report.position>>
           old   == robots[robot].progress
           new   == robots'[robot].progress
<1>0. /\ robot \in Registered /\ robot \in Robot
      /\ Dated(robot) /\ ShowsLast(robot) /\ Marked(robot)
      /\ at \in Int /\ at <= now /\ report.position \in Int /\ report.position # None
  BY FleetNumbers DEF TakesIn, PictureInv
<1>1. /\ track'[robot] = track[robot] \cup {seen}
      /\ robots'[robot].position = report.position
      /\ robots'[robot].observed_at = at
      /\ now' = now
      /\ ~(at < robots[robot].observed_at)
      /\ new = ProgressAfter(robots[robot], report)
  BY <1>0 DEF TakesIn, IsStale, FInv, FleetTypes
<1>2. \A o \in track[robot] : o[1] <= at /\ o[1] \in Int /\ o[2] \in Int
  BY <1>0, <1>1, FleetNumbers DEF Dated
<1>3. Dated(robot)'
  BY <1>0, <1>1, <1>2 DEF Dated
<1>4. ShowsLast(robot)'
  <2>1. /\ seen \in track'[robot] /\ seen[1] = at /\ seen[2] = robots'[robot].position
        /\ \A other \in track'[robot] : other[1] <= seen[1]
    <3>1. \A other \in track'[robot] : other \in track[robot] \/ other[1] = at
      BY <1>1
    <3>2. QED  BY <3>1, <1>0, <1>1, <1>2
  <2>2. QED  BY <2>1 DEF ShowsLast
<1>5. old.at \in Int /\ MarkedPlace(robot) \in Int /\ old.at <= at
      /\ MinimumProgress \in Int /\ MinimumProgress >= 0
  BY <1>0, <1>2, FleetNumbers DEF Marked
<1>6. HasProgressed(old.position, report.position)
        <=> Distance(MarkedPlace(robot), report.position) >= MinimumProgress
  BY DEF HasProgressed, MarkedPlace
<1>7. CASE HasProgressed(old.position, report.position)
  <2>1. new = [position |-> report.position, at |-> at]
    BY <1>1, <1>7 DEF ProgressAfter
  <2>2. MarkedPlace(robot)' = report.position /\ new.at = at
    BY <1>0, <2>1 DEF MarkedPlace
  <2>3. seen \in track'[robot] /\ \A o \in track'[robot] : ~(o[1] > at)
    BY <1>0, <1>1, <1>2
  <2>4. ASSUME MinimumProgress > 0, NEW o \in track'[robot], o[1] < at
        PROVE  \E later \in track'[robot] :
                 later[1] >= o[1] /\ later[2] # report.position
    <3>1. o \in track[robot] /\ o[1] \in Int /\ o[2] \in Int
      BY <1>0, <1>1, <1>2, <2>4
    <3>2. CASE o[1] <= old.at
      <4>1. MarkedPlace(robot) # report.position
        BY <1>0, <1>5, <1>6, <1>7, <2>4 DEF Distance
      <4>2. <<old.at, MarkedPlace(robot)>> \in track'[robot]
        BY <1>0, <1>1 DEF Marked
      <4>3. QED  BY <3>1, <3>2, <4>1, <4>2, <1>5
    <3>3. CASE o[1] > old.at
      <4>1. Distance(MarkedPlace(robot), o[2]) < MinimumProgress
        BY <1>0, <3>1, <3>3 DEF Marked
      <4>2. o[2] # report.position
        BY <1>0, <1>5, <1>6, <1>7, <3>1, <4>1 DEF Distance
      <4>3. QED  BY <3>1, <4>2, <2>4
    <3>4. QED  BY <3>1, <3>2, <3>3, <1>5
  <2>5. Marked(robot)'
    BY <2>1, <2>2, <2>3, <2>4 DEF Marked
  <2>6. QED  BY <1>3, <1>4, <2>5
<1>8. CASE ~HasProgressed(old.position, report.position)
  <2>1. new = old
    BY <1>1, <1>8 DEF ProgressAfter
  <2>2. MarkedPlace(robot)' = MarkedPlace(robot)
    BY <2>1 DEF MarkedPlace
  <2>3. Distance(MarkedPlace(robot), report.position) < MinimumProgress
    BY <1>0, <1>5, <1>6, <1>8 DEF Distance
  <2>4. ~(at < old.at)
    BY <1>0, <1>5
  <2>5. Marked(robot)'
    BY <1>0, <1>1, <2>1, <2>2, <2>3, <2>4 DEF Marked
  <2>6. QED  BY <1>3, <1>4, <2>5
<1>9. QED  BY <1>7, <1>8

LEMMA NextPictureInv ==
  ASSUME InStepFit, FInv, PictureInv, [FleetNext]_fleetVars
  PROVE  PictureInv'
<1> USE DEF PictureInv
<1>0. /\ \A robot \in Registered : robot \in Robot
      /\ now \in Int
      /\ \A report \in telemetry : report.timestamp \in Int /\ report.robot \in Robot
      /\ track = [robot \in Robot |-> track[robot]]
  BY FleetNumbers DEF FInv, FleetTypes
<1>1. ASSUME NEW report \in telemetry, TakesIn(report) PROVE PictureInv'
  <2>1. ASSUME NEW r \in Registered', r # report.robot
        PROVE  (Dated(r) /\ ShowsLast(r) /\ Marked(r))'
    <3>1. /\ r \in Registered /\ robots'[r] = robots[r]
          /\ track'[r] = track[r] /\ now' = now
      BY <1>0, <1>1, <2>1 DEF TakesIn, OthersStay
    <3>2. QED  BY <2>1, <3>1, UntouchedStays
  <2>2. telemetry' = telemetry /\ now' = now
    BY <1>1 DEF TakesIn
  <2>3. QED  BY <1>1, <2>1, <2>2, ReportShows
<1>2. ASSUME NEW robot \in Robot, Comes(robot) PROVE PictureInv'
  <2>1. ASSUME NEW r \in Registered', r # robot
        PROVE  (Dated(r) /\ ShowsLast(r) /\ Marked(r))'
    <3>1. /\ r \in Registered /\ robots'[r] = robots[r]
          /\ track'[r] = track[r] /\ now' = now
      BY <1>0, <1>2, <2>1 DEF Comes, OthersStay
    <3>2. QED  BY <2>1, <3>1, UntouchedStays
  <2>2. /\ track'[robot] = {<<now, 0>>} /\ now' = now /\ telemetry' = telemetry
        /\ robots'[robot].position = None
        /\ robots'[robot].observed_at = now
        /\ robots'[robot].progress = [position |-> None, at |-> now]
    BY <1>0, <1>2 DEF Comes
  <2>3. Dated(robot)' /\ ShowsLast(robot)'
    BY <1>0, <2>2 DEF Dated, ShowsLast
  <2>4. MarkedPlace(robot)' = 0
    BY <2>2 DEF MarkedPlace
  <2>5. Marked(robot)'
    BY <1>0, <2>2, <2>4 DEF Marked
  <2>6. QED  BY <2>1, <2>2, <2>3, <2>5
<1>3. ASSUME NEW robot \in Robot, Goes(robot) PROVE PictureInv'
  <2>1. ASSUME NEW r \in Registered'
        PROVE  (Dated(r) /\ ShowsLast(r) /\ Marked(r))'
    <3>1. /\ r \in Registered /\ robots'[r] = robots[r]
          /\ track'[r] = track[r] /\ now' = now
      BY <1>0, <1>3, <2>1 DEF Goes, OthersStay
    <3>2. QED  BY <2>1, <3>1, UntouchedStays
  <2>2. QED  BY <1>3, <2>1 DEF Goes
<1>4. ASSUME LeavesAlone PROVE PictureInv'
  <2>1. ASSUME NEW r \in Registered'
        PROVE  (Dated(r) /\ ShowsLast(r) /\ Marked(r))'
    BY <1>4, <2>1, UntouchedStays DEF LeavesAlone
  <2>2. QED  BY <1>4, <2>1 DEF LeavesAlone
<1>5. ASSUME Outside PROVE PictureInv'
  <2>1. Registered' = Registered /\ robots' = robots /\ track' = track
        /\ now' \in {now, now + 1}
    BY <1>5 DEF Outside, Registered
  <2>2. ASSUME NEW r \in Registered'
        PROVE  (Dated(r) /\ ShowsLast(r) /\ Marked(r))'
    BY <2>1, <2>2, UntouchedStays
  <2>3. ASSUME NEW robot \in Robot, Report(robot)
        PROVE  \A report \in telemetry' : report.timestamp <= now'
    <3>1. \A report \in telemetry' :
            report \in telemetry \/ report.timestamp = now + Skew[robot]
      BY <2>3 DEF Report
    <3>2. now' = now /\ now + Skew[robot] = now
      BY <1>0, <2>3 DEF Report, InStepFit
    <3>3. QED  BY <1>0, <3>1, <3>2
  <2>4. UNCHANGED telemetry \/ \E robot \in Robot : Report(robot)
    BY <1>5 DEF Outside, Hear
  <2>5. \A report \in telemetry' : report.timestamp <= now'
    BY <1>0, <2>1, <2>3, <2>4
  <2>6. QED  BY <2>2, <2>5
<1>6. QED  BY <1>1, <1>2, <1>3, <1>4, <1>5, FleetEffects

(* In step, the clock has an instant for every timestamp.                  *)
LEMMA FleetInvariant ==
  ASSUME InStepFit
  PROVE  FleetSpec => [](FInv /\ PictureInv)
<1>1. TimestampsFit
  BY StateAssumption DEF TimestampsFit, InStepFit
<1>2. FleetInit => FInv /\ PictureInv
  <2>1. FleetInit => PictureInv
    BY DEF FleetInit, Init, NoRobots, Registered, PictureInv
  <2>2. QED  BY <1>1, <2>1, FleetInitTypes DEF FInv
<1>3. FInv /\ PictureInv /\ [FleetNext]_fleetVars => FInv' /\ PictureInv'
  BY <1>1, NextFInv, NextPictureInv
<1>4. QED  BY <1>2, <1>3, PTL DEF FleetSpec

LEMMA GreatestIsMax ==
  ASSUME NEW S \in SUBSET Int, NEW m \in S, \A x \in S : x <= m
  PROVE  Max(S) = m
<1>1. m \in S /\ \A y \in S : m >= y
  OBVIOUS
<1>2. \A x \in S : (\A y \in S : x >= y) => x = m
  OBVIOUS
<1>3. QED  BY <1>1, <1>2 DEF Max

(* When what is shown was measured is the date no other report is after.   *)
LEMMA MeasuredLast ==
  ASSUME NEW robot, NEW last \in track[robot],
         \A o \in track[robot] : o[1] \in Int /\ o[1] <= last[1]
  PROVE  MeasuredAt(robot) = last[1]
<1> DEFINE S == {o[1] : o \in track[robot]}
<1>1. S \in SUBSET Int /\ last[1] \in S /\ \A x \in S : x <= last[1]
  OBVIOUS
<1> HIDE DEF S
<1>2. Max(S) = last[1]
  BY <1>1, GreatestIsMax
<1>3. QED  BY <1>2 DEF MeasuredAt, S

(* What is taken in is not older than what was shown, and the place shown  *)
(* is the one measured last.                                               *)
LEMMA StepMovesForward ==
  ASSUME FInv, PictureInv, FInv', PictureInv', [FleetNext]_fleetVars,
         NEW robot \in Registered \cap Registered'
  PROVE  /\ \A o \in track'[robot] \ track[robot] : o[1] >= MeasuredAt(robot)
         /\ robots'[robot].position # None =>
              <<MeasuredAt(robot)', robots'[robot].position>> \in track'[robot]
<1>0. robot \in Robot
  BY FleetNumbers
<1>1. PICK last \in track[robot] : \A other \in track[robot] : other[1] <= last[1]
  BY DEF PictureInv, ShowsLast
<1>2. MeasuredAt(robot) = last[1] /\ last[1] <= robots[robot].observed_at
      /\ last[1] \in Int /\ robots[robot].observed_at \in Int
  BY <1>0, <1>1, FleetNumbers, MeasuredLast DEF PictureInv, Dated
<1>3. ASSUME NEW o \in track'[robot] \ track[robot]
      PROVE  o[1] >= robots[robot].observed_at
  <2>1. PICK report \in telemetry : TakesIn(report)
    <3>1. ASSUME NEW r \in Robot, Comes(r) PROVE FALSE
      <4>1. r # robot
        BY <3>1 DEF Comes
      <4>2. QED  BY <1>3, <3>1, <4>1, <1>0 DEF Comes, FInv, FleetTypes
    <3>2. ASSUME NEW r \in Robot, Goes(r) PROVE FALSE
      <4>1. r # robot
        BY <3>2 DEF Goes
      <4>2. QED  BY <1>3, <3>2, <4>1, <1>0 DEF Goes, FInv, FleetTypes
    <3>3. ~LeavesAlone /\ ~Outside
      BY <1>3 DEF LeavesAlone, Outside
    <3>4. QED  BY <3>1, <3>2, <3>3, FleetEffects
  <2>2. report.robot = robot /\ o = <<report.timestamp, report.position>>
    BY <1>0, <1>3, <2>1 DEF TakesIn, FInv, FleetTypes
  <2>3. ~(report.timestamp < robots[robot].observed_at)
    BY <2>1, <2>2 DEF TakesIn, IsStale
  <2>4. QED  BY <1>2, <2>2, <2>3, FleetNumbers
<1>4. \A o \in track'[robot] : o[1] \in Int /\ o[2] \in Int /\ o = <<o[1], o[2]>>
  <2>1. Time \subseteq Int /\ Position \subseteq Int
    BY StateAssumption
  <2>2. track'[robot] \subseteq Time \X (Position \cup {0})
    BY <1>0 DEF FInv, FleetTypes
  <2>3. ASSUME NEW o \in track'[robot]
        PROVE  o[1] \in Int /\ o[2] \in Int /\ o = <<o[1], o[2]>>
    <3>1. o[1] \in Time /\ o[2] \in Position \cup {0} /\ o = <<o[1], o[2]>>
      BY <2>2
    <3>2. QED  BY <2>1, <3>1
  <2>4. QED  BY <2>3
<1>5. PICK m \in track'[robot] :
        /\ \A other \in track'[robot] : other[1] <= m[1]
        /\ robots'[robot].position # None => m[2] = robots'[robot].position
  BY DEF PictureInv, ShowsLast
<1>6. MeasuredAt(robot)' = m[1]
  <2> DEFINE S == {o[1] : o \in track'[robot]}
  <2>1. S \in SUBSET Int /\ m[1] \in S /\ \A x \in S : x <= m[1]
    BY <1>4, <1>5
  <2> HIDE DEF S
  <2>2. Max(S) = m[1]
    BY <2>1, GreatestIsMax
  <2>3. QED  BY <2>2 DEF MeasuredAt, S
<1>7. QED  BY <1>2, <1>3, <1>4, <1>5, <1>6

(* StateManager::apply, "Applying it would move the fleet's picture        *)
(* backwards": with robots in step, however often reports are lost, late   *)
(* or repeated, it does not.                                               *)
THEOREM NothingMovesBackwards ==
  ASSUME InStepFit
  PROVE  FleetSpec => PictureMovesForward
<1>1. FInv /\ PictureInv /\ FInv' /\ PictureInv' /\ [FleetNext]_fleetVars =>
        [\A robot \in Registered \cap Registered' :
           /\ \A o \in track'[robot] \ track[robot] : o[1] >= MeasuredAt(robot)
           /\ robots'[robot].position # None =>
                <<MeasuredAt(robot)', robots'[robot].position>> \in track'[robot]
        ]_fleetVars
  BY StepMovesForward
<1>2. QED  BY <1>1, FleetInvariant, PTL DEF FleetSpec, PictureMovesForward

(* has_progressed and assess_stall: the time since the mark is the time    *)
(* the robot got nowhere.                                                  *)
THEOREM StallsAreToldRight ==
  ASSUME InStepFit
  PROVE  FleetSpec => []StallsAreFound
<1>1. ASSUME FInv, PictureInv PROVE StallsAreFound
  <2> SUFFICES ASSUME NEW robot \in Registered
      PROVE  /\ Verdict(robot) \in {"blocked", "failed"} => Hemmed(robot, StopTimeout)
             /\ Verdict(robot) = "failed" => Hemmed(robot, BlockedTimeout)
             /\ MinimumProgress > 0 =>
                  /\ Stood(robot, StopTimeout) =>
                       Verdict(robot) # "temporarily_stopped"
                  /\ BlockedTimeout # None /\ Stood(robot, BlockedTimeout) =>
                       Verdict(robot) = "failed"
    BY DEF StallsAreFound
  <2> DEFINE at    == robots[robot].progress.at
             place == MarkedPlace(robot)
  <2>0. /\ robot \in Robot /\ now \in Int /\ at \in Int /\ place \in Int
        /\ MinimumProgress \in Int /\ MinimumProgress >= 0
        /\ \A o \in track[robot] : o[1] \in Int /\ o[2] \in Int
        /\ StopTimeout \in Int /\ StopTimeout > 0
        /\ BlockedTimeout # None => BlockedTimeout \in Int /\ BlockedTimeout > StopTimeout
    BY <1>1, FleetNumbers, FleetAssumption
  <2>1. Marked(robot)
    BY <1>1 DEF PictureInv
  <2>2. ASSUME NEW span \in Int, span > 0, at <= now - span
        PROVE  Hemmed(robot, span)
    <3> SUFFICES ASSUME NEW o \in track[robot], NEW other \in track[robot],
                        o[1] > now - span, other[1] > now - span, o # other
                 PROVE  Distance(o[2], other[2]) < 2 * MinimumProgress
      BY DEF Hemmed
    <3>1. Distance(place, o[2]) < MinimumProgress /\ Distance(place, other[2]) < MinimumProgress
      BY <2>0, <2>1, <2>2 DEF Marked
    <3>2. QED  BY <2>0, <3>1 DEF Distance
  <2>3. ASSUME NEW span \in Int, span > 0, MinimumProgress > 0, Stood(robot, span)
        PROVE  at <= now - span
    <3>1. SUFFICES ASSUME ~(at <= now - span) PROVE FALSE
      OBVIOUS
    <3>2. PICK o \in track[robot] :
            /\ o[1] <= now - span
            /\ \A later \in track[robot] : later[1] >= o[1] => later[2] = o[2]
      BY <2>3 DEF Stood
    <3>3. o[1] < at
      BY <2>0, <3>1, <3>2
    <3>4. <<at, place>> \in track[robot] /\ at >= o[1]
      BY <2>0, <2>1, <3>3 DEF Marked
    <3>5. place = o[2]
      BY <3>2, <3>4
    <3>6. PICK later \in track[robot] : later[1] >= o[1] /\ later[2] # place
      BY <2>1, <2>3, <3>3 DEF Marked
    <3>7. QED  BY <3>2, <3>5, <3>6
  <2>4. ASSUME NEW span \in Int, span > 0
        PROVE  StalledFor(robot) >= span <=> at <= now - span
    BY <2>0, <2>4 DEF StalledFor
  <2>5. Verdict(robot) \in {"blocked", "failed"} => at <= now - StopTimeout
    <3>1. Verdict(robot) = "blocked" => StalledFor(robot) >= StopTimeout
      BY DEF Verdict
    <3>2. Verdict(robot) = "failed" =>
            BlockedTimeout # None /\ StalledFor(robot) >= BlockedTimeout
      BY DEF Verdict
    <3>3. QED  BY <2>0, <2>4, <3>1, <3>2
  <2>6. Verdict(robot) = "failed" <=>
          BlockedTimeout # None /\ StalledFor(robot) >= BlockedTimeout
    BY DEF Verdict
  <2>7. Verdict(robot) = "temporarily_stopped" => ~(StalledFor(robot) >= StopTimeout)
    BY DEF Verdict
  <2>8. Verdict(robot) \in {"blocked", "failed"} => Hemmed(robot, StopTimeout)
    BY <2>0, <2>2, <2>5
  <2>9. BlockedTimeout # None => BlockedTimeout \in Int /\ BlockedTimeout > 0
    BY <2>0
  <2>10. Verdict(robot) = "failed" => Hemmed(robot, BlockedTimeout)
    BY <2>2, <2>4, <2>6, <2>9
  <2>11. MinimumProgress > 0 /\ Stood(robot, StopTimeout) =>
           Verdict(robot) # "temporarily_stopped"
    BY <2>0, <2>3, <2>4, <2>7
  <2>12. MinimumProgress > 0 /\ BlockedTimeout # None /\ Stood(robot, BlockedTimeout) =>
           Verdict(robot) = "failed"
    BY <2>3, <2>4, <2>6, <2>9
  <2>13. QED  BY <2>8, <2>10, <2>11, <2>12
<1>2. QED  BY <1>1, FleetInvariant, PTL
=============================================================================
