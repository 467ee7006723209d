--------------------------- MODULE FleetTelemetry ---------------------------
(***************************************************************************)
(* The state manager with a fleet that reports to it over a network, and a *)
(* controller that commands it.  Reports may be lost, delayed, reordered   *)
(* and delivered again; commands may be lost.  Robot and network are not   *)
(* in src/: a report carries the robot's clock, already translated to the  *)
(* controller's timeline but for an error (Skew), and the last command the *)
(* robot had received when it measured.                                    *)
(***************************************************************************)
EXTENDS StateManager, FiniteSetsExt

CONSTANTS
  Skew,        \* how far each robot's timestamps run ahead
  MaxReports,  \* bound on the reports sent
  MaxAge,      \* the age stale_robots() is asked about
  Reported,    \* states the robots report, or None
  Assigned,    \* the decisions traffic control takes, with their reason
  StopTimeout,    \* StallPolicy::stop_timeout, T1
  BlockedTimeout  \* StallPolicy::blocked_timeout, T2, or None

ASSUME FleetAssumption ==
  /\ Skew \in [Robot -> Nat]
  /\ {MaxReports, MaxAge} \subseteq Nat
  /\ Reported \subseteq OrNone(State)
  /\ Assigned \subseteq State \X OrNone(Hold)
  /\ Command \subseteq Nat
  /\ StopTimeout \in Nat \ {0}
  /\ BlockedTimeout # None => BlockedTimeout \in Nat /\ BlockedTimeout > StopTimeout

VARIABLES
  now,        \* the controller's clock
  telemetry,  \* every report sent, delivered or not
  orders,     \* every command sent, as <<robot, command>>
  heard,      \* the last command each robot received, or None
  track       \* observes the runs: what was accepted of each robot since it
              \* was registered, as <<timestamp, position>>

fleetVars == <<stateVars, now, telemetry, orders, heard, track>>

(* The robot measures and sends.  What it sends from one measurement, in   *)
(* one report or several, names one place and acknowledges one command.    *)
Report(robot) ==
  /\ Cardinality(telemetry) < MaxReports
  /\ \E position \in Position, reported \in Reported :
       LET report == [robot     |-> robot,
                      timestamp |-> now + Skew[robot],
                      position  |-> position,
                      reported  |-> reported,
                      ack       |-> heard[robot]]
       IN  /\ \A other \in telemetry :
                other.robot = robot /\ other.timestamp = report.timestamp =>
                  other.position = position /\ other.ack = report.ack
           /\ telemetry' = telemetry \cup {report}
  /\ UNCHANGED <<stateVars, now, orders, heard, track>>

Hear(robot) ==
  /\ \E order \in orders :
       /\ order[1] = robot
       /\ heard[robot] # None => order[2] > heard[robot]
       /\ heard' = [heard EXCEPT ![robot] = order[2]]
  /\ UNCHANGED <<stateVars, now, telemetry, orders, track>>

Deliver ==
  /\ \E report \in telemetry :
       /\ Apply(report)
       /\ track' = [track EXCEPT ![report.robot] =
                       @ \cup {<<report.timestamp, report.position>>}]
  /\ UNCHANGED <<now, telemetry, orders, heard>>

(* A record starts at the origin of the map.                               *)
Enrol(robot) ==
  /\ Register(robot, now)
  /\ track' = [track EXCEPT ![robot] = {<<now, 0>>}]
  /\ UNCHANGED <<now, telemetry, orders, heard>>

Retire(robot) ==
  /\ Deregister(robot)
  /\ track' = [track EXCEPT ![robot] = {}]
  /\ UNCHANGED <<now, telemetry, orders, heard>>

Decide(robot) ==
  /\ \E decision \in Assigned : AssignState(robot, decision[1], now, decision[2])
  /\ UNCHANGED <<now, telemetry, orders, heard, track>>

(* stalled_for, time_since_progress.                                       *)
StalledFor(robot) ==
  LET since == robots[robot].progress.at
  IN  IF now <= since THEN 0 ELSE now - since

(* assess_stall and state_for: what the ladder makes of the time.          *)
Verdict(robot) ==
  IF BlockedTimeout # None /\ StalledFor(robot) >= BlockedTimeout THEN "failed"
  ELSE IF StalledFor(robot) >= StopTimeout THEN "blocked"
  ELSE "temporarily_stopped"

(* The controller looks how long a robot has got nowhere, and says so.     *)
Watch(robot) ==
  /\ AssignState(robot, Verdict(robot), now, None)
  /\ UNCHANGED <<now, telemetry, orders, heard, track>>

(* What is planned for a robot; there is no other limit on how often.      *)
Assign(robot) ==
  /\ \/ \E route \in OrNone(Route) : AssignRoute(robot, route, now)
     \/ \E task \in OrNone(Task) : AssignTask(robot, task, now)
  /\ UNCHANGED <<now, telemetry, orders, heard, track>>

(* Every command has an id of its own.                                     *)
Send(robot) ==
  LET command == Cardinality(orders) + 1
  IN  /\ command \in Command
      /\ RecordCommand(robot, command, now)
      /\ orders' = orders \cup {<<robot, command>>}
      /\ UNCHANGED <<now, telemetry, heard, track>>

TakePicture ==
  /\ Plan
  /\ UNCHANGED <<now, telemetry, orders, heard, track>>

Tick ==
  /\ now + 1 \in Time
  /\ now' = now + 1
  /\ UNCHANGED <<stateVars, telemetry, orders, heard, track>>

FleetInit ==
  /\ Init
  /\ now = 0
  /\ telemetry = {}
  /\ orders = {}
  /\ heard = [robot \in Robot |-> None]
  /\ track = [robot \in Robot |-> {}]

FleetNext ==
  \/ version < MaxVersion /\ Deliver
  \/ \E robot \in Robot :
       \/ Report(robot)
       \/ Hear(robot)
       \/ version < MaxVersion /\ Enrol(robot)
       \/ version < MaxVersion /\ Retire(robot)
       \/ version < MaxVersion /\ Decide(robot)
       \/ version < MaxVersion /\ Watch(robot)
       \/ version < MaxVersion /\ Assign(robot)
       \/ version < MaxVersion /\ Send(robot)
  \/ TakePicture
  \/ Tick

FleetSpec == FleetInit /\ [][FleetNext]_fleetVars
-----------------------------------------------------------------------------
(* Correctness.                                                            *)

(* stale_robots.                                                           *)
StaleRobots ==
  {robot \in Registered : now > robots[robot].observed_at
                          /\ now - robots[robot].observed_at > MaxAge}

(* When what is shown of a robot was measured.                             *)
MeasuredAt(robot) == Max({o[1] : o \in track[robot]})

(* A command taken as acknowledged is one the robot has received, whatever *)
(* was lost or delivered late (is_command_outstanding).                    *)
AcknowledgedIsHeard ==
  \A robot \in Registered :
    robots[robot].last_command # None /\ ~Outstanding(robot) =>
      heard[robot] # None /\ heard[robot] >= robots[robot].last_command

(* "Applying it would move the fleet's picture backwards" (apply, stale    *)
(* timestamps): nothing measured earlier is taken in later, and the place  *)
(* shown is the one measured last, however often reports are repeated.     *)
PictureMovesForward ==
  [][\A robot \in Registered \cap Registered' :
       /\ \A o \in track'[robot] \ track[robot] : o[1] >= MeasuredAt(robot)
       /\ robots'[robot].position # None =>
            <<MeasuredAt(robot)', robots'[robot].position>> \in track'[robot]
    ]_fleetVars

(* Over the last span the robot was seen in one neighbourhood only.        *)
Hemmed(robot, span) ==
  \A o, other \in {o \in track[robot] : o[1] > now - span} :
    o = other \/ Distance(o[2], other[2]) < 2 * MinimumProgress

(* For at least the span the robot was seen in one place only.             *)
Stood(robot, span) ==
  \E o \in track[robot] :
    /\ o[1] <= now - span
    /\ \A later \in track[robot] : later[1] >= o[1] => later[2] = o[2]

(* A robot that gets somewhere is not taken for blocked or failed, and one *)
(* that stands is not taken for stopped a moment ago, however often it     *)
(* reports that it stands and whatever was decided meanwhile (the progress *)
(* mark, assess_stall).                                                    *)
StallsAreFound ==
  \A robot \in Registered :
    /\ Verdict(robot) \in {"blocked", "failed"} => Hemmed(robot, StopTimeout)
    /\ Verdict(robot) = "failed" => Hemmed(robot, BlockedTimeout)
    /\ MinimumProgress > 0 =>
         /\ Stood(robot, StopTimeout) => Verdict(robot) # "temporarily_stopped"
         /\ BlockedTimeout # None /\ Stood(robot, BlockedTimeout) =>
              Verdict(robot) = "failed"
=============================================================================
