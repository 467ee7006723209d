------------------------- MODULE ReservationManager -------------------------
(***************************************************************************)
(* reservation::ReservationManager: the only writer of the table.  Robots, *)
(* their controller and a periodic sweep call it in any order; every call  *)
(* is one step, because check and write happen with nothing between them.  *)
(*                                                                         *)
(* A call the manager refuses changes nothing: it is a stuttering step and *)
(* is not written out.  The decision log, the counters and the ordering of *)
(* a batch of requests are not part of this module.                        *)
(***************************************************************************)
EXTENDS ReservationTable

CONSTANTS
  Requests,     \* the requests that may be sent, each any number of times
  NewEnds,      \* the ends extensions may ask for
  Cutoffs,      \* the cutoffs history is purged at
  EntryBuffer, ExitBuffer, Horizon, GrantTimeout   \* ReservationPolicy

(* A name may be the empty one, which request() refuses.                   *)
RequestSet == [id       : ReservationId \cup {None},
               robot    : Robot \cup {None},
               resource : Resource \cup {None},
               start    : Int,
               duration : Int,
               usage    : Usage]

ASSUME RequestAssumption ==
  /\ Requests \subseteq RequestSet
  /\ NewEnds \subseteq Int
  /\ Cutoffs \subseteq Int

(* make_reservation_policy.                                                *)
ASSUME PolicyAssumption ==
  /\ {EntryBuffer, ExitBuffer, Horizon, GrantTimeout} \subseteq Nat
  /\ Horizon > 0
  /\ GrantTimeout > 0

VARIABLES
  waits,  \* waits_: what each waiting robot is blocked on, and by whom
  now     \* the caller's clock, passed to every operation

vars == <<tableVars, waits, now>>

Wait == [resource : Resource, since : Time, blocked_by : SUBSET Robot]

RequestedWindow(req) ==
  EffectiveWindow(req.start, req.duration, EntryBuffer, ExitBuffer)

(* A request that gets as far as the admission check.                      *)
IsFresh(req) ==
  /\ None \notin {req.id, req.robot, req.resource}
  /\ req.id \notin DOMAIN records
  /\ HasEffectiveWindow(req.start, req.duration, EntryBuffer, ExitBuffer)
  /\ req.start <= now + Horizon

Verdict(req) ==
  Check(req.resource, req.robot, RequestedWindow(req), req.usage)

ClearWait(robot) ==
  waits' = [r \in DOMAIN waits \ {robot} |-> waits[r]]

(* Slip: every ask starts the wait anew.                                   *)
WaitStartsNow(robot, resource) == now

(* A robot still waiting for the same resource keeps the start of its wait.*)
WaitStart(robot, resource) ==
  IF robot \in DOMAIN waits /\ waits[robot].resource = resource
  THEN waits[robot].since ELSE now

NoteWait(robot, resource, blockers) ==
  LET entry == [resource   |-> resource,
                since      |-> WaitStart(robot, resource),
                blocked_by |-> blockers]
  IN  waits' = [r \in DOMAIN waits \cup {robot} |->
                  IF r = robot THEN entry ELSE waits[r]]

NewRecord(req) ==
  [robot      |-> req.robot,
   resource   |-> req.resource,
   window     |-> RequestedWindow(req),
   usage      |-> req.usage,
   state      |-> "pending",
   decided_at |-> now,
   committed  |-> FALSE]
-----------------------------------------------------------------------------
(* request: granted, or told to wait.  A rejected request and a repeated   *)
(* one, answered from the claim it made before, leave everything as it is. *)
Request(req) ==
  /\ IsFresh(req)
  /\ UNCHANGED now
  /\ \/ /\ Verdict(req).result = "admitted"
        /\ Insert(req.id, NewRecord(req))
        /\ ClearWait(req.robot)
     \/ /\ Verdict(req).result # "admitted"
        /\ NoteWait(req.robot, req.resource, RobotsOf(Verdict(req).blockers))
        /\ UNCHANGED tableVars

(* activate: the robot has entered.  Neither the clock nor the other       *)
(* claims are looked at.                                                   *)
Activate(id) ==
  /\ id \in DOMAIN records
  /\ records[id].state \notin Terminal
  /\ SetState(id, "active")
  /\ UNCHANGED <<waits, now>>

(* release: an active claim is given back.                                 *)
Release(id) ==
  /\ id \in DOMAIN records
  /\ records[id].state \notin Terminal
  /\ SetState(id, "released")
  /\ UNCHANGED <<waits, now>>

(* release_all_for: a robot that failed or left the fleet.                 *)
ReleaseAllFor(robot) ==
  LET held == by_robot[robot] \cap Holders
  IN  /\ SetStates([id \in held |-> IF records[id].state = "active"
                                    THEN "released" ELSE "cancelled"])
      /\ ClearWait(robot)
      /\ UNCHANGED now

(* cancel: a claim the robot never used, and is not committed to using.    *)
Cancel(id) ==
  /\ id \in DOMAIN records
  /\ ~records[id].committed
  /\ records[id].state \notin Terminal
  /\ SetState(id, "cancelled")
  /\ UNCHANGED <<waits, now>>

Commit(id) ==
  /\ MarkCommitted(id)
  /\ UNCHANGED <<waits, now>>

(* expire: the caller has established that the robot is not inside.        *)
Expire(id) ==
  /\ id \in DOMAIN records
  /\ records[id].state \notin Terminal
  /\ SetState(id, "expired")
  /\ UNCHANGED <<waits, now>>

(* sweep: unused grants are taken back, overruns only reported.            *)
(* Slip: a window that is gone is taken to be dealt with.                  *)
StaleWhileItLasts(id) ==
  /\ records[id].state = "pending"
  /\ ~IsPast(records[id].window, now)
  /\ now >= records[id].decided_at + GrantTimeout

Stale(id) ==
  /\ records[id].state = "pending"
  /\ \/ IsPast(records[id].window, now)
     \/ now >= records[id].decided_at + GrantTimeout

Sweep ==
  /\ SetStates([id \in {i \in DOMAIN records : Stale(i)} |-> "expired"])
  /\ UNCHANGED <<waits, now>>

(* extend: only the added span is checked.  Where it is not free, claims   *)
(* nobody has acted on make way, and one active or committed claim among   *)
(* them refuses the extension.                                             *)
Addition(id, newEnd) == Window(records[id].window.end, newEnd)

Displaced(id, newEnd) ==
  Contenders(records[id].resource, Addition(id, newEnd), records[id].robot)

(* Slip: a committed claim may be displaced.                               *)
MayDisplaceUnentered(other) == records[other].state # "active"

MayDisplace(other) ==
  records[other].state # "active" /\ ~records[other].committed

Extend(id, newEnd) ==
  /\ id \in DOMAIN records
  /\ records[id].state \notin Terminal
  /\ newEnd > records[id].window.end
  /\ UNCHANGED <<waits, now>>
  /\ \/ /\ Admitted(records[id].resource, records[id].robot,
                    Addition(id, newEnd), records[id].usage)
        /\ records' = WithWindowEnd(records, id, newEnd)
        /\ UNCHANGED <<holding_by_resource, by_robot, holding_count>>
     \/ LET revoked == [other \in Displaced(id, newEnd) |-> "cancelled"]
        IN  /\ ~Admitted(records[id].resource, records[id].robot,
                         Addition(id, newEnd), records[id].usage)
            /\ \A other \in Displaced(id, newEnd) : MayDisplace(other)
            /\ CapacityOf(records[id].resource) # 0
            /\ Reindex(revoked)
            /\ records' = WithWindowEnd(WithStates(records, revoked), id, newEnd)

(* The owner of the table drops old history.                               *)
Purge(cutoff) ==
  /\ PurgeTerminalBefore(cutoff)
  /\ UNCHANGED <<waits, now>>

Tick ==
  /\ \E t \in Time : t > now /\ now' = t
  /\ UNCHANGED <<tableVars, waits>>
-----------------------------------------------------------------------------
Init ==
  /\ TableInit
  /\ waits = [robot \in {} |-> None]
  /\ now \in Time

Next ==
  \/ \E req \in Requests : Request(req)
  \/ \E id \in ReservationId :
       \/ Activate(id)
       \/ Release(id)
       \/ Cancel(id)
       \/ Commit(id)
       \/ Expire(id)
       \/ \E newEnd \in NewEnds : Extend(id, newEnd)
  \/ \E robot \in Robot : ReleaseAllFor(robot)
  \/ Sweep
  \/ \E cutoff \in Cutoffs : Purge(cutoff)
  \/ Tick

Spec == Init /\ [][Next]_vars

(* The controller sweeps periodically, and time passes.                    *)
Fairness == WF_vars(Sweep) /\ WF_vars(Tick)

FairSpec == Spec /\ Fairness
-----------------------------------------------------------------------------
(* Correctness.                                                            *)

(* Every variable has its type; a claim's window is never empty.           *)
TypeOK ==
  /\ TableTypeOK
  /\ DOMAIN waits \subseteq Robot
  /\ waits \in [DOMAIN waits -> Wait]
  /\ now \in Time

(* A recorded wait names somebody to wait for, and never the waiter itself,*)
(* which would read as a deadlock of length one (wait_for_edges).          *)
WaitsNameOthers ==
  \A robot \in DOMAIN waits :
    /\ robot \notin waits[robot].blocked_by
    /\ CapacityOf(waits[robot].resource) > 0 => waits[robot].blocked_by # {}

(* A claim on time: a new one, or the later end of one already there.      *)
Gains(id) ==
  /\ id \in DOMAIN records'
  /\ records'[id].state \in Holding
  /\ id \in DOMAIN records => records'[id].window.end > records[id].window.end

Loses(id) ==
  /\ id \in Holders
  /\ id \in DOMAIN records' => records'[id].state \notin Holding

(* A grant is never taken back to satisfy a competing request.  The one    *)
(* step that takes claims from a robot and gives time to another extends a *)
(* claim already held, and only pending, uncommitted claims on the added   *)
(* span of that same resource make way.                                    *)
GrantsNotTakenBack ==
  [][\A lost \in DOMAIN records, gained \in ReservationId :
       Loses(lost) /\ Gains(gained) =>
         /\ gained \in Holders
         /\ records[lost].state = "pending"
         /\ ~records[lost].committed
         /\ records[lost].resource = records[gained].resource
         /\ Overlaps(records[lost].window,
                     Window(records[gained].window.end, records'[gained].window.end))
    ]_vars

(* A claim is never moved to an earlier start nor cut short, an active one *)
(* ends only by release or expiry, and one that has ended stays as it is   *)
(* until it is purged.                                                     *)
ClaimsOnlyGrow ==
  [][\A id \in DOMAIN records :
       /\ records[id].state \in Holding => id \in DOMAIN records'
       /\ id \in DOMAIN records' =>
            /\ records[id].state \in Terminal => records'[id] = records[id]
            /\ records[id].state = "active" =>
                 records'[id].state \in {"active", "released", "expired"}
            /\ records'[id].window.start = records[id].window.start
            /\ records'[id].window.end >= records[id].window.end
    ]_vars

(* A grant is used, withdrawn or reclaimed: with a sweep that keeps        *)
(* running, no resource stays withheld by a robot that never came.         *)
GrantsUsedOrReclaimed ==
  \A id \in ReservationId :
    (id \in DOMAIN records /\ records[id].state = "pending")
      ~> ~(id \in DOMAIN records /\ records[id].state = "pending")
=============================================================================
