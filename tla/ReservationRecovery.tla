------------------------ MODULE ReservationRecovery ------------------------
(***************************************************************************)
(* The reservation manager across restarts.  The records are persisted by  *)
(* whoever composes the system, outside src/: each claim is saved at some  *)
(* time after it changed, so that what a restart finds may mix claims of   *)
(* different ages.  recover() rebuilds the table from what was saved.      *)
(*                                                                         *)
(* recover() is one call; its loop is unrolled here, one step per record,  *)
(* and nothing else may happen while it runs.                              *)
(***************************************************************************)
EXTENDS ReservationManager

VARIABLES
  saved,      \* the external store: a record for each id it knows
  restoring,  \* the ids recover() still has to look at
  rejected,   \* RecoveryReport::rejected of the last recovery
  intact      \* a restart found every claim as it was, and nothing has
              \* happened since (observes the runs, the code has no such flag)

recoveryVars == <<saved, restoring, rejected, intact>>
allVars == <<vars, recoveryVars>>

NothingSaved == [id \in {} |-> None]

(* Earliest start first, ties broken by id.                                *)
RestoredBefore(i, j) ==
  \/ saved[i].window.start < saved[j].window.start
  \/ saved[i].window.start = saved[j].window.start /\ i < j

IsNext(id) ==
  id \in restoring /\ \A other \in restoring \ {id} : RestoredBefore(id, other)

(* Slip: what was persisted is believed.                                   *)
FitsUnchecked(rec) == TRUE

(* Slip: a robot that overstayed its window does not get its claim back.   *)
FitsUntilPast(rec) ==
  \/ rec.state \in Terminal
  \/ /\ ~IsPast(rec.window, now)
     /\ Admitted(rec.resource, rec.robot, rec.window, rec.usage)

(* A claim that has ended withholds nothing, so nothing is checked.        *)
Fits(rec) ==
  \/ rec.state \in Terminal
  \/ Admitted(rec.resource, rec.robot, rec.window, rec.usage)

(* A claim comes back with the state it had, except a grant whose window   *)
(* passed while the system was down: inserted, then expired.               *)
Restored(rec) ==
  IF rec.state = "pending" /\ IsPast(rec.window, now)
  THEN [rec EXCEPT !.state = "expired"] ELSE rec
-----------------------------------------------------------------------------
(* The store, as it is used: a claim is written whenever it gets round to  *)
(* it, and forgotten some time after it was purged.                        *)
Persist(id) ==
  /\ restoring = {} /\ id \in DOMAIN records
  /\ saved' = [i \in DOMAIN saved \cup {id} |->
                 IF i = id THEN records[id] ELSE saved[i]]
  /\ UNCHANGED <<vars, restoring, rejected, intact>>

Forget(id) ==
  /\ restoring = {} /\ ~intact
  /\ id \in DOMAIN saved \ DOMAIN records /\ saved[id].state \in Terminal
  /\ saved' = [i \in DOMAIN saved \ {id} |-> saved[i]]
  /\ UNCHANGED <<vars, restoring, rejected, intact>>

(* A new process: an empty table, a manager that knows of no waits.        *)
Crash ==
  /\ records' = [id \in {} |-> None]
  /\ holding_by_resource' = [r \in Resource |-> {}]
  /\ by_robot' = [robot \in Robot |-> {}]
  /\ holding_count' = 0
  /\ waits' = [robot \in {} |-> None]
  /\ restoring' = {}
  /\ rejected' = {}
  /\ intact' = (saved = records)
  /\ UNCHANGED <<now, saved>>

(* recover, called with what was saved, on an empty table or not.          *)
Recover ==
  /\ restoring = {} /\ DOMAIN saved # {}
  /\ restoring' = DOMAIN saved
  /\ rejected' = {}
  /\ intact' = (intact /\ DOMAIN records = {})
  /\ UNCHANGED <<vars, saved>>

Restore(id) ==
  /\ IsNext(id)
  /\ restoring' = restoring \ {id}
  /\ UNCHANGED <<waits, now, saved, intact>>
  /\ \/ /\ id \notin DOMAIN records /\ Fits(saved[id])
        /\ Insert(id, Restored(saved[id]))
        /\ UNCHANGED rejected
     \/ /\ id \in DOMAIN records \/ ~Fits(saved[id])
        /\ rejected' = rejected \cup {id}
        /\ UNCHANGED tableVars

Operation ==
  /\ restoring = {}
  /\ Next
  /\ intact' = (intact /\ tableVars' = tableVars)
  /\ UNCHANGED <<saved, restoring, rejected>>
-----------------------------------------------------------------------------
RecoveryInit ==
  /\ Init
  /\ saved = NothingSaved
  /\ restoring = {} /\ rejected = {} /\ intact = FALSE

RecoveryNext ==
  \/ Operation
  \/ \E id \in ReservationId : Persist(id) \/ Forget(id) \/ Restore(id)
  \/ Crash
  \/ Recover

RecoverySpec == RecoveryInit /\ [][RecoveryNext]_allVars
-----------------------------------------------------------------------------
(* Correctness.                                                            *)

(* A restart that finds every claim saved as it was gives every one back:  *)
(* putting them in one at a time, in the order of their starts and checked *)
(* like new requests, refuses none, although they were granted in another  *)
(* order, and some of them were extended since.                            *)
RestartLosesNothing == intact => rejected = {}
=============================================================================
