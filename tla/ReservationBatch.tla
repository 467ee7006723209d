--------------------------- MODULE ReservationBatch ---------------------------
(***************************************************************************)
(* request_all and the ageing of reservation_policy: requests that arrive  *)
(* together are put in order and decided one by one.  The controller, not  *)
(* in src/, asks at every instant for all robots that still want           *)
(* something, which is what request_all is for; robots use what they are   *)
(* granted, or do not.                                                     *)
(*                                                                         *)
(* The clock stands still and everything else moves: when time passes,     *)
(* windows, waits and grants grow older by one (no operation looks at an   *)
(* instant but to compare it with another).  So time has no end here, and  *)
(* what holds in the end is no artefact of the last instant.               *)
(*                                                                         *)
(* request_all is one call; its loop is unrolled, one step per request.    *)
(* Extensions, commitments and single expiries are left out.               *)
(***************************************************************************)
EXTENDS ReservationManager, Sequences

Seqs == INSTANCE SequencesExt

CONSTANTS
  Priority,         \* base priority of each robot's requests
  TaskOf,           \* the task each robot asks for, absent ones lowest
  AgingGain, AgingPeriod,  \* aging_per_second, as a fraction
  PriorityCeiling,  \* the largest Priority there is
  Past,             \* bound: windows and grants older than this are alike,
  Patience          \* bound: and so are waits longer than this

ASSUME BatchAssumption ==
  /\ Robot \subseteq Int
  /\ Priority \in [Robot -> 0..PriorityCeiling]
  /\ TaskOf \in [Robot -> Int]
  /\ \A req \in Requests : None \notin {req.id, req.robot, req.resource}
  /\ {AgingGain, PriorityCeiling, Past, Patience} \subseteq Nat
  /\ AgingPeriod \in Nat \ {0}
  /\ Past >= GrantTimeout
  /\ (AgingGain * Patience) \div AgingPeriod >= PriorityCeiling

VARIABLES
  wants,     \* what each robot asks for until it is granted
  asked,     \* the controller has asked at this instant
  batch,     \* requests of the call under way, in the order of decision
  tries,     \* observes the runs: how often each of them was refused
  favoured   \* observes the runs: the robots granted something by the call
             \* under way, and how often they had been refused before

batchVars == <<vars, wants, asked, batch, tries, favoured>>

NoWishes == [robot \in {} |-> None]
-----------------------------------------------------------------------------
(* Who comes first.                                                        *)

(* waited_for: nothing, unless the wait is for this very resource.         *)
WaitedFor(robot, resource) ==
  IF /\ robot \in DOMAIN waits
     /\ waits[robot].resource = resource
     /\ now > waits[robot].since
  THEN now - waits[robot].since ELSE 0

(* effective_priority: cut to a whole number, and held at the ceiling.     *)
EffectivePriority(base, waited) ==
  LET raised == base + (AgingGain * waited) \div AgingPeriod
  IN  IF raised >= PriorityCeiling THEN PriorityCeiling ELSE raised

(* Slip: the order as it was before claims had ids of their own.           *)
RanksBeforeByRobot(p, q) ==
  LET waitP == WaitedFor(p.robot, p.resource)
      waitQ == WaitedFor(q.robot, q.resource)
      highP == EffectivePriority(Priority[p.robot], waitP)
      highQ == EffectivePriority(Priority[q.robot], waitQ)
  IN  \/ highP > highQ
      \/ highP = highQ /\ waitP > waitQ
      \/ highP = highQ /\ waitP = waitQ /\ p.robot < q.robot

(* Slip: who asked last goes first among equals.                           *)
RanksBeforeByLeastWait(p, q) ==
  LET waitP == WaitedFor(p.robot, p.resource)
      waitQ == WaitedFor(q.robot, q.resource)
      highP == EffectivePriority(Priority[p.robot], waitP)
      highQ == EffectivePriority(Priority[q.robot], waitQ)
  IN  \/ highP > highQ
      \/ highP = highQ /\ waitP < waitQ
      \/ highP = highQ /\ waitP = waitQ /\ p.id < q.id

(* Docs 25 section 16: priority, waiting time, task, robot, and then the   *)
(* reservation, so that the order is total.                                *)
RanksBefore(p, q) ==
  LET waitP == WaitedFor(p.robot, p.resource)
      waitQ == WaitedFor(q.robot, q.resource)
      highP == EffectivePriority(Priority[p.robot], waitP)
      highQ == EffectivePriority(Priority[q.robot], waitQ)
      taskP == TaskOf[p.robot]
      taskQ == TaskOf[q.robot]
  IN  \/ highP > highQ
      \/ /\ highP = highQ
         /\ \/ waitP > waitQ
            \/ /\ waitP = waitQ
               /\ \/ taskP < taskQ
                  \/ taskP = taskQ /\ p.robot < q.robot
                  \/ taskP = taskQ /\ p.robot = q.robot /\ p.id < q.id

(* What std::sort may leave behind, in whatever order the caller asked.    *)
Sorted(asks) ==
  {order \in Seqs!SetToSeqs(asks) :
     \A i, j \in DOMAIN order : i < j => ~RanksBefore(order[j], order[i])}
-----------------------------------------------------------------------------
Idle == batch = << >>

Without(f, robot) == [r \in DOMAIN f \ {robot} |-> f[r]]

(* A robot is given something to do, for which it is not too early.        *)
Want(req) ==
  /\ Idle
  /\ req.robot \notin DOMAIN wants
  /\ IsFresh(req)
  /\ wants' = [r \in DOMAIN wants \cup {req.robot} |->
                 IF r = req.robot THEN req ELSE wants[r]]
  /\ UNCHANGED <<vars, asked, batch, tries, favoured>>

(* request_all, called with everything that is wanted.                     *)
RequestAll ==
  /\ Idle /\ ~asked
  /\ DOMAIN wants # {}
  /\ batch' \in Sorted({wants[robot] : robot \in DOMAIN wants})
  /\ asked' = TRUE
  /\ favoured' = NoWishes
  /\ UNCHANGED <<vars, wants, tries>>

(* Its loop: each request as if it had come alone.                         *)
Decide ==
  LET req   == Head(batch)
      robot == req.robot
  IN  /\ ~Idle
      /\ Request(req)
      /\ batch' = Tail(batch)
      /\ IF robot \in DOMAIN waits'
         THEN /\ tries' = [tries EXCEPT ![robot] = IF @ < Patience THEN @ + 1 ELSE @]
              /\ UNCHANGED <<wants, favoured>>
         ELSE /\ wants' = Without(wants, robot)
              /\ tries' = [tries EXCEPT ![robot] = 0]
              /\ favoured' = [r \in DOMAIN favoured \cup {robot} |->
                                IF r = robot THEN tries[r] ELSE favoured[r]]
      /\ UNCHANGED asked

(* What becomes of a claim: entered, given back, withdrawn, never used.    *)
Use ==
  /\ Idle
  /\ \E id \in ReservationId : Activate(id) \/ Release(id) \/ Cancel(id)
  /\ UNCHANGED <<wants, asked, batch, tries, favoured>>

Fail(robot) ==
  /\ Idle
  /\ ReleaseAllFor(robot)
  /\ wants' = Without(wants, robot)
  /\ tries' = [tries EXCEPT ![robot] = 0]
  /\ UNCHANGED <<asked, batch, favoured>>

Reclaim ==
  /\ Idle
  /\ Sweep
  /\ UNCHANGED <<wants, asked, batch, tries, favoured>>

Tidy ==
  /\ Idle
  /\ \E cutoff \in Cutoffs : Purge(cutoff)
  /\ UNCHANGED <<wants, asked, batch, tries, favoured>>

(* One instant later, nothing wanted being left unasked.  When a claim was *)
(* granted is looked at only until it is entered.                          *)
Earlier(instant) == IF instant > -Past THEN instant - 1 ELSE instant

Older(rec) ==
  [rec EXCEPT !.window = IF @.end > -Past THEN Window(@.start - 1, @.end - 1) ELSE @,
              !.decided_at = IF rec.state = "pending" THEN Earlier(@) ELSE -Past]

Aged(wait) ==
  [resource   |-> wait.resource,
   since      |-> IF wait.since > -Patience THEN wait.since - 1 ELSE wait.since,
   blocked_by |-> wait.blocked_by]

Elapse ==
  LET older == [id \in DOMAIN records |-> Older(records[id])]
  IN  /\ Idle
      /\ asked \/ DOMAIN wants = {}
      /\ \A id \in DOMAIN records : records[id].state \notin Terminal
      /\ records' = older
      /\ holding_by_resource' =
           [r \in Resource |-> KeysIn(older, {key[2] : key \in holding_by_resource[r]}, r)]
      /\ waits' = [robot \in DOMAIN waits |-> Aged(waits[robot])]
      /\ asked' = FALSE
      /\ UNCHANGED <<by_robot, holding_count, now, wants, batch, tries, favoured>>

BatchInit ==
  /\ TableInit
  /\ waits = NoWishes
  /\ now = 0
  /\ wants = NoWishes
  /\ asked = FALSE
  /\ batch = << >>
  /\ tries = [robot \in Robot |-> 0]
  /\ favoured = NoWishes

BatchNext ==
  \/ \E req \in Requests : Want(req)
  \/ RequestAll
  \/ Decide
  \/ Use
  \/ \E robot \in Robot : Fail(robot)
  \/ Reclaim
  \/ Tidy
  \/ Elapse

(* The controller asks for who waits, a call of the manager runs on to its *)
(* end, and what has ended is purged.  However busy the manager is, it is  *)
(* swept now and then, and time does not stop.  No robot has to do         *)
(* anything.                                                               *)
BatchFairness ==
  /\ WF_batchVars(RequestAll)
  /\ WF_batchVars(Decide)
  /\ SF_batchVars(Reclaim)
  /\ WF_batchVars(Tidy)
  /\ SF_batchVars(Elapse)

BatchSpec == BatchInit /\ [][BatchNext]_batchVars /\ BatchFairness
-----------------------------------------------------------------------------
(* Correctness.                                                            *)

(* Any two requests of a batch that are different claims have an order,    *)
(* and the orders fit together, so that the outcome is the same whatever   *)
(* vector the caller built (request_all).                                  *)
BatchOrderIsTotal ==
  \A p, q \in Requests :
    p.id # q.id =>
      /\ RanksBefore(p, q) # RanksBefore(q, p)
      /\ \A s \in Requests :
           RanksBefore(p, q) /\ RanksBefore(q, s) => RanksBefore(p, s)

(* No robot is refused for the sake of one that was asked for in the same  *)
(* breath, matters less and has been refused no more often, or matters no  *)
(* more and has been refused less often.  Only at the ceiling, which keeps *)
(* priorities from overflowing, do all weigh alike.  Claims that stood     *)
(* before the call may be in the way of anyone.                            *)
Outweighed(other, robot) ==
  /\ Priority[other] <= Priority[robot]
  /\ favoured[other] <= tries[robot]
  /\ Priority[other] # Priority[robot] \/ favoured[other] # tries[robot]
  /\ Priority[other] + (AgingGain * favoured[other]) \div AgingPeriod < PriorityCeiling

NobodyIsPassedBy ==
  [][\A robot \in DOMAIN waits' :
       ~Idle /\ Head(batch).robot = robot =>
         \A other \in waits'[robot].blocked_by \cap DOMAIN favoured :
           ~Outweighed(other, robot)]_batchVars

(* "R01 must not WAIT permanently" (docs 26, SC-022): who keeps asking is  *)
(* served in the end, however many robots of higher priority keep asking   *)
(* for the same place, use it to the last instant and come back.           *)
AskersAreServed ==
  \A robot \in Robot : robot \in DOMAIN wants ~> robot \notin DOMAIN wants
=============================================================================
