------------------------ MODULE ReservationBatchProofs ------------------------
(***************************************************************************)
(* The order request_all decides in is total, and nobody is passed by in a *)
(* batch, for every fleet, every setting of the ageing and however long    *)
(* anyone has waited.                                                      *)
(***************************************************************************)
EXTENDS ReservationBatch, FiniteSetFacts

(* All that the comparison needs: waits started at instants.               *)
WaitsDated ==
  /\ now \in Int
  /\ \A robot \in DOMAIN waits : waits[robot].since \in Int

(* A request of a robot of the fleet, under an id of the table.            *)
Nameable(req) == req.robot \in Robot /\ req.id \in ReservationId

(* What a request weighs is a number (waited_for, effective_priority).     *)
LEMMA WeightsAreNumbers ==
  ASSUME WaitsDated, NEW robot \in Robot, NEW resource
  PROVE  /\ WaitedFor(robot, resource) \in Nat
         /\ EffectivePriority(Priority[robot], WaitedFor(robot, resource)) \in Int
         /\ TaskOf[robot] \in Int
         /\ robot \in Int
PROOF
<1>1. WaitedFor(robot, resource) \in Nat
  BY DEF WaitsDated, WaitedFor
<1>2. Priority[robot] \in Int /\ TaskOf[robot] \in Int /\ robot \in Int
  BY BatchAssumption
<1>3. AgingGain * WaitedFor(robot, resource) \in Nat
  BY <1>1, BatchAssumption
<1>4. (AgingGain * WaitedFor(robot, resource)) \div AgingPeriod \in Int
  BY <1>3, BatchAssumption
<1>5. PriorityCeiling \in Int
  BY BatchAssumption
<1>6. EffectivePriority(Priority[robot], WaitedFor(robot, resource)) \in Int
  BY <1>2, <1>4, <1>5 DEF EffectivePriority
<1> QED
  BY <1>1, <1>2, <1>6

(* Comparing five numbers one after the other, the last of them telling    *)
(* any two requests apart, never ties and never runs in a circle.          *)
LEMMA ComparisonIsTotal ==
  ASSUME WaitsDated,
         NEW p, NEW q, NEW s,
         Nameable(p), Nameable(q), Nameable(s)
  PROVE  /\ p.id # q.id => RanksBefore(p, q) # RanksBefore(q, p)
         /\ RanksBefore(p, q) /\ RanksBefore(q, s) /\ p.id # q.id
              => RanksBefore(p, s)
PROOF
<1> DEFINE wait(x) == WaitedFor(x.robot, x.resource)
           high(x) == EffectivePriority(Priority[x.robot], wait(x))
           Before(x, y) ==
             \/ high(x) > high(y)
             \/ /\ high(x) = high(y)
                /\ \/ wait(x) > wait(y)
                   \/ /\ wait(x) = wait(y)
                      /\ \/ TaskOf[x.robot] < TaskOf[y.robot]
                         \/ /\ TaskOf[x.robot] = TaskOf[y.robot]
                            /\ x.robot < y.robot
                         \/ /\ TaskOf[x.robot] = TaskOf[y.robot]
                            /\ x.robot = y.robot /\ x.id < y.id
<1>1. ASSUME NEW x, Nameable(x)
      PROVE  /\ wait(x) \in Int
             /\ high(x) \in Int
             /\ TaskOf[x.robot] \in Int
             /\ x.robot \in Int
             /\ x.id \in Int
  <2>1. x.robot \in Robot /\ x.id \in ReservationId
    BY <1>1, Zenon DEF Nameable
  <2>2. \A id \in ReservationId : id \in Int
    BY SortAssumption
  <2>3. x.robot \in Robot /\ x.id \in Int
    BY <2>1, <2>2, Zenon
  <2>4. /\ wait(x) \in Nat
        /\ high(x) \in Int /\ TaskOf[x.robot] \in Int /\ x.robot \in Int
    BY <2>3, WeightsAreNumbers, Zenon
  <2> HIDE DEF wait, high
  <2> QED
    BY <2>3, <2>4
<1>2. ASSUME NEW x, NEW y
      PROVE  RanksBefore(x, y) <=> Before(x, y)
  BY Zenon DEF RanksBefore
<1> HIDE DEF wait, high
<1>3. p.id # q.id => Before(p, q) # Before(q, p)
  BY <1>1
<1>4. Before(p, q) /\ Before(q, s) => Before(p, s)
  BY <1>1
<1> HIDE DEF Before
<1> QED
  BY <1>2, <1>3, <1>4

(* Whatever is done, waits start at instants: no operation but the passing *)
(* of time changes the start of a wait, and that by one.                   *)
LEMMA RequestKeepsDates ==
  ASSUME NEW req, WaitsDated, Request(req)
  PROVE  WaitsDated'
PROOF
<1>1. now' \in Int /\ now' = now
  BY DEF Request, WaitsDated
<1>2. CASE ClearWait(req.robot)
  BY <1>1, <1>2 DEF ClearWait, WaitsDated
<1>3. CASE NoteWait(req.robot, req.resource, RobotsOf(Verdict(req).blockers))
  <2>1. WaitStart(req.robot, req.resource) \in Int
    BY DEF WaitStart, WaitsDated
  <2>2. DOMAIN waits' = DOMAIN waits \cup {req.robot}
    BY <1>3 DEF NoteWait
  <2>3. \A robot \in DOMAIN waits' :
          waits'[robot].since = IF robot = req.robot
                                THEN WaitStart(req.robot, req.resource)
                                ELSE waits[robot].since
    BY <1>3, <2>2 DEF NoteWait
  <2> QED
    BY <1>1, <2>1, <2>2, <2>3 DEF WaitsDated
<1> QED
  BY <1>2, <1>3 DEF Request

(* A wait starts at an instant, whatever is asked, used, reclaimed or let  *)
(* go afterwards (note_wait, clear_wait).                                  *)
THEOREM DatesKept == BatchSpec => []WaitsDated
PROOF
<1>1. BatchInit => WaitsDated
  BY DEF BatchInit, WaitsDated, NoWishes
<1>2. WaitsDated /\ [BatchNext]_batchVars => WaitsDated'
  <2> SUFFICES ASSUME WaitsDated, [BatchNext]_batchVars
               PROVE  WaitsDated'
    OBVIOUS
  <2>1. CASE Decide
    BY <2>1, RequestKeepsDates DEF Decide
  <2>2. ASSUME NEW robot \in Robot, Fail(robot) PROVE WaitsDated'
    BY <2>2 DEF Fail, ReleaseAllFor, ClearWait, WaitsDated
  <2>3. CASE Elapse
    <3>1. Patience \in Int
      BY BatchAssumption
    <3>2. DOMAIN waits' = DOMAIN waits /\ now' = now
      BY <2>3 DEF Elapse
    <3>3. \A robot \in DOMAIN waits :
            waits'[robot].since \in {waits[robot].since, waits[robot].since - 1}
      BY <2>3, <3>1 DEF Elapse, Aged, WaitsDated
    <3> QED
      BY <3>2, <3>3 DEF WaitsDated
  <2>4. CASE UNCHANGED <<waits, now>>
    BY <2>4 DEF WaitsDated
  <2>5. ASSUME NEW req \in Requests, Want(req) PROVE UNCHANGED <<waits, now>>
    BY <2>5 DEF Want, vars
  <2>6. CASE RequestAll
    BY <2>6, <2>4 DEF RequestAll, vars
  <2>7. CASE Use
    BY <2>7, <2>4 DEF Use, Activate, Release, Cancel
  <2>8. CASE Reclaim
    BY <2>8, <2>4 DEF Reclaim, Sweep
  <2>9. CASE Tidy
    BY <2>9, <2>4 DEF Tidy, Purge
  <2>10. CASE UNCHANGED batchVars
    BY <2>10, <2>4 DEF batchVars, vars
  <2> QED
    BY <2>1, <2>2, <2>3, <2>4, <2>5, <2>6, <2>7, <2>8, <2>9, <2>10 DEF BatchNext
<1> QED
  BY <1>1, <1>2, PTL DEF BatchSpec

(* For every fleet, priorities, tasks and ageing, the order in which        *)
(* request_all decides is total over any requests of different ids: what   *)
(* it decides does not depend on the vector it was given.                  *)
THEOREM OrderNeverDepends == BatchSpec => []BatchOrderIsTotal
PROOF
<1>1. ASSUME NEW p \in Requests
      PROVE  Nameable(p)
  BY RequestAssumption, BatchAssumption DEF RequestSet, Nameable
<1>2. WaitsDated => BatchOrderIsTotal
  BY <1>1, ComparisonIsTotal DEF BatchOrderIsTotal
<1> QED
  BY <1>2, DatesKept, PTL

-----------------------------------------------------------------------------
(* Who is passed by.  A robot is asked for once in every instant as long as *)
(* it wants something, so that the refusals tries counts are the time it    *)
(* has waited: until it is decided in an instant exactly, afterwards one    *)
(* more.  The loop changes the wait of the robot it decides and of no       *)
(* other, so that the order the batch was put in stays the order of those   *)
(* still to come, and whoever was favoured before them outweighs them.      *)

ToCome == {batch[i].robot : i \in DOMAIN batch}

Undecided(robot) == ~asked \/ robot \in ToCome

(* One entry for each robot that wants something; of the call under way    *)
(* the requests still to be decided, one for each robot.                   *)
WishesTyped ==
  /\ now = 0 /\ asked \in BOOLEAN
  /\ DOMAIN wants \subseteq Robot /\ IsFiniteSet(DOMAIN wants)
  /\ \A robot \in DOMAIN wants : wants[robot] \in Requests /\ wants[robot].robot = robot
  /\ tries \in [Robot -> 0..Patience]
  /\ batch \in Seq(Requests)
  /\ batch # << >> => asked
  /\ \A i \in DOMAIN batch :
       batch[i].robot \in DOMAIN wants /\ batch[i] = wants[batch[i].robot]
  /\ \A i, j \in DOMAIN batch : i # j => batch[i].robot # batch[j].robot

(* How long a robot has waited is how often it was refused.                *)
WaitCounted(robot) ==
  /\ robot \in DOMAIN wants
  /\ waits[robot].resource = wants[robot].resource
  /\ waits[robot].since \in (-Patience)..0
  /\ Undecided(robot) => tries[robot] = 0 - waits[robot].since
  /\ ~Undecided(robot) => tries[robot] = IF waits[robot].since > -Patience
                                         THEN 1 - waits[robot].since ELSE Patience

WaitsCounted ==
  /\ \A robot \in DOMAIN waits : WaitCounted(robot)
  /\ \A robot \in Robot \ DOMAIN waits : tries[robot] = 0

InOrder ==
  \A p, q \in Requests : \A i, j \in DOMAIN batch :
    batch[i] = p /\ batch[j] = q /\ i < j => ~RanksBefore(q, p)

FavouredFirst ==
  \A other \in DOMAIN favoured :
    /\ other \in Robot /\ favoured[other] \in 0..Patience
    /\ \A robot \in ToCome : ~Outweighed(other, robot)

TurnsInv == WishesTyped /\ WaitsCounted /\ InOrder /\ FavouredFirst

(* What ageing adds in a number of instants.                               *)
Raise(waited) == (AgingGain * waited) \div AgingPeriod

LEMMA RaiseGrows ==
  ASSUME NEW a \in Nat, NEW b \in Nat, a <= b
  PROVE  Raise(a) \in Int /\ Raise(b) \in Int /\ Raise(a) <= Raise(b)
<1> DEFINE x == AgingGain * a
           y == AgingGain * b
<1>1. AgingGain \in Nat /\ AgingPeriod \in Nat \ {0}
  BY BatchAssumption
<1>2. PICK d \in Nat : b = a + d
  <2>1. b - a \in Nat /\ b = a + (b - a)
    OBVIOUS
  <2>. QED  BY <2>1
<1>3. AgingGain * (a + d) = AgingGain * a + AgingGain * d /\ AgingGain * d \in Nat
  BY <1>1
<1>4. x \in Nat /\ y \in Nat /\ x <= y
  BY <1>1, <1>2, <1>3
<1> HIDE DEF x, y
<1>5. \A p \in Nat \ {0} : x \div p \in Int /\ y \div p \in Int /\ x \div p <= y \div p
  BY <1>4
<1>. QED  BY <1>1, <1>5 DEF Raise, x, y

(* At the moment the batch is put in order, and for each robot until its   *)
(* turn has come, what it is said to have waited is what it was refused.   *)
LEMMA WaitedIsTried ==
  ASSUME WishesTyped, WaitsCounted, NEW robot \in DOMAIN wants, Undecided(robot)
  PROVE  /\ robot \in Robot /\ tries[robot] \in 0..Patience
         /\ WaitedFor(robot, wants[robot].resource) = tries[robot]
<1>1. robot \in Robot /\ tries[robot] \in 0..Patience /\ now = 0 /\ Patience \in Nat
  BY BatchAssumption DEF WishesTyped
<1>2. CASE robot \notin DOMAIN waits
  BY <1>1, <1>2 DEF WaitsCounted, WaitedFor
<1>3. CASE robot \in DOMAIN waits
  <2>1. /\ waits[robot].resource = wants[robot].resource
        /\ waits[robot].since \in (-Patience)..0
        /\ tries[robot] = 0 - waits[robot].since
    BY <1>3 DEF WaitsCounted, WaitCounted
  <2>2. WaitedFor(robot, wants[robot].resource)
          = IF now > waits[robot].since THEN now - waits[robot].since ELSE 0
    BY <1>3, <2>1 DEF WaitedFor
  <2>. QED  BY <1>1, <2>1, <2>2
<1>. QED  BY <1>1, <1>2, <1>3

(* Who matters no more, has been refused no more often and is not at the    *)
(* ceiling comes after.                                                    *)
LEMMA LighterComesAfter ==
  ASSUME NEW p, NEW q, p.robot \in Robot, q.robot \in Robot, NEW m \in Nat, NEW n \in Nat,
         WaitedFor(p.robot, p.resource) = m, WaitedFor(q.robot, q.resource) = n,
         Priority[p.robot] <= Priority[q.robot], m <= n,
         Priority[p.robot] # Priority[q.robot] \/ m # n,
         Priority[p.robot] + Raise(m) < PriorityCeiling
  PROVE  RanksBefore(q, p)
<1>1. Priority[p.robot] \in Int /\ Priority[q.robot] \in Int /\ PriorityCeiling \in Int
  <2>1. PriorityCeiling \in Nat
    BY BatchAssumption
  <2>2. Priority \in [Robot -> 0..PriorityCeiling]
    BY BatchAssumption
  <2>. QED  BY <2>1, <2>2
<1>2. Raise(m) \in Int /\ Raise(n) \in Int /\ Raise(m) <= Raise(n)
  BY RaiseGrows
<1> HIDE DEF Raise
<1>3. /\ EffectivePriority(Priority[p.robot], m) = Priority[p.robot] + Raise(m)
      /\ EffectivePriority(Priority[q.robot], n)
           = IF Priority[q.robot] + Raise(n) >= PriorityCeiling THEN PriorityCeiling
             ELSE Priority[q.robot] + Raise(n)
  BY <1>1, <1>2 DEF EffectivePriority, Raise
<1> DEFINE high == EffectivePriority(Priority[q.robot], n)
           low  == EffectivePriority(Priority[p.robot], m)
<1>4. high > low \/ (high = low /\ n > m)
  <2> DEFINE a == Priority[p.robot]
             b == Priority[q.robot]
             x == Raise(m)
             y == Raise(n)
  <2>1. low = a + x /\ high = IF b + y >= PriorityCeiling THEN PriorityCeiling ELSE b + y
    BY <1>3
  <2>2. /\ a \in Int /\ b \in Int /\ x \in Int /\ y \in Int /\ PriorityCeiling \in Int
        /\ a <= b /\ x <= y /\ m <= n /\ (a # b \/ m # n) /\ a + x < PriorityCeiling
    BY <1>1, <1>2
  <2> HIDE DEF a, b, x, y, high, low
  <2>. QED  BY <2>1, <2>2
<1>. QED  BY <1>4, Zenon DEF RanksBefore

(* Deciding the next request: its wait starts or goes on, or is over.      *)
LEMMA DecisionOnWaits ==
  ASSUME NEW req, Request(req)
  PROVE  /\ now' = now
         /\ \/ waits' = [r \in DOMAIN waits \ {req.robot} |-> waits[r]]
            \/ /\ DOMAIN waits' = DOMAIN waits \cup {req.robot}
               /\ \A r \in DOMAIN waits \ {req.robot} : waits'[r] = waits[r]
               /\ waits'[req.robot].resource = req.resource
               /\ waits'[req.robot].since = WaitStart(req.robot, req.resource)
<1>1. now' = now
  BY DEF Request
<1>2. CASE ClearWait(req.robot)
  BY <1>1, <1>2 DEF ClearWait
<1>3. CASE NoteWait(req.robot, req.resource, RobotsOf(Verdict(req).blockers))
  BY <1>1, <1>3 DEF NoteWait
<1>. QED  BY <1>2, <1>3 DEF Request

LEMMA TailOf ==
  ASSUME NEW V, NEW s \in Seq(V), s # << >>
  PROVE  /\ Tail(s) \in Seq(V) /\ Head(s) = s[1] /\ 1 \in DOMAIN s
         /\ \A i \in DOMAIN Tail(s) : i + 1 \in DOMAIN s /\ i + 1 # 1 /\ Tail(s)[i] = s[i + 1]
OBVIOUS

(* The request at the head is the last one of its robot.                   *)
LEMMA HeadLeaves ==
  ASSUME WishesTyped, ~Idle, batch' = Tail(batch)
  PROVE  /\ batch' \in Seq(Requests) /\ Head(batch) = batch[1] /\ 1 \in DOMAIN batch
         /\ Head(batch).robot \in ToCome /\ Head(batch).robot \notin ToCome'
         /\ \A r \in Robot \ {Head(batch).robot} : r \in ToCome' <=> r \in ToCome
         /\ \A i \in DOMAIN batch' : /\ i + 1 \in DOMAIN batch /\ i + 1 # 1
                                     /\ batch'[i] = batch[i + 1]
                                     /\ batch'[i].robot # Head(batch).robot
<1>1. batch \in Seq(Requests) /\ batch # << >>
  BY DEF WishesTyped, Idle
<1>2. /\ batch' \in Seq(Requests) /\ Head(batch) = batch[1] /\ 1 \in DOMAIN batch
      /\ \A i \in DOMAIN batch' : i + 1 \in DOMAIN batch /\ i + 1 # 1 /\ batch'[i] = batch[i + 1]
  BY <1>1, TailOf
<1>3. \A i \in DOMAIN batch' : batch'[i].robot # Head(batch).robot
  BY <1>2 DEF WishesTyped
<1>4. \A i \in DOMAIN batch : i # 1 => \E j \in DOMAIN batch' : batch'[j] = batch[i]
  <2> SUFFICES ASSUME NEW i \in DOMAIN batch, i # 1
               PROVE  \E j \in DOMAIN batch' : batch'[j] = batch[i]
    OBVIOUS
  <2>1. i - 1 \in DOMAIN batch' /\ batch'[i - 1] = batch[i]
    BY <1>1
  <2>. QED  BY <2>1
<1>5. Head(batch).robot \in ToCome
  BY <1>2 DEF ToCome
<1>6. Head(batch).robot \notin ToCome'
  BY <1>3 DEF ToCome
<1>7. ASSUME NEW r \in Robot, r # Head(batch).robot
      PROVE  r \in ToCome' <=> r \in ToCome
  <2>1. ASSUME r \in ToCome PROVE r \in ToCome'
    <3>1. PICK i \in DOMAIN batch : batch[i].robot = r
      BY <2>1 DEF ToCome
    <3>2. i # 1
      BY <1>2, <1>7, <3>1
    <3>3. PICK j \in DOMAIN batch' : batch'[j] = batch[i]
      BY <1>4, <3>2
    <3>. QED  BY <3>1, <3>3 DEF ToCome
  <2>2. ASSUME r \in ToCome' PROVE r \in ToCome
    BY <1>2, <2>2 DEF ToCome
  <2>. QED  BY <2>1, <2>2
<1>. QED  BY <1>2, <1>3, <1>5, <1>6, <1>7

(* Whose wait is left alone weighs what it weighed.                        *)
LEMMA SameWeights ==
  ASSUME NEW p, NEW q, now' = now,
         p.robot \in DOMAIN waits' <=> p.robot \in DOMAIN waits,
         q.robot \in DOMAIN waits' <=> q.robot \in DOMAIN waits,
         p.robot \in DOMAIN waits => waits'[p.robot] = waits[p.robot],
         q.robot \in DOMAIN waits => waits'[q.robot] = waits[q.robot]
  PROVE  RanksBefore(p, q)' <=> RanksBefore(p, q)
<1>1. WaitedFor(p.robot, p.resource)' = WaitedFor(p.robot, p.resource)
  BY DEF WaitedFor
<1>2. WaitedFor(q.robot, q.resource)' = WaitedFor(q.robot, q.resource)
  BY DEF WaitedFor
<1>. QED  BY <1>1, <1>2, Zenon DEF RanksBefore, EffectivePriority

LEMMA DecideWishes ==
  ASSUME TurnsInv, Decide
  PROVE  WishesTyped'
<1> DEFINE robot == Head(batch).robot
<1>1. WishesTyped /\ ~Idle /\ Request(Head(batch)) /\ batch' = Tail(batch) /\ asked' = asked
  BY DEF TurnsInv, Decide
<1>2. /\ batch' \in Seq(Requests) /\ Head(batch) = batch[1] /\ 1 \in DOMAIN batch
      /\ \A i \in DOMAIN batch' : /\ i + 1 \in DOMAIN batch /\ i + 1 # 1
                                  /\ batch'[i] = batch[i + 1] /\ batch'[i].robot # robot
  BY <1>1, HeadLeaves
<1>3. now' = 0 /\ asked' = TRUE
  BY <1>1, DecisionOnWaits DEF WishesTyped, Idle
<1>4. robot \in DOMAIN wants /\ robot \in Robot
  BY <1>2 DEF WishesTyped, TurnsInv
<1>5. tries \in [Robot -> 0..Patience] /\ Patience \in Nat
  BY BatchAssumption DEF WishesTyped, TurnsInv
<1>6. tries' \in [Robot -> 0..Patience]
  <2>1. \/ tries' = [tries EXCEPT ![robot] = IF @ < Patience THEN @ + 1 ELSE @]
        \/ tries' = [tries EXCEPT ![robot] = 0]
    BY DEF Decide
  <2>. QED  BY <1>4, <1>5, <2>1
<1>7. /\ DOMAIN wants' \in {DOMAIN wants, DOMAIN wants \ {robot}}
      /\ \A r \in DOMAIN wants' : wants'[r] = wants[r]
  BY DEF Decide, Without
<1>8. /\ DOMAIN wants' \subseteq Robot /\ IsFiniteSet(DOMAIN wants')
      /\ \A r \in DOMAIN wants' : wants'[r] \in Requests /\ wants'[r].robot = r
  BY <1>1, <1>7, FS_Subset DEF WishesTyped
<1>9. \A i, j \in DOMAIN batch' : i # j => batch'[i].robot # batch'[j].robot
  <2> SUFFICES ASSUME NEW i \in DOMAIN batch', NEW j \in DOMAIN batch', i # j
               PROVE  batch'[i].robot # batch'[j].robot
    OBVIOUS
  <2>1. i \in Nat /\ j \in Nat
    BY <1>2
  <2>2. i + 1 # j + 1
    BY <2>1
  <2>. QED  BY <1>1, <1>2, <2>2 DEF WishesTyped
<1>10. \A i \in DOMAIN batch' :
         batch'[i].robot \in DOMAIN wants' /\ batch'[i] = wants'[batch'[i].robot]
  BY <1>1, <1>2, <1>7 DEF WishesTyped
<1>. QED  BY <1>2, <1>3, <1>6, <1>8, <1>9, <1>10 DEF WishesTyped

LEMMA DecideWaits ==
  ASSUME TurnsInv, Decide
  PROVE  WaitsCounted'
<1>0. PICK robot : robot = Head(batch).robot
  OBVIOUS
<1>1. /\ WishesTyped /\ WaitsCounted /\ ~Idle /\ Request(Head(batch))
      /\ batch' = Tail(batch) /\ asked' = asked
  BY DEF TurnsInv, Decide
<1>2. /\ Head(batch) = batch[1] /\ 1 \in DOMAIN batch
      /\ robot \in ToCome /\ robot \notin ToCome'
      /\ \A r \in Robot \ {robot} : r \in ToCome' <=> r \in ToCome
  BY <1>0, <1>1, HeadLeaves
<1>3. now' = 0 /\ now = 0 /\ asked = TRUE /\ asked' = TRUE
  BY <1>1, DecisionOnWaits DEF WishesTyped, Idle
<1>4. robot \in DOMAIN wants /\ robot \in Robot /\ Head(batch) = wants[robot]
  BY <1>0, <1>1, <1>2 DEF WishesTyped
<1>5. tries \in [Robot -> 0..Patience] /\ Patience \in Nat
  BY <1>1, BatchAssumption DEF WishesTyped
<1>6. DOMAIN waits \subseteq DOMAIN wants /\ DOMAIN wants \subseteq Robot
  BY <1>1 DEF WaitsCounted, WaitCounted, WishesTyped
<1>7. \A r \in Robot \ {robot} : Undecided(r)' <=> Undecided(r)
  BY <1>1, <1>2 DEF Undecided
<1>8. CASE robot \in DOMAIN waits'
  <2>1. /\ DOMAIN waits' = DOMAIN waits \cup {robot}
        /\ \A r \in DOMAIN waits \ {robot} : waits'[r] = waits[r]
        /\ waits'[robot].resource = wants[robot].resource
        /\ waits'[robot].since = WaitStart(robot, wants[robot].resource)
    BY <1>0, <1>1, <1>4, <1>8, DecisionOnWaits
  <2>2. /\ tries' = [tries EXCEPT ![robot] = IF @ < Patience THEN @ + 1 ELSE @]
        /\ wants' = wants
    BY <1>0, <1>8 DEF Decide
  <2>3. ASSUME NEW r \in DOMAIN waits', r # robot PROVE WaitCounted(r)'
    <3>1. r \in DOMAIN waits /\ r \in Robot /\ waits'[r] = waits[r] /\ tries'[r] = tries[r]
      BY <1>5, <1>6, <2>1, <2>2, <2>3
    <3>2. WaitCounted(r)
      BY <1>1, <3>1 DEF WaitsCounted
    <3>. QED  BY <1>7, <2>2, <2>3, <3>1, <3>2 DEF WaitCounted
  <2>4. WaitCounted(robot)'
    <3>1. ~Undecided(robot)' /\ Undecided(robot)
      BY <1>2, <1>3 DEF Undecided
    <3>2. waits'[robot].since \in (-Patience)..0 /\ tries[robot] = 0 - waits'[robot].since
      <4>1. CASE robot \in DOMAIN waits
        <5>1. WaitCounted(robot)
          BY <1>1, <4>1 DEF WaitsCounted
        <5>2. waits'[robot].since = waits[robot].since
          BY <2>1, <4>1, <5>1 DEF WaitCounted, WaitStart
        <5>. QED  BY <3>1, <5>1, <5>2 DEF WaitCounted
      <4>2. CASE robot \notin DOMAIN waits
        <5>1. waits'[robot].since = 0
          BY <1>3, <2>1, <4>2 DEF WaitStart
        <5>2. tries[robot] = 0
          BY <1>1, <1>4, <4>2 DEF WaitsCounted
        <5>3. 0 \in (-Patience)..0
          BY <1>5
        <5>. QED  BY <5>1, <5>2, <5>3
      <4>. QED  BY <4>1, <4>2
    <3>3. tries'[robot] = IF tries[robot] < Patience THEN tries[robot] + 1 ELSE tries[robot]
      BY <1>4, <1>5, <2>2
    <3>4. tries'[robot] = IF waits'[robot].since > -Patience
                          THEN 1 - waits'[robot].since ELSE Patience
      BY <1>5, <3>2, <3>3
    <3>. QED  BY <1>4, <2>1, <2>2, <3>1, <3>2, <3>4 DEF WaitCounted
  <2>5. \A r \in Robot \ DOMAIN waits' : tries'[r] = 0
    BY <1>1, <1>5, <2>1, <2>2 DEF WaitsCounted
  <2>. QED  BY <2>3, <2>4, <2>5 DEF WaitsCounted
<1>9. CASE robot \notin DOMAIN waits'
  <2>1. waits' = [r \in DOMAIN waits \ {robot} |-> waits[r]]
    BY <1>0, <1>1, <1>9, DecisionOnWaits
  <2>2. tries' = [tries EXCEPT ![robot] = 0] /\ wants' = [r \in DOMAIN wants \ {robot} |-> wants[r]]
    BY <1>0, <1>9 DEF Decide, Without
  <2>3. ASSUME NEW r \in DOMAIN waits' PROVE WaitCounted(r)'
    <3>1. r \in DOMAIN waits /\ r \in Robot /\ r # robot
          /\ waits'[r] = waits[r] /\ tries'[r] = tries[r]
      BY <1>5, <1>6, <2>1, <2>2, <2>3
    <3>2. WaitCounted(r)
      BY <1>1, <3>1 DEF WaitsCounted
    <3>3. r \in DOMAIN wants' /\ wants'[r] = wants[r]
      BY <2>2, <3>1, <3>2 DEF WaitCounted
    <3>. QED  BY <1>7, <3>1, <3>2, <3>3 DEF WaitCounted
  <2>4. \A r \in Robot \ DOMAIN waits' : tries'[r] = 0
    BY <1>1, <1>4, <1>5, <2>1, <2>2 DEF WaitsCounted
  <2>. QED  BY <2>3, <2>4 DEF WaitsCounted
<1>. QED  BY <1>8, <1>9

LEMMA DecideOrder ==
  ASSUME TurnsInv, Decide
  PROVE  InOrder'
<1>1. WishesTyped /\ ~Idle /\ Request(Head(batch)) /\ batch' = Tail(batch) /\ InOrder
  BY DEF TurnsInv, Decide
<1>2. \A i \in DOMAIN batch' : /\ i \in Nat /\ i + 1 \in DOMAIN batch /\ batch'[i] = batch[i + 1]
                               /\ batch'[i].robot # Head(batch).robot
  BY <1>1, HeadLeaves
<1>3. ASSUME NEW p \in Requests, NEW q \in Requests,
             NEW i \in DOMAIN batch', NEW j \in DOMAIN batch',
             batch'[i] = p, batch'[j] = q, i < j
      PROVE  ~RanksBefore(q, p)'
  <2>1. i + 1 < j + 1 /\ batch[i + 1] = p /\ batch[j + 1] = q
    BY <1>2, <1>3
  <2>2. ~RanksBefore(q, p)
    BY <1>1, <1>2, <2>1 DEF InOrder
  <2>3. p.robot # Head(batch).robot /\ q.robot # Head(batch).robot
    BY <1>2, <1>3
  <2>4. /\ now' = now
        /\ \A r : r # Head(batch).robot =>
             /\ r \in DOMAIN waits' <=> r \in DOMAIN waits
             /\ r \in DOMAIN waits => waits'[r] = waits[r]
    BY <1>1, DecisionOnWaits
  <2>. QED  BY <2>2, <2>3, <2>4, SameWeights
<1>. QED  BY <1>3 DEF InOrder

LEMMA DecideFavours ==
  ASSUME TurnsInv, Decide
  PROVE  FavouredFirst'
<1>1. /\ WishesTyped /\ WaitsCounted /\ InOrder /\ FavouredFirst
      /\ ~Idle /\ batch' = Tail(batch)
  BY DEF TurnsInv, Decide
<1>2. PICK ahead \in Requests : ahead = Head(batch)
  BY <1>1, HeadLeaves DEF WishesTyped
<1>3. /\ batch[1] = ahead /\ 1 \in DOMAIN batch /\ ahead.robot \in ToCome
      /\ ahead.robot \notin ToCome'
      /\ \A i \in DOMAIN batch' : i \in Nat /\ i + 1 \in DOMAIN batch /\ i + 1 # 1
                                    /\ batch'[i] = batch[i + 1]
      /\ \A r \in Robot : r \in ToCome' => r \in ToCome
  BY <1>1, <1>2, HeadLeaves
<1>4. PICK robot : robot = ahead.robot
  OBVIOUS
<1>5. /\ robot \in DOMAIN wants /\ wants[robot] = ahead /\ robot \in Robot
      /\ \A r \in ToCome : r \in DOMAIN wants /\ r \in Robot /\ Undecided(r)
  BY <1>1, <1>3, <1>4 DEF WishesTyped, ToCome, Undecided
<1>6. tries \in [Robot -> 0..Patience]
  BY <1>1 DEF WishesTyped
<1>7. \A r \in Robot : r # robot => tries'[r] = tries[r]
  BY <1>2, <1>4, <1>6 DEF Decide
<1>8. ToCome' \subseteq ToCome \ {robot}
  BY <1>3, <1>4, <1>5 DEF ToCome
<1>9. ASSUME NEW other \in DOMAIN favoured, favoured'[other] = favoured[other]
      PROVE  /\ other \in Robot /\ favoured'[other] \in 0..Patience
             /\ \A r \in ToCome' : ~Outweighed(other, r)'
  <2>1. other \in Robot /\ favoured[other] \in 0..Patience
        /\ \A r \in ToCome : ~Outweighed(other, r)
    BY <1>1 DEF FavouredFirst
  <2>2. ASSUME NEW r \in ToCome' PROVE ~Outweighed(other, r)'
    <3>1. r \in ToCome /\ tries'[r] = tries[r]
      BY <1>5, <1>7, <1>8
    <3>. QED  BY <1>9, <2>1, <3>1 DEF Outweighed
  <2>. QED  BY <1>9, <2>1, <2>2
<1>10. CASE UNCHANGED favoured
  BY <1>9, <1>10 DEF FavouredFirst
<1>11. CASE favoured' = [r \in DOMAIN favoured \cup {robot} |->
                          IF r = robot THEN tries[r] ELSE favoured[r]]
  <2>1. favoured'[robot] = tries[robot] /\ tries[robot] \in 0..Patience
        /\ tries[robot] \in Nat
    BY <1>5, <1>6, <1>11, BatchAssumption
  <2>2. ASSUME NEW r \in ToCome', Outweighed(robot, r)' PROVE FALSE
    <3>1. r \in ToCome /\ r \in Robot /\ r \in DOMAIN wants /\ Undecided(r)
          /\ tries'[r] = tries[r]
      BY <1>5, <1>7, <1>8
    <3>2. PICK i \in DOMAIN batch' : batch'[i].robot = r
      BY <2>2 DEF ToCome
    <3>3. PICK behind \in Requests : behind = batch[i + 1]
      BY <1>1, <1>3 DEF WishesTyped
    <3>4. behind.robot = r /\ behind = wants[r] /\ 1 < i + 1 /\ i + 1 \in DOMAIN batch
      BY <1>1, <1>3, <3>2, <3>3 DEF WishesTyped
    <3>5. ~RanksBefore(behind, ahead)
      BY <1>1, <1>3, <3>3, <3>4 DEF InOrder
    <3>6. WaitedFor(robot, ahead.resource) = tries[robot]
      BY <1>1, <1>3, <1>4, <1>5, WaitedIsTried
    <3>7. WaitedFor(r, behind.resource) = tries[r] /\ tries[r] \in 0..Patience
      BY <1>1, <3>1, <3>4, WaitedIsTried
    <3>8. /\ Priority[robot] <= Priority[r] /\ tries[robot] <= tries[r]
          /\ Priority[robot] # Priority[r] \/ tries[robot] # tries[r]
          /\ Priority[robot] + Raise(tries[robot]) < PriorityCeiling
      BY <2>1, <2>2, <3>1 DEF Outweighed, Raise
    <3>9. tries[robot] \in Nat /\ tries[r] \in Nat
      BY <2>1, <3>7, BatchAssumption
    <3>10. RanksBefore(behind, ahead)
      BY <1>4, <1>5, <3>1, <3>4, <3>6, <3>7, <3>8, <3>9, LighterComesAfter
    <3>. QED  BY <3>5, <3>10
  <2>3. ASSUME NEW other \in DOMAIN favoured, other # robot
        PROVE  favoured'[other] = favoured[other]
    BY <1>11, <2>3
  <2>4. DOMAIN favoured' = DOMAIN favoured \cup {robot}
    BY <1>11
  <2>. QED  BY <1>5, <1>9, <2>1, <2>2, <2>3, <2>4 DEF FavouredFirst
<1>12. \/ UNCHANGED favoured
       \/ favoured' = [r \in DOMAIN favoured \cup {robot} |->
                         IF r = robot THEN tries[r] ELSE favoured[r]]
  BY <1>2, <1>4 DEF Decide
<1>. QED  BY <1>10, <1>11, <1>12

(* A robot is given something to do: it is not waiting for anything yet.   *)
LEMMA WantKeeps ==
  ASSUME TurnsInv, NEW req \in Requests, Want(req)
  PROVE  TurnsInv'
<1>1. WishesTyped /\ WaitsCounted /\ InOrder /\ FavouredFirst
  BY DEF TurnsInv
<1>2. /\ req.robot \notin DOMAIN wants /\ batch = << >>
      /\ DOMAIN wants' = DOMAIN wants \cup {req.robot}
      /\ wants'[req.robot] = req
      /\ \A r \in DOMAIN wants : wants'[r] = wants[r]
      /\ UNCHANGED <<now, waits, asked, batch, tries, favoured>>
  BY DEF Want, Idle, vars
<1>3. req.robot \in Robot
  <2>1. req.robot \in Robot \cup {None} /\ req.robot # None
    BY RequestAssumption, BatchAssumption DEF RequestSet
  <2>. QED  BY <2>1
<1>4. IsFiniteSet(DOMAIN wants')
  BY <1>1, <1>2, FS_AddElement DEF WishesTyped
<1>5. WishesTyped'
  BY <1>1, <1>2, <1>3, <1>4 DEF WishesTyped
<1>6. ASSUME NEW r \in DOMAIN waits PROVE WaitCounted(r)'
  <2>1. WaitCounted(r)
    BY <1>1 DEF WaitsCounted
  <2>. QED  BY <1>2, <2>1 DEF WaitCounted, Undecided, ToCome
<1>7. WaitsCounted'
  BY <1>1, <1>2, <1>6 DEF WaitsCounted
<1>8. DOMAIN batch' = {}
  BY <1>2
<1>9. InOrder' /\ FavouredFirst'
  BY <1>1, <1>2, <1>8 DEF InOrder, FavouredFirst, ToCome
<1>. QED  BY <1>5, <1>7, <1>9 DEF TurnsInv

(* The call begins: everything that is wanted, in order.                   *)
LEMMA RequestAllKeeps ==
  ASSUME TurnsInv, RequestAll
  PROVE  TurnsInv'
<1> DEFINE asks == {wants[robot] : robot \in DOMAIN wants}
           D == 1..Cardinality(asks)
<1>1. WishesTyped /\ WaitsCounted /\ ~asked
  BY DEF TurnsInv, RequestAll
<1>2. IsFiniteSet(asks) /\ Cardinality(asks) \in Nat
  <2>1. IsFiniteSet(asks)
    BY <1>1, FiniteRange DEF WishesTyped
  <2>. QED  BY <2>1, FS_CardinalityType
<1>3. /\ batch' \in [D -> asks]
      /\ \A i, j \in D : i # j => batch'[i] # batch'[j]
      /\ \A i, j \in DOMAIN batch' : i < j => ~RanksBefore(batch'[j], batch'[i])
  <2>1. /\ batch' \in Seqs!SetToSeqs(asks)
        /\ \A i, j \in DOMAIN batch' : i < j => ~RanksBefore(batch'[j], batch'[i])
    BY DEF RequestAll, Sorted
  <2> HIDE DEF asks
  <2>2. Seqs!SetToSeqs(asks) = {f \in [D -> asks] : \A i, j \in D : i # j => f[i] # f[j]}
    BY Zenon DEF Seqs!SetToSeqs, Cardinality, Seqs!Cardinality
  <2>. QED  BY <2>1, <2>2
<1>4. asks \subseteq Requests /\ \A ask \in asks : ask.robot \in DOMAIN wants /\ ask = wants[ask.robot]
  BY <1>1 DEF WishesTyped
<1> HIDE DEF asks
<1>5. batch' \in Seq(Requests) /\ DOMAIN batch' = D
  BY <1>2, <1>3, <1>4
<1>6. /\ asked' = TRUE /\ UNCHANGED <<now, waits, wants, tries>> /\ DOMAIN favoured' = {}
  BY DEF RequestAll, vars, NoWishes
<1>7. \A i \in DOMAIN batch' :
        batch'[i].robot \in DOMAIN wants' /\ batch'[i] = wants'[batch'[i].robot]
  BY <1>3, <1>4, <1>6
<1>8. \A i, j \in DOMAIN batch' : i # j => batch'[i].robot # batch'[j].robot
  BY <1>3, <1>5, <1>6, <1>7
<1>9. WishesTyped'
  BY <1>1, <1>5, <1>6, <1>7, <1>8 DEF WishesTyped
<1>10. \A r \in DOMAIN wants : r \in ToCome'
  <2> SUFFICES ASSUME NEW r \in DOMAIN wants
               PROVE  \E i \in DOMAIN batch' : batch'[i].robot = r
    BY DEF ToCome
  <2>1. wants[r] \in asks /\ wants[r].robot = r
    BY <1>1 DEF WishesTyped, asks
  <2>2. batch' \in Surjection(D, asks)
    <3>1. batch' \in Injection(D, asks)
      BY <1>3 DEF Injection, IsInjective
    <3>2. Cardinality(D) = Cardinality(asks)
      BY <1>2, FS_Interval
    <3>. QED  BY <1>2, <3>1, <3>2, FS_Injection
  <2>3. \E i \in D : batch'[i] = wants[r]
    BY <2>1, <2>2 DEF Surjection
  <2>. QED  BY <1>5, <2>1, <2>3
<1>11. ASSUME NEW r \in DOMAIN waits PROVE WaitCounted(r)'
  <2>1. WaitCounted(r) /\ Undecided(r)
    BY <1>1 DEF WaitsCounted, Undecided
  <2>2. Undecided(r)'
    BY <1>10, <2>1 DEF WaitCounted, Undecided
  <2>. QED  BY <1>6, <2>1, <2>2 DEF WaitCounted
<1>12. WaitsCounted'
  BY <1>1, <1>6, <1>11 DEF WaitsCounted
<1>13. ASSUME NEW p \in Requests, NEW q \in Requests,
              NEW i \in DOMAIN batch', NEW j \in DOMAIN batch',
              batch'[i] = p, batch'[j] = q, i < j
       PROVE  ~RanksBefore(q, p)'
  <2>1. ~RanksBefore(q, p)
    BY <1>3, <1>13
  <2>. QED  BY <1>6, <2>1, SameWeights
<1>14. InOrder' /\ FavouredFirst'
  BY <1>6, <1>13 DEF InOrder, FavouredFirst
<1>. QED  BY <1>9, <1>12, <1>14 DEF TurnsInv

(* The manager's other calls, between two batches.                         *)
LEMMA SameTurns ==
  ASSUME TurnsInv, UNCHANGED <<waits, now, wants, asked, batch, tries, favoured>>
  PROVE  TurnsInv'
<1>1. WishesTyped'
  BY DEF TurnsInv, WishesTyped
<1>2. ToCome' = ToCome
  BY DEF ToCome
<1>3. WaitsCounted'
  BY <1>2 DEF TurnsInv, WaitsCounted, WaitCounted, Undecided
<1>4. ASSUME NEW p \in Requests, NEW q \in Requests PROVE RanksBefore(q, p)' <=> RanksBefore(q, p)
  BY SameWeights
<1>5. InOrder'
  BY <1>4 DEF TurnsInv, InOrder
<1>6. FavouredFirst'
  BY <1>2 DEF TurnsInv, FavouredFirst, Outweighed
<1>. QED  BY <1>1, <1>3, <1>5, <1>6 DEF TurnsInv

LEMMA NobodyToCome ==
  ASSUME Idle
  PROVE  DOMAIN batch = {} /\ ToCome = {}
BY DEF Idle, ToCome

LEMMA FailKeeps ==
  ASSUME TurnsInv, NEW robot \in Robot, Fail(robot)
  PROVE  TurnsInv'
<1>1. /\ Idle /\ UNCHANGED <<now, asked, batch, favoured>>
      /\ waits' = [r \in DOMAIN waits \ {robot} |-> waits[r]]
      /\ wants' = [r \in DOMAIN wants \ {robot} |-> wants[r]]
      /\ tries' = [tries EXCEPT ![robot] = 0]
  BY DEF Fail, ReleaseAllFor, ClearWait, Without
<1>2. DOMAIN batch = {} /\ ToCome = {} /\ DOMAIN batch' = {} /\ ToCome' = {}
  BY <1>1, NobodyToCome DEF ToCome
<1>3. WishesTyped /\ WaitsCounted /\ FavouredFirst
  BY DEF TurnsInv
<1>4. WishesTyped'
  <2>1. IsFiniteSet(DOMAIN wants')
    BY <1>1, <1>3, FS_Subset DEF WishesTyped
  <2>2. tries' \in [Robot -> 0..Patience]
    BY <1>1, <1>3, BatchAssumption DEF WishesTyped
  <2>. QED  BY <1>1, <1>2, <1>3, <2>1, <2>2 DEF WishesTyped
<1>5. ASSUME NEW r \in DOMAIN waits' PROVE WaitCounted(r)'
  <2>1. r \in DOMAIN waits /\ r # robot /\ waits'[r] = waits[r]
    BY <1>1, <1>5
  <2>2. WaitCounted(r)
    BY <1>3, <2>1 DEF WaitsCounted
  <2>3. r \in Robot /\ tries'[r] = tries[r] /\ r \in DOMAIN wants' /\ wants'[r] = wants[r]
    BY <1>1, <1>3, <2>1, <2>2 DEF WishesTyped, WaitCounted
  <2>4. Undecided(r)' <=> Undecided(r)
    BY <1>1, <1>2 DEF Undecided
  <2>. QED  BY <2>1, <2>2, <2>3, <2>4 DEF WaitCounted
<1>6. \A r \in Robot \ DOMAIN waits' : tries'[r] = 0
  BY <1>1, <1>3 DEF WaitsCounted, WishesTyped
<1>7. WaitsCounted'
  BY <1>5, <1>6 DEF WaitsCounted
<1>8. InOrder' /\ FavouredFirst'
  BY <1>1, <1>2, <1>3 DEF InOrder, FavouredFirst
<1>. QED  BY <1>4, <1>7, <1>8 DEF TurnsInv

(* An instant passes: all who wait have been asked for, and are again to   *)
(* be decided.                                                             *)
LEMMA ElapseKeeps ==
  ASSUME TurnsInv, Elapse
  PROVE  TurnsInv'
<1>1. /\ Idle /\ asked' = FALSE /\ (asked \/ DOMAIN wants = {})
      /\ UNCHANGED <<now, wants, batch, tries, favoured>>
      /\ waits' = [r \in DOMAIN waits |-> Aged(waits[r])]
  BY DEF Elapse
<1>2. DOMAIN batch = {} /\ ToCome = {} /\ DOMAIN batch' = {} /\ ToCome' = {}
  BY <1>1, NobodyToCome DEF ToCome
<1>3. WishesTyped /\ WaitsCounted /\ FavouredFirst
  BY DEF TurnsInv
<1>4. WishesTyped'
  BY <1>1, <1>2, <1>3 DEF WishesTyped, Idle
<1>5. ASSUME NEW r \in DOMAIN waits' PROVE WaitCounted(r)'
  <2>1. r \in DOMAIN waits /\ waits'[r] = Aged(waits[r])
    BY <1>1, <1>5
  <2>2. WaitCounted(r)
    BY <1>3, <2>1 DEF WaitsCounted
  <2>3. ~Undecided(r) /\ Undecided(r)'
    BY <1>1, <1>2, <1>3, <2>2 DEF Undecided, WaitCounted, WishesTyped
  <2> DEFINE since == waits[r].since
  <2>4. /\ since \in (-Patience)..0
        /\ tries[r] = IF since > -Patience THEN 1 - since ELSE Patience
        /\ waits[r].resource = wants[r].resource /\ r \in DOMAIN wants
    BY <2>2, <2>3 DEF WaitCounted
  <2>5. /\ waits'[r].resource = waits[r].resource
        /\ waits'[r].since = IF since > -Patience THEN since - 1 ELSE since
    BY <2>1 DEF Aged
  <2>6. Patience \in Nat
    BY BatchAssumption
  <2> HIDE DEF since
  <2>7. waits'[r].since \in (-Patience)..0 /\ tries[r] = 0 - waits'[r].since
    BY <2>4, <2>5, <2>6
  <2>. QED  BY <1>1, <2>3, <2>4, <2>5, <2>7 DEF WaitCounted
<1>6. WaitsCounted'
  BY <1>1, <1>3, <1>5 DEF WaitsCounted
<1>7. InOrder' /\ FavouredFirst'
  BY <1>1, <1>2, <1>3 DEF InOrder, FavouredFirst
<1>. QED  BY <1>4, <1>6, <1>7 DEF TurnsInv

LEMMA InitTurns == BatchInit => TurnsInv
<1> SUFFICES ASSUME BatchInit PROVE TurnsInv
  OBVIOUS
<1>1. /\ now = 0 /\ DOMAIN wants = {} /\ DOMAIN waits = {} /\ DOMAIN favoured = {}
      /\ asked = FALSE /\ batch = << >> /\ tries = [robot \in Robot |-> 0]
  BY DEF BatchInit, NoWishes
<1>2. DOMAIN batch = {} /\ batch \in Seq(Requests) /\ IsFiniteSet(DOMAIN wants)
  BY <1>1, FS_EmptySet
<1>3. tries \in [Robot -> 0..Patience]
  BY <1>1, BatchAssumption
<1>4. WishesTyped /\ WaitsCounted
  BY <1>1, <1>2, <1>3 DEF WishesTyped, WaitsCounted
<1>5. InOrder /\ FavouredFirst
  BY <1>1, <1>2 DEF InOrder, FavouredFirst
<1>. QED  BY <1>4, <1>5 DEF TurnsInv

LEMMA NextTurns == TurnsInv /\ [BatchNext]_batchVars => TurnsInv'
<1> SUFFICES ASSUME TurnsInv, [BatchNext]_batchVars PROVE TurnsInv'
  OBVIOUS
<1>1. ASSUME NEW req \in Requests, Want(req) PROVE TurnsInv'
  BY <1>1, WantKeeps
<1>2. ASSUME RequestAll PROVE TurnsInv'
  BY <1>2, RequestAllKeeps
<1>3. ASSUME Decide PROVE TurnsInv'
  BY <1>3, DecideWishes, DecideWaits, DecideOrder, DecideFavours DEF TurnsInv
<1>4. ASSUME NEW robot \in Robot, Fail(robot) PROVE TurnsInv'
  BY <1>4, FailKeeps
<1>5. ASSUME Elapse PROVE TurnsInv'
  BY <1>5, ElapseKeeps
<1>6. ASSUME Use PROVE TurnsInv'
  BY <1>6, SameTurns DEF Use, Activate, Release, Cancel
<1>7. ASSUME Reclaim PROVE TurnsInv'
  BY <1>7, SameTurns DEF Reclaim, Sweep
<1>8. ASSUME Tidy PROVE TurnsInv'
  BY <1>8, SameTurns DEF Tidy, Purge
<1>9. ASSUME UNCHANGED batchVars PROVE TurnsInv'
  BY <1>9, SameTurns DEF batchVars, vars
<1>. QED  BY <1>1, <1>2, <1>3, <1>4, <1>5, <1>6, <1>7, <1>8, <1>9 DEF BatchNext

(* For every fleet, priority and ageing, however many batches went before: *)
(* whoever is refused while another was favoured in the same batch matters *)
(* less, or waited less, or age has lifted both to the ceiling             *)
(* (request_all, effective_priority).                                      *)
THEOREM NobodyPassesBy == BatchSpec => NobodyIsPassedBy
<1> DEFINE Fair(robot) ==
             ~Idle /\ Head(batch).robot = robot =>
               \A other \in waits'[robot].blocked_by \cap DOMAIN favoured :
                 ~Outweighed(other, robot)
<1>1. TurnsInv => \A robot \in DOMAIN waits' : Fair(robot)
  <2> SUFFICES ASSUME TurnsInv, NEW robot, ~Idle, Head(batch).robot = robot,
                      NEW other \in DOMAIN favoured
               PROVE  ~Outweighed(other, robot)
    OBVIOUS
  <2>1. batch \in Seq(Requests) /\ batch # << >>
    BY DEF TurnsInv, WishesTyped, Idle
  <2>2. robot \in ToCome
    BY <2>1, TailOf DEF ToCome
  <2>. QED  BY <2>2 DEF TurnsInv, FavouredFirst
<1>2. TurnsInv => [\A robot \in DOMAIN waits' : Fair(robot)]_batchVars
  BY <1>1
<1> HIDE DEF Fair
<1>. QED  BY <1>2, InitTurns, NextTurns, PTL DEF BatchSpec, NobodyIsPassedBy, Fair
=============================================================================
