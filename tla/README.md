# Traffic control, verified

TLA+ specifications of the multi-robot traffic control library in this repository, checked
with TLC and, where a result should hold for every fleet and every map, proved with TLAPS.

The library is a set of registers and algorithms that a traffic controller composes. The
controller itself, the robots, the network and the store that survives a restart are not in
`src/`; they appear here as an environment that may do whatever the interfaces let it do.

## The system

| Part | State it keeps | Operations | What makes it correct |
|---|---|---|---|
| Reservation table (`src/src/reservation/reservation_table.cpp`) | records, an index of holding claims by resource and start, an index by robot, a counter | admission check; insert, set_state, set_window_end, mark_committed, purge | indices and counter say what the records say; an admitted claim leaves no instant overbooked, no head-on corridor claims, no crossing movements |
| Reservation manager (`reservation_manager.cpp`, `reservation_policy.cpp`) | the table, the waits | request, request_all, activate, extend, release, release_all_for, cancel, commit, expire, sweep, recover | a grant is not taken back for a competitor, is used or reclaimed; a batch is decided in an order its list does not set, and who waits gets there; a restart restores only what fits together |
| Conflict rules and detector (`conflict_rules.cpp`, `conflict_detector.cpp`) | none | detect, detect_between | complete, independent of the order of its input, one verdict per pair and place |
| State manager (`src/src/state/state_manager.cpp`) | a record per robot, the fleet version | register, deregister, apply, assign_state, record_command, assign_route, assign_task | a plan made on an old picture can be told from a current one; late reports do not turn the picture back; a wait has a reason |
| Stall policy (`stall_policy.cpp`) | none (the progress mark is in the record) | has_progressed, assess_stall, state_for | who stands is found out, who travels is left alone, however reports and decisions mix |
| Task manager (`src/src/task/task_manager.cpp`) | a record per task, the version of the set | create, remove, assign, advance, set_priority, set_deadline | no live work is lost or started twice; status and stamps agree |
| Task assignment seam (`task_assignment.cpp`) | none | assignment_requests, apply_assignments | an engine learns what became of each proposal |
| Global planner (`src/src/planning/`) | a route counter | plan_route, replan_route, estimate_route_cost; the sequential fleet planner | routes are drivable and cheapest, the same input gives the same route, a route is not swapped without reason |
| Map and validator (`src/src/map/map.cpp`, `map_validator.cpp`) | immutable once built | validate, make_map; look-ups, traversal, reachability, resources | every name means one thing that admits somebody; corridors lead from end to end; reachable is what can be driven |
| Map loader (`map_loader.cpp`) | none; a file between save and load | load_map, save_map, make_corridor, make_intersection, make_waiting_bay | what was loaded and saved loads again as the same map |
| Logging, value types | none | formatting | |

How they meet. The controller asks the planner for a route, requests the resources along it
from the reservation manager window by window, tells the state manager what it decided and
what it commanded, and feeds it the reports the robots send. The task side turns tasks into
assignments. Components share no memory; each register is called from one thread and every
call runs to its end before the next, so the interleavings that matter are between *calls*:
a decision is computed on a picture, the picture moves, and the decision arrives.

What is hard here:

* ordering: requests, activations, extensions, sweeps and releases of several robots in any
  order; reports late, repeated and out of order; answers of engines that arrive after the
  register moved on;
* stale indices and stale plans: redundant structures updated by hand in every operation,
  versions that must move exactly when something does;
* restarts: a store whose claims were written at different times;
* boundaries of half-open windows, occupancy sampled at finitely many instants;
* long sequences of legal calls: extensions that add up, transitions that compose to one the
  table forbids.

`PROJECT.json` lists each hazard with its line and the properties that would catch it.

## Modules

Each module names its operators after the code's. A call is one action: its early returns are
guards, and a refused call changes nothing and is therefore no step, unless the refusal leaves
something behind (a recorded wait, a list of refused proposals).

| Module | Models |
|---|---|
| `TimeWindow` | half-open windows, overlap, the buffers around a request (`effective_window`) |
| `ReservationState` | states of a claim and their transitions |
| `ReservationTable` | records, the index of holders ordered by start, the index by robot, the counter; `Check`/`Admitted`, `Reindex` (set_state and insert), `WithWindowEnd`, `MarkCommitted`, `PurgeTerminalBefore` |
| `ReservationManager` | every lifecycle operation on the table, and the waits |
| `ReservationBatch` | `request_all` on top of the manager: priorities, ageing, the order of a batch, and robots that keep asking for as long as they want the place; an hour-glass instead of a calendar, so that it can go on for ever |
| `ReservationRecovery` | the manager, a store that lags behind it, and restarts: `recover()` with its loop unrolled and nothing else running meanwhile |
| `ReservationLedger` | what the manager promises, abstractly: bookings of instants of space by robots |
| `ReservationRefinement` | the mapping: a holding claim books the instants of its window |
| `RobotState`, `StateManager` | the record of each robot, the transition table, waits and their reasons, the fleet version, commands and acknowledgements, the progress mark; `plan` remembers what a planner last saw |
| `FleetTelemetry` | the state manager between robots that report over a network and a controller that commands: reports are kept for ever and delivered in any order, any number of times or never. The controller also climbs the stall ladder (`Watch`); `track` observes what was accepted of each robot |
| `TaskManager` | the register of tasks, its transition table, stamps and version |
| `TaskAssignment` | the seam to assignment engines, which answer in their own time from what they were asked |
| `ConflictRules` | windows and places in which two claims meet, which kind of conflict that is and how severe, which of two descriptions is kept |
| `ConflictDetector` | what a route claims (visits, traversals, passages of corridors, crossings), the five passes over routes and reservations, the reduction; queries come and go and every one is answered anew |
| `MapValidation` | a draft that is edited, `validate` check by check, `make_map`, and the queries of the map it builds |
| `MapFile` | a file by entries and fields, each given, left out or of the wrong type; loading with its defaults, working on the map, saving whole or cut short, loading again |
| `RouteMap` | what the planner reads of a map, costs, and route validation |
| `AStarSearch` | `plan_route`, one turn of its loop a step |
| `FleetPlanning` | batches through the sequential planner, replans, and routes that are driven while traffic and time move between the calls |
| `Documented...Rules` | sentences of the repository's own comments that the code does not keep |
| `...Proofs`, `FiniteSetFacts` | theorems and their proofs, and facts about finite sets, folds and lists they share |
| `MC...` | instances for TLC |

Operators marked *Slip* stand beside the definition they resemble. Each is what a plausible
mistake would have made of that code; replacing the definition by it breaks the property named
in `PROJECT.json`, which shows that the instance is large enough for the property to matter.

Not in `src/`, and therefore modelled as free environment: the controller (any call at any
time), robots (report what they like, clocks ahead by at most `Skew`), the network (loses,
delays, repeats, reorders), the store (saves each claim some time after it changed), assignment
engines (answer anything about what they were asked, late), traffic conditions.

## Runs

Time is a few integers, and every bound below is a constant of a `.cfg` or a set in an `MC`
module.

| Run | Instance | Shows |
|---|---|---|
| `floor` | three robots, a corridor and a junction that take two each, three ids, instants 0..2, extensions to 3 | `IndexAgrees` `CountAgrees` the redundant structures; `CapacityRespected` `ExclusionRespected` what the table is for; `GrantsNotTakenBack` `ClaimsOnlyGrow` what may happen to a claim once it stands; `WaitsNameOthers` what deadlock detection will read |
| `turns` | three robots, two of priority 0 and one of priority 1, ceiling 1, one point of ageing in two instants, one place for one robot, batches for ever | `BatchOrderIsTotal` the list handed in decides nothing; `NobodyIsPassedBy` by one who matters less and has waited no longer; liveness: `AskersAreServed`, `GrantsUsedOrReclaimed` |
| `recovery` | two robots, a corridor of no stated capacity, two ids, a store of any age | `ImplementsLedger` every step, restarts included, is one of the ledger's, which books no place beyond its room and no two that clash; `RestartLosesNothing` what was saved up to date comes back |
| `conflicts` | three robots, a lane of two edges, a corridor for two, an intersection, an edge of an older map; routes that pause in the lane; up to three of nine routes and four grants at a time, plan times 0..5, clock at 0 and 2 | `EveryContentionIsFound` `NoFalseAlarm` the passes against a reading of the plans instant by instant; `ExclusionIsNamed` head-on and crossing are called that; `OrderDecidesNothing` `MoreTrafficHidesNothing` what the reduction may not lose |
| `map` | a site of three nodes, two edges and a corridor, drawn or as a file; up to two edits out of three dozen, most of them mistakes, of the drawing or of the file; numbers of four bits | `NamesCanBeTrusted` `ResourcesLeadThrough` `ReachabilityIsTrue` what everyone who looks things up relies on; `RoundTrips` a loaded map that is worked on and saved whole loads as the same map |
| `telemetry` | one robot, three reports from two places, one within the threshold of the origin and one far, two commands, versions up to 5, T1 and T2 of one and two instants | `PlansGoStale` (a plan that still carries the fleet's version describes the fleet), `PictureMovesForward`, `ReasonIffWaiting`, `AcknowledgedIsHeard`, `StallsAreFound` |
| `assignment` | two tasks, two robots, one engine with answers of two proposals, versions up to 6; tasks are offered as `make_task` builds them, with stamps and from the future, and as `create` refuses them; priorities 1, 2 and one out of range, one deadline | `StampsAgree` `WorkIsKept` `VersionMovesWithTasks` for the register, `EngineKnows` for the seam: of each task proposed, the last word |
| `planning` | three floors of five nodes and seven edges, one of them with a travel time stated below zero, three heuristics and caps, batches of up to two robots, two traffic conditions, three closures | answers that are drivable and, where the estimate can be trusted, cheapest; edge order that decides nothing, complete batches that end, route changes with a reason |
| `committed` `silent` `strict` `cheapest` | the smallest instance that shows it | one disagreement each, see below |

Why the bounds are enough. Three robots and a capacity of two are the least for which counting
differs from pairwise comparison; windows of length one and two that start one apart give every
overlap and adjacency, and an extension past all of them the rest. Three reports are the least
with an old one between a new one and its repetition; versions up to five leave room for a
departure, a return and two reports. One of two places is within the progress threshold of the
origin, the other twice the threshold beyond it, so that robots creep, jump and come back. In `turns` two
robots of the higher or the lower priority can pass a place back and forth while the third
asks; waits longer than `Patience` count alike because priorities have met the ceiling by then,
windows older than `Past` because nothing tells them apart. Two proposals are the least of which one can be refused while another
takes effect. Three routes are the least of which two can be in a corridor for two when a third
comes, and of which two describe one meeting differently. Two edits are one mistake and one that hides it,
of a file and of the map loaded from it; numbers of four bits wrap as those of 32 do. The floor has parallel and equally good edges, one-way edges both ways, a
disabled edge, a preferred resource off the straight way, a closed resource, and a cap that is
hit. Sums of the model are whole numbers: how doubles round is not modelled.

Views and symmetry. `LiveView` drops the grant time of a claim no longer pending and the commit
mark of a claim that has ended: every read of either is guarded by that state
(`ReservationManager!Stale`, `Cancel`, `MayDisplace`). `SavedView` drops waits too, which no
property of that run reads and no other action tests, and grant times, because no grant times
out before the clock stops. `WithoutPlan` drops the planner's memory, which no action reads.
`WhatIsRead` drops the version each task record carries and the list of refused proposals, which no
action reads; the properties that speak of the latter are about the step that makes it. `Alike`
permutes robots, which nothing orders; the run has no liveness.

Fairness. `turns` assumes that the controller asks again for those who still want something,
which is what `request_all` is made for, that it purges, and that a call of the manager runs on
to its end; these actions stay enabled, so weak fairness will do. It sweeps "now and then" and
time passes, but a call under way, or a claim that ended and is not purged yet, can stand in
the way at one moment; for these two strong fairness says that it does not do so for ever. No robot has to do anything: what it
does not use is reclaimed. `planning` assumes that a call of the planner runs on, as any
synchronous call does. Nothing else is assumed to happen.

Deadlock is checked everywhere but on the run of the task register: it is a passive
object, and once its bounded versions are spent and nobody calls there is no further step.

## Disagreements between the text and the code

| Run | The text | The code |
|---|---|---|
| `committed` | a committed robot's grant is not withdrawn | `sweep` expires every pending claim past its timeout, committed or not: requested, committed, one tick, one sweep, and the claim is gone while its window lasts. `TimerSpec` leaves nothing else to do it |
| `silent` | `stale_robots` lists the robots whose last observation is older than the limit | decisions of traffic control move `observed_at`, so a robot nobody hears from looks fresh |
| `strict` | a map file in which a field has the wrong type is not loaded | `optional_field` takes its default: a lane with `"enabled": "false"` is open |
| `cheapest` | the scaled straight line can never exceed the true cost | a stated travel time may undercut the speed limit the scale is made of |

Met on the way, and left without a run:

* reservations: a rejection beyond the horizon is called final and is not; two robots may
  report entering a corridor from both ends; a request repeated after a purge is a new one; wait
  edges are as old as the last ask; a claim nobody entered may displace others when it is
  extended;
* batches: `waits_` has one entry for each robot, and a refusal on another resource, or any
  grant, starts its wait anew; ageing weighs requests of one batch only, so robots that book
  ahead, single calls of `request()` and extensions can pass a waiting robot for ever, which
  docs/26 (SC-022), docs/09 (section 16) and docs/28 do not say; at the ceiling the base
  priority is forgotten, which `NobodyIsPassedBy` exempts; two requests of one id are in no
  order;
* conflicts: a reservation of a waiting bay is compared by the bay's name and a route standing
  in it by the node's, so the two never meet, although `detect` "compares every reservation with
  both" routes; a crossing over a movement the map does not define is a conflict for the
  detector and none for the table; the severity of a pair is that of the description kept, even
  if another meeting of the two comes earlier;
* maps: `disconnected_graph` means not reachable *from the first node*, so a one-way edge into
  it is reported; the edges of an intersection and of its movements may be dangling; an edge, a
  node and a resource may have one name; a blank resource name is never a duplicate, which only
  map data assembled past the builders can show, so drawn resources have names here; `map.h`, `graph.h` and a test say an edge belongs to
  the corridor that claims it, `resource_for_edge` asks the edge alone, so a corridor over an
  edge that states nothing is a valid map of which the planner and the table see no corridor;
* map files: a capacity wraps modulo 2^32, so that -1 admits four thousand million; `"nodes": null`
  is an empty list, while a number or a word in the place of any list is a schema violation; a
  travel time of the wrong type is zero, and one below zero loads and validates, though
  `cost_model.h` says that costs are non-negative; corridors lose their travel times when saved; `save_map` empties the
  file first and does not look whether writing succeeded; maps a program builds (a corridor
  with one end for both, or without edges, an intersection without nodes) may be saved and not
  loaded, so `RoundTrips` speaks of loaded maps;
* robots: a decision stamped by one clock hides reports stamped by a slower one; failed,
  unknown, moving; the progress mark starts at the origin of the map and is not set anew when
  a robot has waited or idled, so the ladder counts that time too and an idle robot can be
  judged failed at once; with `minimum_progress` zero, which is accepted, a robot that reports
  is never stalled; a robot declared failed that still reports `moving` is refused with its
  position, and its mark stays;
* tasks: `create` looks at neither stamp nor at whether `created_at` has come, so a task may start
  its life with an end before its start; running, planning, assigned hands started work to another robot, which
  `task_manager.h` says cannot happen; `advance()` reaches `assigned` without a robot; the
  second engine's answer takes a task from the first's robot;
* planning: a replan prices the driven part of the old route; where an edge takes less than no time
  even the zero estimate does not find the cheapest way (`astar_planner.h` claims it for costs that
  are not negative, which nobody checks), and a replan may take a dearer route for an old one that
  cost less than nothing.

## Theorems

TLC speaks of the instances above, the theorems of every set of robots, resources, requests,
maps and times that meets the named assumptions (`...Assumption` in each module). Where the code
relies on something its interfaces do not check, the theorem says so in a hypothesis with a name;
each is met by the instance TLC runs or by the plain reading of the constants, and the entry below
says what goes wrong without it.

* **Reservations** (`ReservationManagerProofs`). Types, indices, the
  counter, capacity, exclusion and the waits, as `Spec => []...`; grants that stand and claims that
  only grow, as action properties. The inductive invariant is
  `TypeOK /\ IndexAgrees /\ CapacityAlways /\ ExclusionRespected`. Capacity alone is not
  inductive: a check that trusts the index is right only if the index is. `CapacityAlways` is
  capacity at *every* natural instant, which the check establishes by looking at few;
  `SamplingIsExact` is the theorem between the two. The step of each operation is reduced to
  what it does to claims: none gains time (`NoClaimGains`), or one does, after admission
  (`OneClaimGains`).
* **The ledger** (`ManagerKeepsLedger` for the refinement, `LedgerNeverCrowded` for what its rules
  add up to). Every call maps to a booking, a prolongation, a
  withdrawal or a stutter. Hypothesis `WindowsShow`: the clock shows an instant of every window
  that can be asked for; a claim between two ticks books nothing anybody can see, and the step
  that makes it would be none of the ledger's.
* **Restarts** (`RestartsLoseNothing`, `RestartsKeepOrder`, `RestartsKeepLedger`). A claim
  that comes back is admitted like any other, so capacity and exclusion hold whatever the age of
  each saved claim. For what comes back, the invariant adds that what is saved is well formed
  (`SavedTyped`) and, where the store was up to date, that what is back is a part of it and all of
  it fits together (`Faithful`): then in whatever order claims are restored none stands in the way
  of another.
* **Batches** (`ReservationBatchProofs`): the comparison of `request_all` is a total order for
  every fleet, priority and ageing (`OrderNeverDepends`); the invariant is that waits start at
  instants, without which ages compare as nothing. `NobodyPassesBy` needs more (`TurnsInv`): a
  robot not yet decided in an instant has waited as many instants as it was refused
  (`WaitsCounted`), because the controller asks for everybody once an instant; deciding one
  changes no other's wait, so that those still to come are in order (`InOrder`) and nobody ahead
  of them is outweighed by one of them (`FavouredFirst`).
* **Conflict rules and detector** (`ConflictDetectorProofs`). For any claims, windows and
  capacities, sampling the starts in a shared span is exact (`CapacityConflictIsExact`). The five
  passes together give the one table of the best descriptions of the candidates (`IsTable`), so
  the order of routes, reservations and candidates is lost (`ConflictsIgnoreOrder`), because
  `IsBetterDescription` is a total order up to what is said, and more traffic hides no conflict
  (`MoreTrafficStillTells`). Against the plans read instant by instant: nothing is reported that
  does not happen (`AlarmsAreTrue`), what happens is reported (`GrantedContentionIsFound` for
  grants, `ContentionIsFound` for routes too), and head-on and crossing are called that
  (`ExclusionIsTold`). Their hypotheses are what maps are drawn and routes planned for and
  neither the validator nor `make_route` insists on: edges that share a resource share a corridor,
  which claims the pause between them, and are not named as nodes (`SharedEdgesAreLanes`); the
  windows of a route are in order (`TimeRunsForward`); a corridor comes by no node twice and
  routes follow it (`CorridorsAreLines`, `RoutesFollowCorridors`); an intersection has a name of
  its own (`CrossroadsAreNamed`); `AlarmsAreTrue` asks at every instant (`Instants = Int`), of
  which TLC asks a few. `MCConflictDetector` assumes them of its map and routes, and TLC
  evaluates them there.
* **Manager and rules together** (`GrantsNeverConflict`): the grants that stand at any moment
  raise no capacity conflict. Table and detector count at different instants over different
  sets of claims; both countings are exact, so they agree.
* **Robot states** (`StateManagerProofs`): types, a reason exactly while a robot waits, and
  that a plan carrying the current version describes the current fleet. Inductive together:
  the last needs that no record carries a version beyond the fleet's, a part of `TypeOK`.
* **Robots over a network** (the same module). `FleetOnlyCalls`: reports, the network and the
  controller add no step to the state manager's, so what is proved of it holds of the fleet.
  `AcknowledgedWasReceived` needs that an acknowledgement travels only after its command
  (`AcksReached`). `NothingMovesBackwards` and `StallsAreToldRight` need where the progress mark
  stands and that a record shows the last report it took in (`PictureInv`). Timestamps are
  instants of a clock that does not end (`TimestampsFit`), and for the last two no robot's clock
  is ahead (`InStepFit`): with one ahead, a decision dates a record back and an older report is
  taken in, which TLC shows in a few steps.
* **Tasks** (`TaskManagerProofs`): types, stamps, `WorkIsKept` and `VersionMovesWithTasks`. `create` takes a
  task as it is offered, so what `StampsAgree` says of any task is less than what it says of one
  that came without stamps (`fresh`, remembered for the property alone). The
  invariant adds that no such task started in the future, without which a finish stamped now could
  precede its start. With assignment engines, for proposals of any length
  (`BatchesKeepTheRegister`, `BatchesKeepWork`, `BatchesAreCounted`): `AppliedOneByOne` turns the
  fold over an answer into its steps, one proposal each. `EnginesLearn`: a task the
  last proposal for which comes back is untouched, one for which it does not has that robot.

* **Maps and their files** (`MapProofs`). The invariant is that a draft and a file hold what
  their types say, that a map that was built passed validation, and that one just loaded is what
  its file says (`LoadedIsFile`). What follows is what validity gives (`ValidIsClean`), check by
  check: names resolve where they stand (`MapsResolve`); the fold over the edges of a corridor,
  followed one by one, leaves a list of the nodes it came by, which reads both ways
  (`CorridorsArePassages`). The search finds what some way leads to because a ring holds what one
  move reaches; it stops in time because a shortest way comes by no node twice, so that as many
  rings as nodes are enough (`SearchFindsWhatCanBeDriven`). `LoadedMapsRoundTrip` goes through
  the text element by element: a capacity that was wrapped is below 2^w and wraps no more, an
  element that passed the builders passes again, and a list left out was empty. Assumed: what
  marks a field as left out or mistyped is no value of any field, a drawn corridor has edges and
  every drawn resource a name, as `make_corridor` and its like demand.

* **Planner** (`PlanningProofs`). The invariant (`FleetInv`) is about a search: the way to each
  node leads on from a settled one, over an allowed edge, and costs what the way there and the
  edge cost (`WaysHold`); whoever is not settled has an entry at its cost (`NobodyForgotten`); each
  settled node came from one settled before it (`SettledInOrder`), which is why the way back ends
  at the start and the walk that `reconstruct` makes can be driven (`RoutesCanBeDriven`). Around it
  it says what a batch has come to so far (`BatchesAnswerEveryRobot`), and that no route in force
  was planned in the future (`ReplansAreJustified`). The expansion of a node, whose fold is taken
  edge by edge, gives each far end the least of cost and edge id (`BestOver`); there is one such
  frontier (`OrderOfEdgesDecidesNothing`). That answers are cheapest (`NobodyKnowsABetterWay`) needs
  more (`BestInv`): what can be driven to from a settled node is known, at no more than it costs
  from there, and what is settled was due no later than what is open. The second part holds
  when the estimate is `Consistent`, which `EstimatesAreConsistent` derives from the condition in
  `AnswersAreBest`: no edge shorter than its line, none faster than the limit. The zero estimate
  needs `NoneTakesNegativeTime`; without it TLC finds a dearer answer on the third floor. On any map
  an answer costs what some walk costs, and replans are cheaper than an old route that cost no less
  than nothing. Costs are whole
  numbers in the model, so what rounding does to a tie is not covered.

How the recursion is proved. The library's induction theorems take an operator for a parameter,
which no installed prover can instantiate. `FiniteSetFacts` therefore states induction over a
*set* of numbers (`InductionUpTo`, from the least counterexample) and that a fold has its partial
results (`FoldExists`, `IterationExists`); what a fold computes is proved from the list of them.

Only model-checked: liveness (`AskersAreServed`, `GrantsUsedOrReclaimed`, `BatchesEnd`), which
is beyond the prover with everything that speaks of ENABLED.

## Not modelled, and what comes next

Left out for good: formatting and logging, value types nobody keeps, the text of a map file
below its fields (`PROJECT.json` gives the reason for each). A composition of the planner keeps one map for as long
as it lives, so the check of a route's map version has nothing to refuse and is left out too. A reservation of a waiting bay is
left out of `conflicts`, because the code does not compare it with routes.

In order:

1. Safety arguments towards liveness: that a search under way has a step that ends it, and a
   measure that every turn lowers.
2. Fleets of several robots in `FleetTelemetry`; extensions in `ReservationBatch`; the journal
   of decisions.
