# LifelongTA in TLA+

Models, checks and proofs of the lifelong multi-agent path finding start kit in `src/` with its
default planner and schedulers: a team of agents moves on a grid, tasks (sequences of errands) are
revealed all the time, a scheduler gives tasks to agents and a planner moves them, one action per
agent and timestep.

- [1. The system](#1-the-system): components, state, interaction, what is hard
- [2. The models](#2-the-models): modules and how they correspond to the code
- [3. The checks](#3-the-checks): runs, bounds, fairness, what they show
- [4. The proofs](#4-the-proofs): theorems, inductive invariants, assumptions
- [5. Disagreements found](#5-disagreements-found)
- [6. What is not modelled](#6-what-is-not-modelled)
- [7. Plan](#7-plan)

To check: `tlc -config X.cfg M` for the runs of `PROJECT.json`, `tlapm M.tla` for the modules named
`...Proofs`.

## 1. The system

One process. The main thread is `BaseSystem::simulate`; it starts one planner thread per round and
waits for it with a time limit.

| Component | Source (under `src/`) | State | Operations | Must hold |
|---|---|---|---|---|
| Competition system | `src/CompetitionSystem.cpp` | shared environment, proposed plan and schedule, `started`, lost timesteps, costs | `initialize`, `simulate`, `plan`, `sync_shared_env` | late plans are executed in the state they were made for; every timestep is counted once; threads are joined before their results are read; the simulation ends |
| Simulator, action model | `src/Simulator.cpp`, `src/ActionModel.cpp` | locations, timestep, movements, errors, waiting counters | `move`, `sync_shared_env`, `is_valid` | agents move as in multi-agent path finding; legal plans are executed, illegal ones not at all |
| Task manager | `src/TaskManager.cpp` | pool, assignment, finished tasks, statistics, events | `update_tasks` (validate, set, advance, finish, reveal) | no task is lost, doubled or taken from its agent once opened; pool and assignment agree |
| Entry | `src/Entry.cpp` | commit window, goals | `compute`, `update_goal_locations` | inside a window tasks do not change hands |
| Task scheduler | `src/TaskScheduler.cpp` | choice of solver | `plan` dispatches to solvers 1 to 8 | - |
| Greedy scheduler (5) | `default_planner/scheduler.cpp:38` | free agents, free tasks | `schedule_plan_raw` | the sets follow the task manager; nobody idles next to a free task |
| Flow, matching (1-4) | `default_planner/scheduler.cpp` | guide paths | `schedule_plan_flow`, `..._flow_hist`, `..._matching`, `..._h` | opened tasks are kept; free agents get tasks |
| Greedy heap (6) | `default_planner/portable_greedy_heap.cpp` | candidate cache | `schedule` | accepted proposals; the cap holds; cached scores are right when they are used |
| Task matcher (7) | `default_planner/portable_assignment.cpp:330` | waiting statistics | `schedule_plan_portable_task_matcher`, `top_k_match` | accepted proposals wherever the deadline falls; the cap holds |
| Capped Hungarian (8) | `default_planner/portable_assignment.cpp:561` | - | `schedule_plan_portable_capped_hungarian` | as above |
| Hungarian algorithm | `default_planner/portable_assignment.cpp:198` | potentials, matching | `hungarian` | the assignment is a cheapest one |
| Default planner | `default_planner/planner.cpp`, `flow.cpp`, `search.cpp` | goals, guide paths, flow per edge, priorities | `plan`, `plan_pibt`, `frank_wolfe`, `astar`, `add_traj`, `remove_traj` | flow counts follow the paths; paths are cheapest in the traffic; whoever the deadline does not leave out is guided to its task; an agent that keeps its way keeps its place |
| PIBT | `default_planner/pibt.cpp` | next cells, table of decided cells | `causalPIBT`, `getAction` | every plan is legal; the first agent advances |
| Heuristics | `default_planner/heuristics.cpp` | distance tables | `get_h`, `get_heuristic`, `get_source_2_path` | distances are exact however the search is interrupted |
| Input, output, viewers, bindings | `src/driver.cpp`, `tools/`, `python/` | - | - | - |

**A round.** `simulate` copies the simulator's and the task manager's state into the shared
environment (`sync_shared_env`) and starts the planner thread (`planner_wrapper`, `Entry::compute`).
The Entry calls the scheduler in every `commit_window`-th round and keeps the schedule in the
others, sets the goals, and calls the planner. Every time the plan time limit passes, the main
thread counts a lost timestep. When the result is there, it executes the lost timesteps as waits
(`Simulator::move` of `NA`s), then the plan, then `TaskManager::update_tasks` with the schedule and
the new locations. At the horizon it stops waiting and leaves the thread running. Schedules and
plans are checked by task manager and simulator: a bad one is ignored as a whole.

**What is hard.** The two threads and the time limit; a plan that arrives late; a schedule made
from a copy of the state; moves that are legal only together (rotations) or illegal only together
(exchanges); recursion over half-updated tables in PIBT; per-timestep events that a scheduler with
a memory of its own must not miss; deadlines read between any two steps of a scheduler; a cap over
many rounds. `PROJECT.json` lists these hazards line by line, with the properties on them, and
those that no property covers yet.

## 2. The models

```
MAPF            TaskLifecycle            abstract specifications
 ^                ^
Simulator       TaskManager <--- Scheduling <--- SchedulingRound, GreedyHeap
 ^    ^           ^
 |    +-----+-----+
ActionModel |
 ^      CompetitionSystem (with the Entry)
GuidePath <--- FlowPaths                 Assignment (definition)
 ^      ^                                 ^          ^
PIBT  GuideSearch <--- Planner           Hungarian   TaskMatcher
```
`X` above `Y`: `Y` extends, instantiates or implements `X`. Each component has an `MC...` module and
`.cfg`s for TLC. Definitions carry the names of the functions and fields they model.

**`TaskManager`** - one step is one `update_tasks`: the schedule is validated and set
(`validate_task_assignment`, `set_task_assignment`), the agents' locations advance their tasks,
finished tasks leave the pool and new ones are revealed. Inputs: any schedule, with unknown ids,
doubles and wrong sizes, and any placement of the agents in distinct cells. The modelled
`validate_task_assignment` decides; the log text of the errors is left out, their number is kept.
`TaskLifecycle` is what a task goes through, seen from outside; `LifecycleSpec` is the refinement.

**`ActionModel`, `Simulator`** - locations are linear as in the code, so rows can be wrapped around
and the checks against that are real. `is_valid` stops at the first faulty agent, in the order of
its loop, with the entry it logs. `move` executes all or nothing. The waiting counters are kept in
two steps, by `move` and `sync_shared_env`, as in the code. The decayed averages `past_waitings`
are left out: doubles that nothing but solver 2 reads. Start locations are distinct and free, as
the instances have them. `MAPF` is the definition of a conflict-free move that `Simulator` refines.

**`CompetitionSystem`** - extends `Simulator` and instantiates `TaskManager`, with the main thread (`main`
is its program counter) and the planner thread (`compute`); its specification is `SystemSpec`. `PlanTimeout` may come at any point of
the thread's work; `GiveUp` leaves it running. Scheduler and planner return anything. The branch of
`sync_shared_env` for a running thread is not modelled as nothing reaches it (`JoinedBeforeUse`). Of the copy of the
pool the errands left are kept; `update_goal_locations` reads it by `operator[]`, which puts a task without errands
under every id that is not there (`PoolRead`). That a schedule longer than the team writes past the end of
`goal_locations` (`Entry.cpp:60`) is not modelled: what is too long is cut off there.
`Initialize` takes the initial reveal from the task manager's `Init`. The field `all_valid` is set
and never read (and would be false even for a faultless run); it is left out.

**`PIBT`** - the recursion of `causalPIBT` as a stack of frames, a step per iteration of its loop:
take a free candidate, push the agent that is in it, skip, or fail. The candidates come by the
heuristic with ties in any order, as the code breaks them at random. `Guides` and `Orders` are
parameters, so nothing of the result rests on how guide paths and priorities are found. `Finish`
makes actions (`getAction`) and clears the table; `Execute` hands the plan to the action model.

**`GuidePath`, `GuideSearch`, `Planner`** - the default planner over the timesteps. `GuidePath` has the
neighbours and what paths cost, `GuideSearch` the two searches. A distance table (of a goal, or of a
guide path) is a breadth-first search that stops as soon as it can answer and goes on at the next
question: `Asked` expands entries until the cell is there. `astar` is a step per node (`Expand`), in
the order of `cmp_less_of` with its ties open; where the code ends the program, `Fails` holds and the stage is
`"exited"`. In `Planner` a call of `plan` goes through its loops: goals, the tables of all
errands that are left (the goal is the first of them) and priorities (`plan`), initial paths
(`InitialPath`, by `Search` and `Found` or taken over from a flow scheduler), the order of
Frank-Wolfe (`StartRefinement`), its refinements (`frank_wolfe`), and the sort and the questions of PIBT
(`Sort`); `late` is the deadline, which may end each loop at any agent. `plan_pibt` is the planner in the
rounds without a schedule. `get_h` is a scheduler's question to the tables that it shares with the planner.
The agents move in any way without
conflict, as PIBT is shown to do, or wait when a plan is late; that the first agent comes closer needs a map of
cycles, and nothing here depends on it. Priorities are multiples of `1 / (NumAgents + 1)` instead of doubles.

**`Hungarian`, `Assignment`** - the algorithm, a step per row, per column added to the search and
per step back along the path, over integers; `Optimal` is the definition of a cheapest assignment.
Infinite `minv` is absence from its domain.

**`TaskMatcher`** - a round of scheduler 7 from the collection of candidates to the proposal, then
the task manager's answer and what agents do until the next round. `late` is the deadline: `Expire`
may come between any two steps, and inside the candidates' search. A scene says how far the agents are from the
pickups and how long the tasks are; each round has any of a set of scenes, not tied to the agents' moves. A task is
*in reach* when there is a way to its pickup and on to its other errands (`Reaches`, `Delivers`), and `task_score` adds
these up. With `use_traffic_cost` the matrix is another one (`traffic_cost_matrix`): an agent's `traffic_top_k` nearest tasks are
priced, with any surcharge for the traffic, and all others are left at `kInvalidCost`, as if there were no way to them. `Refine` is
the second matching, on the prices that the first one's load makes. What the flow, that load and the observed
waiting add to a price is not computed but any of a set. The search (`SearchNext`) and the choice of what to keep
under the cap (`RetainedScore`) use the score without the traffic, as the code does. `BestMatches` uses the
definition that `Hungarian` is checked to implement. Tasks in a schedule are in the pool and
have an errand left (`OwnershipAgrees` and `TypeOK` of the task manager), so the branches for others
are not taken. `Invalid` is `kInvalidCost`, a parameter that no real distance comes near. The id of a finished task
stands for the one that is revealed for it.

**`Scheduling`** - what the models of the schedulers have in common: the task manager, instantiated, and what
they see of the environment.

**`SchedulingRound`** - rounds of solvers 1 to 5 and 8 with the Entry's window over the instantiated
`TaskManager`; the solver and its options are chosen at the start. Distances may be any, so the nearest
task of an agent may be any, and every matching may be a cheapest one. What is kept is who is matched
with what: the greedy scheduler's own sets, the events, the pool and the options `new_only` and
`use_traffic`; the searches of `schedule_plan_matching`, which stop early and give tasks away on the
way (`FirstMet`, `EnoughMet`); and the exit of the network simplex when no flow serves all agents, with
which nobody gets a task. The searches keep pointers to local variables that are gone when they are
read; any distances and any count of tasks met cover what comes out. The search without traffic does
not look at the cell it starts in (`Reachable`). `CappedHungarian` is solver 8: the first `MaxAgents` of the agents
without a task and any `MaxTasks` of the tasks without an agent are matched as far as they go, or the
deadline passes and nothing is.

**`FlowPaths`** - how `schedule_plan_flow` turns a flow through the map into a schedule, which `SchedulingRound`
takes for a matching. The network, with its arcs across the ends of rows and the traffic's costs, and every
cheapest flow on it; then the walk of one worker after the other, a step per arc. The order of the arcs
(`OutArcs`) is LEMON's and matters: the sink comes last. The walk of `schedule_plan_flow_hist` is the same, but its
costs (one and the average of an edge, `scheduler.cpp:1016-1019`) are not modelled, so nothing is claimed of it.
`Matchings` are the ways to give every worker a
task, `CheapestFlows` what the shortest paths of a cheapest one carry; the cells and paths are `GuidePath`'s.

**`GreedyHeap`** - rounds of solver 6: `Schedule` is `schedule` with `rebuild_candidates`, `lazy_match` and the
two refinements; `Update` is the move and `update_tasks`. A candidate list is a function from tasks to
scores; which of equal scores comes first is open. The code compares the ids in the pool's order, so rows may be
cleared also when the tasks are the same (`Held`). `LeftByHeap` says what the heap leaves when it is empty:
a pair that was passed over was passed over for a better one. The deadline may end the listing in any
row, before it or within it (any tasks stand for the multiples of 32 that the code lists between two
looks at the clock), and the heap's loop after any match. An exchange lowers the total, so the
refinements may return any permutation of the tasks with a lower total, or nothing new; the cached
lists, not the exchanges, are what lasts. Caps are numbers of agents instead of ratios. In the fair mode
(`rebuild_candidates_fair`) the rows are filled in turns, a short list each: the tasks near the agent by
its zone and landmarks, ranked by an estimate from the landmarks, and priced exactly; with traffic they are
ranked again (`Reranked`). The deadline may end the turns at any agent. The specification is `HeapSpec`.

Each module also holds the mutated definitions (named for the slip, like `GivenBackAll`) that the
properties are tried against: every checked property fails for one of them.

## 3. The checks

| Run | Instance | What it shows |
|---|---|---|
| `task_manager` | 2 agents, 3 cells, pool of 3, 3 timesteps, every schedule and every placement in each | pool and assignment agree; stamps are in order; every task is accounted for; `TaskLifecycle` is implemented |
| `simulator` | 4 agents, 3x2 with an obstacle, every placement and every action vector, one move | `MAPF` is implemented, exactly the legal plans are executed, errors name real conflicts |
| `competition_system` | 2 agents, corridor of 3, 2 tasks, window of 2, 3 timesteps, timeouts anywhere | plans fit the state they are executed in; timesteps add up; join before use; counters; the task manager is used as its own module assumes (`TasksFollowManager`) and told of every move in time, so that no agent passes its errand unnoticed (`ErrandsNoticed`); it ends |
| `planner` | 3 agents, open 2x3, two timesteps, goals that change or stay, with errands behind them or not, one refinement per timestep, guide paths handed over (one across the ends of the rows), the deadline in every loop | distance tables are exact whoever interrupts them; A* finds a cheapest path and never ends the program; the flow counts every path once; agents are led to their tasks and keep their places |
| `pibt` | 3 agents, open 2x3, every placement, timestep after timestep | legal plans, cleared table, the first agent advances, the search ends |
| `hungarian` | all matrices up to 3x3, 2x3 and 3x2 over {-1, 0, 2} | certificates, optimality, termination |
| `task_matcher` | 4 agents, 3 tasks on a line with or without a wall, 5 configurations (a cap, a matrix that does not fit, all agents, traffic without and with the joint matching), rounds without bound | proposals are accepted wherever the deadline falls; the cap holds over the rounds; nobody idles next to a task in reach (with traffic: one of its nearest) |
| `scheduling_rounds` | 2 agents, 2 cells, pool of 3, 5 timesteps, 8 solvers and options | the greedy scheduler's sets follow the task manager; the others forget nobody; rounds are complete and accepted |
| `flow_paths` | 3 workers, 2x3 with an obstacle, every placement, up to 4 tasks in 2 cells, with and without traffic, every cheapest flow | every worker is served, and the schedule is a cheapest one, although workers take each other's tasks |
| `greedy_heap` | 2 agents, corridor of 3, pool of 2, lists of 1, 3 timesteps, 6 configurations (two with fair short lists and landmarks, one with traffic), the deadline anywhere | schedules are accepted; the cap holds over the rounds and a warm-up; reused lists have the right scores |
| `timeout_keeps_tasks`, `greedy_window` | as above (`greedy_window`: 3 agents, pool of 2, window of 2) | violations, see section 5 |

**Bounds.** `SimulationTime` is the code's own horizon; the other runs are bounded by finite domains
only. One move from every placement covers every move of `simulator`: `is_valid` and `move` look at
the present state only, but for counters. Four agents are the smallest team that can rotate on a
square with a fifth cell free, and the 3x2 map has cells that are adjacent as numbers and not on the
map. In `task_manager` three timesteps are enough to reveal, assign, open, move on and finish a task
of two errands, and for a task to change hands. In `competition_system` three timesteps hold a window
of two, a late plan and a plan after it. In `pibt` the agents other than the first have flat guides,
so that every order of candidates is tried; the 2x3 map has every pair of neighbours on a cycle, which
the promise about the first agent needs. `task_matcher` has four agents because with three no cap of
one half ever drops a match, and with traffic one task is priced where two are equally near; three costs, one negative (the bonus for keeping a task), make
ties and detours for `hungarian`. In `scheduling_rounds` and `greedy_heap` two rounds are enough for what
is left over, moved or cached in one to go wrong in the next; lists of one out of two tasks are cut by
`SortK` as well as by the deadline, and `MaxMatchingEdges` of one lets searches stop as early as they can.
`scheduling_rounds` has a pool larger than the team, so that tasks are left over; agents are left over in
`greedy_window`. In `flow_paths` the map has two rows, so that its arcs across the ends of the rows exist,
and loads of one and two tasks fill a cell and leave room in it. In `planner` the second timestep starts from
every state of tables, paths and flow that the first leaves behind, with and without time for all paths; on
the open 2x3 map most errands have several paths, so that the traffic decides, and A* meets nodes again by a
better way. `MaxRefinements` is one per timestep: a refined path is replaced as an initial one is, and
`StartRefinement` takes every order; a second one in the same timestep starts from the same kind of state.
`KeepBias`, `CandidateTopK` and the ratio are parameters.

**Fairness.** `CompetitionSystem` has weak fairness on the main thread only: it never blocks without a
limit (`wait_for` returns after the plan time limit), and a participant's thread may hang, so nothing
is assumed of it. `PIBT` and `Hungarian` are single-threaded computations that run to their end:
weak fairness on their steps. The other modules state safety only and have none (`Planner`'s loops end by
their counters or the deadline).

**Deadlock** is checked where the system does not stop (`pibt`, `task_matcher`). It is not in runs
that end by their nature: a horizon, or a function that returns.

## 4. The proofs

All for every value of the constants under the named assumptions of the modules (sizes are natural
numbers, task files are not empty, placements are distinct, orders list every agent, guide paths of
the flow schedulers lie on free cells). A few results have a hypothesis of their own, said below.

**`Lemmas`** - what several proofs rest on. *Induction* over the subsets of a finite set and over numbers is
done by least counterexamples (`LeastNat`, `LeastSubset`), as the library's induction theorems take an operator, which no
backend can instantiate. *Sums* over finite sets: `MapThenSumSet` picks its elements by `CHOOSE`, so that every law
(`SumRemove`, `SumPlus`, `SumLeq`, `SumReindexed`, `SumSubset`, `SumChanged`, `SumNat`, and `SumSwap`, that a table adds up
to the same by rows and by columns) is proved by that induction. *Counting*:
`FirstFew`, `NthMember`, `RoomForAll`, `UsedUp`. *Locations*: rows and columns of `c`, `c + 1`, `c - 1`, `c + Cols`, and
when two have distance one.

**`TaskManagerProofs`** (11 theorems). `IInv` is the conjunction of `PoolInv` (types, agreement of pool
and assignment, opened tasks owned, stamps in order) with the accounting of ids and the size of
the pool. Agreement alone is not inductive: that a new schedule can be set task by task needs that it
is injective on tasks in the pool, and that the opened ones are kept. `update_tasks` is proved in
three stages, one lemma each: `SetStep`, `AdvanceStep`, `RefillStep`, stated of a pool and an assignment
and not of the variables. From `IInv`: `TypeCorrect`, `OwnershipCorrect`, `OpenedOwned`,
`StampsCorrect`, `TasksAccounted`, `PoolStaysFull`, `EventsCorrect`, the action properties `OpenedKept`
and `RejectedIgnored`, and `LifecycleImplemented`, the refinement of `TaskLifecycle`.

**`CompetitionSystemProofs`**, the simulator first. `SimInv` is `TypeOK` and `NoCollision`; an executed vector passed
`is_valid`, which `ValidIsConflictFree` turns into the absence of conflicts. `MovesCorrect` is the
refinement of `MAPF`. `LegalExecuted` and `ErrorsTrue` need `Cols > 1`: on a map of one column the location east of
a cell is the one south of it and the code takes the step for a legal one.

Then the system: every safety property of the `competition_system` run. The two components keep
their own invariants, the task manager's by an instance of `TaskManagerProofs`, so that its step lemmas are
used as they stand. The loop's invariant adds `Clock` (which timesteps are counted in which stage of the
main thread, and when the planner thread is joined), `Moving` and `Counters` (the proposed actions fit the
agents; a counter is at most the time since the last move) and `Handover` (the copy that the planner thread
was given is the present state as long as it matters, and the proposed schedule is one that the task manager
may be given). `SimulatorImplemented` and `TaskManagerImplemented` say that each step of the system is a step of the
component or leaves it alone, with the inputs its own module assumes. So `SystemCollisionFree` and
`SystemTasksAccounted` follow from what is proved of the components. `WindowHolds` says that inside a commit window a
repeated schedule is never refused. `NoErrandMissed` is what the refinements leave open, as they allow a task manager
that is not told of a move: nobody stands on its next errand unless it was the one just done (an
agent does one errand a timestep). It rests on `ArrivalsDone` of the task manager, and on waiting agents not getting anywhere.

**`SchedulerProofs`** - both models of the schedulers over the task manager. `AfterRound` says what the task manager makes of
an accepted schedule, `PairsAccepted` that agents that have opened nothing may be given tasks that nobody has,
or exchange theirs.

- *Default schedulers*. `FreeKept`: for a window of one, the sets of the greedy scheduler are exactly the agents
  without a task and the tasks without an agent; `NeverRefused`: no solver of the module has a schedule
  refused, for every window. `FreeTracked` alone is not inductive with a window: there the invariant keeps
  that nothing in the sets is wrong, and only without one that nothing is missing. `NobodyLeftBehind` and
  `RoundsServe`, with the hypothesis `CommitWindow <= 1`: the events of the timesteps inside a window are lost
  (section 5), so with one the first is false and the second says nothing. They are counting: the
  owners of the tasks that are taken are different agents, so a pool as large as the team has a task for every
  idle one (`TaskForEveryone`), the flow of all agents exists (`NobodyLeftOut`), and none is left out.
- *Greedy heap*. `HeapAccepted`, `HeapCapped`, `HeapScoresCurrent`. `ScoresCurrent` is about complete listings, but
  these reuse what listings that were cut short, of other agents and of cells since left, have written. What is
  inductive is `RowTrue`, of every row at any time: without traffic a row with a name has the scores from the
  cell written beside it (an empty list stays without a name, and so do estimates). `MatchesFacts` and `RefinedFacts`
  follow the pairs through heap and exchanges; that the rows name different agents is `NthMember`. The cap holds over the
  calls since those who had tasks and the first few of those who had none are disjoint (`LoadFacts`).

**`HungarianProofs`** - `PotentialsCorrect`, `ResultExclusive` and `ResultOptimal`, for every matrix of integers. `IInv`
says what a half-grown tree is: reduced costs are not negative and 0 on matched pairs; every column on the tree is
reached over pairs of reduced cost 0; `minv` is the least reduced cost from the tree to a column outside; and
following `way` leads to columns of lower rank (`Tree`), so that `Augment` moves along a path to the dummy
column and leaves one column out of the matching at a time. That some column is outside while the tree
grows is counting (`SurroundingsHold`): its columns hold different rows. Optimality is weak duality (`Duality`): the
potentials of the rows and of the columns in use add up to the cost of the matching and to no more than that of any other,
whichever side of the matrix is longer.

**`TaskMatcherProofs`** - all that the run checks. `IInv` says what holds at each stage of a call, wherever the deadline cuts it
off: candidates have no opened task, those without one are no more than the ratio admits, and matches give them tasks that
nobody else keeps. `ProposalsValid` and `LoadsCapped` follow from the matches that are retained and the tasks given back.
`AlwaysWorkConserving`: an optimal assignment leaves no candidate and task unmatched whose pair costs less than
`kInvalidCost` (`OptimalSaturates`: one could add the pair, or exchange it for an invalid one), in the first matching as in
the joint one (`RefineSaturates`), and nothing later undoes it. What costs `kInvalidCost` is out of reach or, with
traffic, not among the agent's `traffic_top_k` nearest tasks (`NotPriced`): an agent may stay idle next to those, and the property says so.

**`PlannerProofs`** - `PlaceKept`: priorities never meet, as what is added to an agent's first one is whole; so the order of
the last sort is strict, and adding one to all that wait keeps it. `FlowBalanced`: the flow on each edge and `soc` are
the sums of what each guide path but that of `searching` uses. A path that is removed is one that was
counted, and none is counted twice, in initial paths and refinements alike, wherever the deadline ends the loop;
a path that is overwritten without being removed was empty.

`GoalDistancesExact` and `PathDistancesExact`: tables are exact although nobody fills one at a stretch. First what `Steps` is:
the least number of moves, none to oneself, and to another cell one more than from the best neighbour (`NoSteps`,
`StepLess`); all that can be reached is reached in fewer moves than there are cells (`WithinAll`). `Exact` is the
invariant of a search that may have been stopped anywhere: what cells are told is true (`Told`), the queue is sorted and
spans two distances at most (`InTurn`), and a cell that is in the table and not in the queue has all its neighbours in the
table (`WaitsOrDone`). So what is nearer than the front is in the table (`NearerDone`, from the path outwards), and what the
front tells its neighbours is right (`FrontTells`). The tables of paths are sorted by the moves that are left on the
path as well: of two cells at the same distance, a neighbour hears of the one that is further along first. This needs that
the path visits no cell twice and is queued from its end (the mutant of the run queues it from the start). The first holds
of paths handed over by assumption and of those found as the nodes of A* form a `Tree`: closed nodes stay as they are, as
the program exits rather than improve one.

`PlanLeads`: an exact table is of use only if it knows the cells PIBT asks about. Each round of the loop finishes a cell that
was not finished (no cell is queued twice: `QueuedOnce`, `FrontDone`), so as many rounds as there are cells either find the
cell asked for or empty the queue, and then everything connected with the path is in the table (`AskedKnows`, `Flooded`).
`LeadInv` says that agents stay connected with where their path begins (`Attached`), that a search is for the agent whose
turn it is, and who is guided at each stage. From a cell off the path the neighbour on a shortest way to it is nearer, and
from a cell on the path the next one is, as it is at distance 0 and has fewer moves left (`LeadsOn`).

`SearchCheapest` and `SearchNeverFails`: A* with the order of the code. `Priced` is the invariant of a search: a node has paid
the move from its parent (`PaidMove`), a closed node has told its neighbours (`ToldAround`), and no open node has a smaller
total than a closed one (`ClosedFirst`). The last is what makes re-expansion impossible, and it needs that the queue is
ordered by the total with the traffic first, that the traffic never lowers a price below one (`TrafficCostIs`, from
`FlowBalanced`: the flow counts paths, so it is not negative) and that the guess falls by one a move at most (`GuessIs`),
which holds of exact tables and of the distance as the crow flies (`CrowSteps`). That what is read *is* the guess rests on
`GoalDistancesExact` and `AskedAllKnows`. `NoneCheaper` follows a rival path from the start: either it is still as expensive
as what the goal has paid, or the node it stands on has paid no more than it. If nothing was open but the node that is
expanded, and it improved nothing, the nodes would be closed under neighbours and hold the goal (`GoesOn`). `SearchNeverFails`
has the hypothesis `GoalsReachable`, that a goal an agent may get is connected with its start; the program does end
otherwise. `HomeInv` carries it along: agents never leave what is connected with their start. `MCPlanner` assumes it, so that
TLC evaluates it.

Also here, as they are about paths and flows on the same map, `AllServed` and `CheapestRead` of `FlowPaths`. First what
the recursion of `Paths` computes: exactly the sequences of free neighbours that visit no cell twice (`PathsAre`,
`AllPathsBetween`, by the least number of hops at which it would fail). Then distances: all cheapest paths cost the same,
and one more arc costs at most what it costs (`OneArcMore`: a path that would visit the next cell twice is cut
there). `ReadInv` is an account in three columns. `TasksCounted`: what was taken from a cell and what is left in it is what it
had. `Conserved`: the flow out of a cell is the flow into it, the workers who wait in it and the tasks taken in it. At the start
that is a fact about each path, added up over the workers (`FlowConserved`, by `SumSwap`); a step moves one unit. A worker in a
cell whose tasks are taken therefore finds more flow out than goes into the sink (`NotLost`), although it may follow the flow of
another. `WithinBudget`: the distances of those served, of the one who walks and the price of the flow left over are
together no more than the distance of any matching. At the end nothing is negative in it, so the schedule is a cheapest one. The
simplex method itself is not proved about: the model's flow is a cheapest one by definition.

**`PIBTProofs`** - `PlansLegal`: every plan PIBT makes is accepted by the simulator, for every map, team,
guide and order. In the middle of a search the tables disagree: an agent that failed to be pushed on
stays, and the one that pushed it still has the cell as its next. `Inv` says how far: `TakenDecided`
(only the agent on top of the stack may want a cell decided for another), `StackChained` (each call
was made for the cell its caller wants), `WantedByHigher` (nobody but the caller wants the cell
of an agent on the stack) and `WantedIsPushed` (an agent whose cell is wanted has chosen or is on the
stack). The absence of exchanges rests on the last two and the test at `pibt.cpp:88`. The invariant was first
checked by TLC. Also `PlansAsDecided` (one-column maps included) and `TableCleared`.

`TopAdvances` has the hypothesis `OnCycles`, that from either of two neighbouring cells one can get to the other without
stepping there directly: it is what PIBT promises its first agent under, and without it the promise is false (a dead
end). The map of the `pibt` run satisfies it: `MCPIBT` assumes it and TLC evaluates it. `TopInv` says that the first agent
takes its best cell at once, that around an agent that failed all cells are decided but that of its
caller, and so that, if the agent pushed by the first one failed, the decided cells would be closed but for the way
back to the first agent, which `OnCycles` excludes (`PushedFinds`). `OnCycles` speaks of closed sets of cells and not of
paths, so that no induction over paths is needed.

**Model-checked only**: liveness (`Terminates`, `PlanReturned`, the end of the simulation), which the prover does not do.

**Proved only**, to spend the runs on what is harder: types, the size of the pool, refused schedules, opened
tasks, events, `PlanAsDecided`, `CollisionFree` of `MAPF`; the runs check refinements and properties that
rest on them.

## 5. Disagreements found

- `timeout_keeps_tasks`: a comment of the matcher says that a timeout must not discard an unopened task; the early
  return at `portable_assignment.cpp:432` does.
- `greedy_window`: the greedy scheduler says that it keeps track of free agents and tasks across timesteps; with
  a commit window above one it misses those of the timesteps in between, for good.

Seen while modelling, without a run of its own: the search of `schedule_plan_matching` without traffic never
meets a task in the agent's own cell, and when a flow cannot serve every agent none is served. An agent left
without a task is not announced again, so solvers 1 to 4 forget it. `NobodyForgotten` shows that this cannot
happen while the pool is as large as the team, the scheduler is called in every timestep, and the search is the
one with traffic (or there is none). The flow network joins
the end of each row with the start of the next, so its paths may cross the border of the map.

Also without a run:

- `Prepare_Your_Submission.md:38` lets the timestep in the environment grow during a call of `plan`; it is
  set before the thread starts and never during a call (`CompetitionSystem.cpp:46-49` is not reached).
- `Prepare_Your_Submission.md:66` says that with little time the planner behaves like vanilla PIBT. An agent that the
  deadline leaves without a new path follows the one to its former goal: `get_gp_h` takes the table of
  the path whenever there is one (`pibt.cpp:12-23`). `GuidesLead` is about the agents before `stopped` for
that reason.
- Such an agent also starts anew with its priority in every timestep, as `plan` takes a path that ends
  elsewhere for a new goal (`planner.cpp:194`). `KeepPlace` is about the others.
- `plan_pibt` sets the task of agents without a goal only (`planner.cpp:327`): within a commit window an agent that
  has finished an errand keeps heading there until the next call of the scheduler.
- A guide path of the flow schedulers may lead across the end of a row (see above). An agent with such a path
  follows it to the border and may stay: `GuidesLead` leaves out paths that are not `Walkable`.
- In the fair mode with exact pickup distances, the bonus for waiting tasks is not in the candidates' order.

At the horizon the main thread reads the goals while the planner thread may be writing them: a data
race on the costs. `JoinedBeforeUse` shows that this is the only such point; after it the costs are
not checked, as any value may come out.

## 6. What is not modelled

Floating point: costs are integers, and the loss of precision beside `kInvalidCost` is a hazard without a
property; so are the bonus for tasks by age and the averages `past_waitings`. What nothing calls: the
diagnostic greedy
scheduler, `multi_goal_astar`, `get_deviation`, `init_dist_table`, `getNeighbors`. `get_opened_flow`, which
only reads the paths for a scheduler's costs; how traffic, zones and waiting statistics are weighed in the
scores of schedulers 6 and 7 (any surcharges); the costs of `schedule_plan_flow_hist`; a schedule longer than the
team (`Entry.cpp:60`). LEMON's network simplex, which is external. Preprocessing of landmarks
and caches. Result files, traces and logs, and SIGINT, which writes results in mid-update. Map and instance
parsing. Python bindings, viewers and scripts.

The repository's line count is dominated by what is not part of this system's logic: the vendored
JSON library (`inc/nlohmann/json.hpp`, 24,640 of 40,403 lines) and the Qt viewers and highway editor
(`tools/`, about 6,000), which show and edit files. Of the files that the models touch they cover about
two fifths of the lines; the rest is parsing, output, statistics and diagnostics.

## 7. Plan

Every safety invariant and every refinement that a run checks is proved. What is left:

1. `Planner` composed with `PIBT` itself instead of what is proved of it: `Execute` is the abstract step, and
   `PlansLegal` and `PlansAsDecided` are the facts from which its refinement follows.
2. Measures that fall with every step of `PIBT` and `Hungarian`, which are the safety part of their termination.
