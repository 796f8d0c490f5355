------------------------- MODULE CompetitionSystem -------------------------
(***************************************************************************)
(* The simulation loop (BaseSystem in src/CompetitionSystem.cpp) with the  *)
(* Entry it drives (src/Entry.cpp), the simulator and the task manager.    *)
(*                                                                         *)
(* Each round the main thread copies the state of the simulator and of the *)
(* task manager into the shared environment, starts a thread that computes *)
(* a schedule and a plan, and waits for it.  Every time the plan time      *)
(* limit passes, one timestep is lost; the lost timesteps are executed as  *)
(* waits before the plan that comes late.  At the horizon the main thread  *)
(* stops waiting, and the planner thread is left running.                  *)
(*                                                                         *)
(* Scheduler and planner are a participant's code: they return anything,   *)
(* and may never return.                                                   *)
(***************************************************************************)
EXTENDS Simulator

CONSTANTS Tasks, NumTasksReveal,
          CommitWindow,  \* commit_window: the scheduler plans in every CommitWindow-th call
          ReturnedPlans  \* the plans the planner is taken to return, legal or not

ASSUME CommitWindowAssumption == CommitWindow \in Nat
ASSUME NumTasksRevealAssumption == NumTasksReveal \in Nat

VARIABLES
  \* the task manager
  ongoing_tasks, current_assignment, finished_tasks, num_of_task_finish, latency,
  new_freeagents, new_tasks, task_id, schedule_errors, curr_timestep,
  \* the main thread
  main,                  \* "initialize", "sync", "wait", "late", "execute", "done" or "exit124"
  started,               \* it has not joined the planner thread
  timeout_timesteps,     \* timesteps lost in the current call of plan
  late_moves,            \* of which so many are executed
  total_timeouts,        \* total_timetous
  planner_times,         \* how many calls of plan are recorded
  solution_costs,        \* agent -> timesteps it has had a goal
  \* the planner thread, and what it shares with the main thread
  compute,               \* "none", "schedule", "plan" or "ready"
  time_in_commit_window,
  proposed_actions, proposed_schedule,
  env,
  \* history
  moved_at               \* agent -> the timestep in which it last left a cell

sim   == << curr_states, timestep, planner_movement, errors, accu_waitings >>
tasks == << ongoing_tasks, current_assignment, finished_tasks, num_of_task_finish, latency,
            new_freeagents, new_tasks, task_id, schedule_errors, curr_timestep >>
loop  == << main, started, timeout_timesteps, late_moves, total_timeouts, planner_times,
            solution_costs >>
plan  == << compute, time_in_commit_window, proposed_actions, proposed_schedule, env >>
system == << sim, tasks, loop, plan, moved_at >>

TM == INSTANCE TaskManager WITH Location <- Free

ASSUME TasksAssumption ==
  /\ Tasks \in Seq(Seq(Free))
  /\ Len(Tasks) > 0
  /\ \A i \in 1 .. Len(Tasks) : Len(Tasks[i]) > 0
ASSUME ReturnedPlansAssumption == ReturnedPlans \subseteq ActionVectors

-----------------------------------------------------------------------------
(* sync_shared_env of the loop.                                            *)

\* The errands an ongoing task has left: all that is read of the environment's copy of it.
Remaining(t) == SubSeq(TM!Errands(t), ongoing_tasks[t].idx_next_loc + 1, Len(TM!Errands(t)))

Snapshot ==
  [timestep   |-> timestep,
   states     |-> curr_states,
   pool       |-> [t \in DOMAIN ongoing_tasks |-> Remaining(t)],
   schedule   |-> current_assignment,
   freeagents |-> IF timestep = 0 THEN Agent ELSE new_freeagents,
   newtasks   |-> new_tasks,
   goals      |-> env.goals]

\* (The branch for a planner thread that still runs is never taken: see JoinedBeforeUse.)
sync_environment ==
  /\ sync_shared_env
  /\ env' = Snapshot
  /\ proposed_actions' = [a \in Agent |-> "WA"]
  /\ proposed_schedule' = current_assignment

-----------------------------------------------------------------------------
(* The planner thread: Entry::compute.                                     *)

\* A schedule that is resized and not filled in.
KeptNothing == [a \in Agent |-> None]

\* Within a commit window the schedule is kept.
Kept == [a \in Agent |-> IF env.schedule[a] \in DOMAIN env.pool THEN env.schedule[a] ELSE None]

\* Reading a task by operator[] puts one without errands under every id that is not there.
PoolRead(schedule) ==
  [t \in DOMAIN env.pool \cup TM!Scheduled(schedule) |->
     IF t \in DOMAIN env.pool THEN env.pool[t] ELSE << >>]

GoalsOf(pool, schedule) ==
  [a \in Agent |-> IF a \notin DOMAIN schedule THEN env.goals[a]
                   ELSE IF schedule[a] = None THEN << >> ELSE pool[schedule[a]]]

\* The empty schedule stands for those that are too short; one longer than the team writes
\* past the end of goal_locations, and what happens then is not modelled.
update_goal_locations(schedule) ==
  env' = [env EXCEPT !.schedule = schedule,
                     !.pool     = PoolRead(schedule),
                     !.goals    = GoalsOf(PoolRead(schedule), schedule)]

ComputeSchedule ==
  /\ compute = "schedule"
  /\ \E schedule \in IF time_in_commit_window = 0 THEN TM!Schedules ELSE {Kept} :
       /\ proposed_schedule' = schedule
       /\ update_goal_locations(schedule)
  /\ compute' = "plan"
  /\ UNCHANGED << sim, tasks, loop, time_in_commit_window, proposed_actions, moved_at >>

WindowLength == IF CommitWindow > 1 THEN CommitWindow ELSE 1

ComputePlan ==
  /\ compute = "plan"
  /\ proposed_actions' \in ReturnedPlans
  /\ time_in_commit_window' = (time_in_commit_window + 1) % WindowLength
  /\ compute' = "ready"
  /\ UNCHANGED << sim, tasks, loop, proposed_schedule, env, moved_at >>

-----------------------------------------------------------------------------
(* The main thread: simulate, plan.                                        *)

\* initialize: the planner's preprocessing is in time, the first tasks are revealed.
Initialize ==
  /\ main = "initialize"
  /\ main' = "sync"
  /\ sync_environment
  /\ UNCHANGED << curr_states, timestep, tasks, started, timeout_timesteps, late_moves,
                  total_timeouts, planner_times, solution_costs, compute,
                  time_in_commit_window, moved_at >>

\* The preprocessing is late: the program ends.
InitializeTimeout ==
  /\ main = "initialize"
  /\ main' = "exit124"
  /\ UNCHANGED << sim, tasks, started, timeout_timesteps, late_moves, total_timeouts,
                  planner_times, solution_costs, plan, moved_at >>

\* After a late plan the environment is not copied again.
LaunchUnsynced ==
  /\ main = "sync"
  /\ timestep < SimulationTime
  /\ main' = "wait"
  /\ IF total_timeouts = 0 THEN sync_environment
     ELSE UNCHANGED << planner_movement, errors, accu_waitings, proposed_actions,
                       proposed_schedule, env >>
  /\ started' = TRUE
  /\ compute' = "schedule"
  /\ timeout_timesteps' = 0
  /\ UNCHANGED << curr_states, timestep, tasks, late_moves, total_timeouts, planner_times,
                  solution_costs, time_in_commit_window, moved_at >>

\* The top of the loop: sync, and start the planner thread.
Launch ==
  /\ main = "sync"
  /\ timestep < SimulationTime
  /\ main' = "wait"
  /\ sync_environment
  /\ started' = TRUE
  /\ compute' = "schedule"
  /\ timeout_timesteps' = 0
  /\ UNCHANGED << curr_states, timestep, tasks, late_moves, total_timeouts, planner_times,
                  solution_costs, time_in_commit_window, moved_at >>

Finish ==
  /\ main = "sync"
  /\ timestep >= SimulationTime
  /\ main' = "done"
  /\ UNCHANGED << sim, tasks, started, timeout_timesteps, late_moves, total_timeouts,
                  planner_times, solution_costs, plan, moved_at >>

\* One timestep too many.
WithinHorizonInclusive == timestep + timeout_timesteps <= SimulationTime

WithinHorizon == timestep + timeout_timesteps < SimulationTime

\* wait_for finds the result; the thread is joined.
PlanReady ==
  /\ main = "wait"
  /\ WithinHorizon
  /\ compute = "ready"
  /\ compute' = "none"
  /\ started' = FALSE
  /\ main' = "late"
  /\ late_moves' = 0
  /\ UNCHANGED << sim, tasks, timeout_timesteps, total_timeouts, planner_times,
                  solution_costs, time_in_commit_window, proposed_actions, proposed_schedule,
                  env, moved_at >>

\* The thread is given another time limit without counting the one that passed.
PlanTimeoutUncounted ==
  /\ main = "wait"
  /\ WithinHorizon
  /\ compute # "ready"
  /\ UNCHANGED system

\* wait_for returns after the plan time limit.
PlanTimeout ==
  /\ main = "wait"
  /\ WithinHorizon
  /\ compute # "ready"
  /\ timeout_timesteps' = timeout_timesteps + 1
  /\ UNCHANGED << sim, tasks, main, started, late_moves, total_timeouts, planner_times,
                  solution_costs, plan, moved_at >>

\* The main thread goes on after the first lost timestep.
GiveUpEarly ==
  /\ main = "wait"
  /\ timeout_timesteps > 0
  /\ main' = "late"
  /\ late_moves' = 0
  /\ UNCHANGED << sim, tasks, started, timeout_timesteps, total_timeouts, planner_times,
                  solution_costs, plan, moved_at >>

\* The horizon is reached: plan returns with the thread running.
GiveUp ==
  /\ main = "wait"
  /\ ~ WithinHorizon
  /\ main' = "late"
  /\ late_moves' = 0
  /\ UNCHANGED << sim, tasks, started, timeout_timesteps, total_timeouts, planner_times,
                  solution_costs, plan, moved_at >>

CountCosts ==
  solution_costs' = [a \in Agent |-> IF env.goals[a] # << >> THEN solution_costs[a] + 1
                                                              ELSE solution_costs[a]]

\* One lost timestep: all agents wait.
LateMove ==
  /\ main = "late"
  /\ late_moves < timeout_timesteps
  /\ move([a \in Agent |-> "NA"])
  /\ CountCosts
  /\ late_moves' = late_moves + 1
  /\ UNCHANGED << tasks, main, started, timeout_timesteps, total_timeouts, planner_times,
                  plan, moved_at >>

\* All lost timesteps are executed.
LateDone ==
  /\ main = "late"
  /\ late_moves = timeout_timesteps
  /\ total_timeouts' = total_timeouts + timeout_timesteps
  /\ IF timestep >= SimulationTime
       THEN main' = "done" /\ planner_times' = planner_times + 1
       ELSE main' = "execute" /\ UNCHANGED planner_times
  /\ UNCHANGED << sim, tasks, started, timeout_timesteps, late_moves, solution_costs, plan,
                  moved_at >>

\* The plan is executed without having the tasks updated for the timestep it ends in.
ExecuteStale ==
  /\ main = "execute"
  /\ CountCosts
  /\ move(proposed_actions)
  /\ proposed_actions' = Executed(proposed_actions)
  /\ TM!update_tasks(curr_states, proposed_schedule, timestep)
  /\ planner_times' = planner_times + 1
  /\ moved_at' = [a \in Agent |-> IF curr_states'[a] # curr_states[a] THEN timestep' ELSE moved_at[a]]
  /\ main' = "sync"
  /\ UNCHANGED << started, timeout_timesteps, late_moves, total_timeouts, compute,
                  time_in_commit_window, proposed_schedule, env >>

\* The task manager is told where the agents were before the move.
ExecuteUnmoved ==
  /\ main = "execute"
  /\ CountCosts
  /\ move(proposed_actions)
  /\ proposed_actions' = Executed(proposed_actions)
  /\ TM!update_tasks(curr_states, proposed_schedule, timestep')
  /\ planner_times' = planner_times + 1
  /\ moved_at' = [a \in Agent |-> IF curr_states'[a] # curr_states[a] THEN timestep' ELSE moved_at[a]]
  /\ main' = "sync"
  /\ UNCHANGED << started, timeout_timesteps, late_moves, total_timeouts, compute,
                  time_in_commit_window, proposed_schedule, env >>

\* The plan and the schedule are executed.
Execute ==
  /\ main = "execute"
  /\ CountCosts
  /\ move(proposed_actions)
  /\ proposed_actions' = Executed(proposed_actions)
  /\ TM!update_tasks(curr_states', proposed_schedule, timestep')
  /\ planner_times' = planner_times + 1
  /\ moved_at' = [a \in Agent |-> IF curr_states'[a] # curr_states[a] THEN timestep' ELSE moved_at[a]]
  /\ main' = "sync"
  /\ UNCHANGED << started, timeout_timesteps, late_moves, total_timeouts, compute,
                  time_in_commit_window, proposed_schedule, env >>

-----------------------------------------------------------------------------
SystemInit ==
  /\ Init
  /\ TM!Init
  /\ main = "initialize"
  /\ started = FALSE
  /\ timeout_timesteps = 0 /\ late_moves = 0 /\ total_timeouts = 0 /\ planner_times = 0
  /\ solution_costs = [a \in Agent |-> 0]
  /\ compute = "none"
  /\ time_in_commit_window = 0
  /\ proposed_actions = [a \in Agent |-> "WA"]
  /\ proposed_schedule = [a \in Agent |-> None]
  /\ env = [timestep |-> 0, states |-> << >>, pool |-> << >>,
            schedule |-> [a \in Agent |-> None], freeagents |-> {}, newtasks |-> {},
            goals |-> [a \in Agent |-> << >>]]
  /\ moved_at = [a \in Agent |-> 0]

MainNext ==
  \/ Initialize \/ InitializeTimeout \/ Launch \/ Finish
  \/ PlanReady \/ PlanTimeout \/ GiveUp
  \/ LateMove \/ LateDone \/ Execute

ComputeNext == ComputeSchedule \/ ComputePlan

SystemNext == MainNext \/ ComputeNext

\* The main thread runs; nothing is assumed of the planner thread.
SystemSpec == SystemInit /\ [][SystemNext]_system /\ WF_system(MainNext)
-----------------------------------------------------------------------------
(* Properties.                                                             *)

\* A plan is computed for the state it is executed in, however late it comes: the locations and
\* the errands that the planner thread was given are still the present ones when its plan is
\* executed, whatever else it has put into the environment's pool.
PlansForPresent ==
  main \in {"wait", "late", "execute"} =>
    /\ env.states = curr_states
    /\ \A t \in DOMAIN ongoing_tasks : t \in DOMAIN env.pool /\ env.pool[t] = Remaining(t)
    /\ compute = "schedule" => env.schedule = current_assignment

\* No timestep is lost or counted twice: those executed by a plan and those lost to
\* timeouts add up, and the simulation ends at the horizon exactly.
TimeAccounted ==
  /\ timestep <= SimulationTime
  /\ main = "wait" => timestep + timeout_timesteps <= SimulationTime
  /\ main = "sync" => timestep = total_timeouts + planner_times
  /\ main = "done" => /\ timestep = SimulationTime
                      /\ total_timeouts + planner_times - timestep \in {0, 1}

\* Before the main thread reads what the planner thread writes, or starts another, it has
\* joined it.  Only at the horizon it goes on without.
JoinedBeforeUse ==
  \/ main \in {"initialize", "sync", "execute"}
  \/ main = "late" /\ timestep + timeout_timesteps - late_moves < SimulationTime
  => ~ started /\ compute = "none"

\* The waiting counters are what they are read as: an agent has not moved for at least as
\* many timesteps, refused plans and lost timesteps included.
WaitsStoodStill ==
  main \notin {"sync", "done"} => \A a \in Agent : accu_waitings[a] <= timestep - moved_at[a]

\* Within a commit window no schedule is refused and no task changes hands: an agent's task
\* stays its task or is finished.
WindowKeeps ==
  schedule_errors' > schedule_errors \/ curr_timestep' > curr_timestep =>
    \/ time_in_commit_window = 1 % WindowLength
    \/ /\ schedule_errors' = schedule_errors
       /\ \A a \in Agent : \/ current_assignment'[a] = current_assignment[a]
                           \/ current_assignment[a] \in finished_tasks'[a]

WindowKeepsSchedule == [][WindowKeeps]_system

\* The task manager is used as it expects: every step of the system is one of its own
\* (distinct locations, growing timesteps) or leaves it alone.
TasksFollowManager == TM!Spec

\* No errand is passed unnoticed: whatever plans and schedules are refused or late, no agent
\* stands in the cell of its task's next errand, unless the errand before was in that cell too
\* and is the one that has just been done.
ErrandsNoticed ==
  \A a \in Agent : current_assignment[a] # None =>
    LET errands == TM!Errands(current_assignment[a])
        next    == ongoing_tasks[current_assignment[a]].idx_next_loc
    IN  errands[next + 1] = curr_states[a] => next > 0 /\ errands[next] = curr_states[a]

\* The simulation ends even if the planner thread never returns.
Terminates == <>(main \in {"done", "exit124"})

=============================================================================
