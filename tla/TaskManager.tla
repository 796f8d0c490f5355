---------------------------- MODULE TaskManager ----------------------------
(***************************************************************************)
(* The task manager of the start kit (src/TaskManager.cpp): it owns the    *)
(* pool of revealed tasks and decides, once per timestep, whether the      *)
(* schedule a participant proposes is taken over, which tasks advance or   *)
(* finish, and which new tasks are revealed.                               *)
(*                                                                         *)
(* One step is one call of update_tasks.  Its inputs are the proposed      *)
(* schedule, which is arbitrary (the participant's code is not trusted),   *)
(* and the locations of the agents, of which the simulator guarantees only *)
(* that no two agents share one.                                           *)
(***************************************************************************)
EXTENDS Integers, Sequences, FiniteSets, FiniteSetsExt

CONSTANTS
  NumAgents,       \* num_of_agents
  Location,        \* the cells of the map
  Tasks,           \* the task file: a sequence of errand sequences
  NumTasksReveal,  \* num_tasks_reveal: the size of the pool
  SimulationTime   \* simulation_time: update_tasks is called for 1..SimulationTime

Agent == 0 .. NumAgents - 1
None  == -1

ASSUME NumAgentsAssumption == NumAgents \in Nat
ASSUME TasksAssumption ==
  /\ Tasks \in Seq(Seq(Location))
  /\ Len(Tasks) > 0
  /\ \A i \in 1 .. Len(Tasks) : Len(Tasks[i]) > 0
ASSUME NumTasksRevealAssumption == NumTasksReveal \in Nat
ASSUME SimulationTimeAssumption == SimulationTime \in Nat

VARIABLES
  ongoing_tasks,       \* the pool: task id -> task
  current_assignment,  \* agent -> id of its task, or None
  finished_tasks,      \* agent -> ids of the tasks it finished
  num_of_task_finish,  \* how many tasks are finished
  latency,             \* the three *_total sums of the statistics
  new_freeagents,      \* agents that finished a task in the last step
  new_tasks,           \* tasks revealed in the last step
  task_id,             \* id of the next task to reveal
  schedule_errors,     \* number of rejected schedules
  curr_timestep

vars == << ongoing_tasks, current_assignment, finished_tasks, num_of_task_finish,
           latency, new_freeagents, new_tasks, task_id, schedule_errors, curr_timestep >>

-----------------------------------------------------------------------------
(* Tasks.                                                                  *)

TaskRecord == [idx_next_loc     : Nat,
               agent_assigned   : Agent \cup {None},
               t_revealed       : Nat,
               t_first_assigned : Nat \cup {None},
               t_opened         : Nat \cup {None}]

Errands(t) == Tasks[(t % Len(Tasks)) + 1]

NewTask(time) == [idx_next_loc     |-> 0,
                  agent_assigned   |-> None,
                  t_revealed       |-> time,
                  t_first_assigned |-> None,
                  t_opened         |-> None]

Opened(task) == task.idx_next_loc > 0

get_next_loc(pool, t) == Errands(t)[pool[t].idx_next_loc + 1]

\* The values an assignment gives to agents, without None.
Scheduled(assignment) == {assignment[a] : a \in DOMAIN assignment} \ {None}

\* How many tasks a refill of a pool of these ids adds.
Missing(ids) ==
  IF Cardinality(ids) < NumTasksReveal THEN NumTasksReveal - Cardinality(ids) ELSE 0

-----------------------------------------------------------------------------
(* set_task_assignment: take over a valid proposal, ignore an invalid one. *)

\* Bugs that the properties below must notice.
ValidAnyOpened(assignment) ==
  /\ DOMAIN assignment = Agent
  /\ Scheduled(assignment) \subseteq DOMAIN ongoing_tasks
  /\ \A a, b \in Agent : assignment[a] = assignment[b] /\ a # b => assignment[a] = None

ValidOpenedMayBeDropped(assignment) ==
  /\ ValidAnyOpened(assignment)
  /\ \A a \in Agent :
       /\ current_assignment[a] # None
       /\ assignment[a] # None
       /\ Opened(ongoing_tasks[current_assignment[a]])
       => assignment[a] = current_assignment[a]

validate_task_assignment(assignment) ==
  /\ DOMAIN assignment = Agent
  /\ Scheduled(assignment) \subseteq DOMAIN ongoing_tasks
  /\ \A a, b \in Agent : assignment[a] = assignment[b] /\ a # b => assignment[a] = None
  /\ \A a \in Agent :
       /\ current_assignment[a] # None
       /\ Opened(ongoing_tasks[current_assignment[a]])
       => assignment[a] = current_assignment[a]

\* One pass that frees an agent's old task just before setting its new one: a task
\* that moves to a smaller agent id ends without an owner.
OwnerOnePass(assignment, t) ==
  IF \E a \in Agent : /\ assignment[a] = t
                      /\ \A b \in Agent : current_assignment[b] = t => b <= a
    THEN CHOOSE a \in Agent : assignment[a] = t
    ELSE None

Owner(assignment, t) ==
  IF t \in Scheduled(assignment) THEN CHOOSE a \in Agent : assignment[a] = t
  ELSE IF t \in Scheduled(current_assignment) THEN None
  ELSE ongoing_tasks[t].agent_assigned

\* The first-assigned stamp is taken anew at every timestep.
StampedAlways(assignment, t, time) ==
  IF t \in Scheduled(assignment) THEN time ELSE ongoing_tasks[t].t_first_assigned

FirstAssigned(assignment, t, time) ==
  IF t \in Scheduled(assignment) /\ ongoing_tasks[t].t_first_assigned < 0
    THEN time ELSE ongoing_tasks[t].t_first_assigned

AssignmentSet(assignment) ==
  IF validate_task_assignment(assignment) THEN assignment ELSE current_assignment

PoolSet(assignment, time) ==
  IF validate_task_assignment(assignment)
    THEN [t \in DOMAIN ongoing_tasks |->
            [ongoing_tasks[t] EXCEPT !.agent_assigned   = Owner(assignment, t),
                                     !.t_first_assigned = FirstAssigned(assignment, t, time)]]
    ELSE ongoing_tasks

-----------------------------------------------------------------------------
(* check_finished_tasks: each agent may complete one errand of its task.   *)

Arrived(pool, assignment, locations) ==
  {a \in Agent : /\ assignment[a] # None
                 /\ locations[a] = get_next_loc(pool, assignment[a])}

Finishing(pool, assignment, arrived) ==
  {a \in arrived : pool[assignment[a]].idx_next_loc + 1 = Len(Errands(assignment[a]))}

\* The tasks these agents have.
TasksOf(assignment, agents) == {assignment[a] : a \in agents}

\* An agent that is done has no task any more.
Released(assignment, done) == [a \in Agent |-> IF a \in done THEN None ELSE assignment[a]]

Advanced(task, time) ==
  [task EXCEPT !.idx_next_loc = @ + 1,
               !.t_opened     = IF task.idx_next_loc = 0 /\ @ < 0 THEN time ELSE @]

PoolAdvanced(pool, moved, time) ==
  [t \in DOMAIN pool |-> IF t \in moved THEN Advanced(pool[t], time) ELSE pool[t]]

\* reveal_tasks on the ids that are left: the ids it adds.
RevealedOne(left) == IF Missing(left) > 0 THEN {task_id} ELSE {}

Revealed(left) == task_id .. (task_id + Missing(left) - 1)

PoolRefilled(pool, left, time) ==
  [t \in left \cup Revealed(left) |-> IF t \in left THEN pool[t] ELSE NewTask(time)]

Freed(done) == done

-----------------------------------------------------------------------------
(* The whole of update_tasks.                                              *)

update_tasks(locations, assignment, time) ==
  LET assigned == AssignmentSet(assignment)
      pool     == PoolSet(assignment, time)
      arrived  == Arrived(pool, assigned, locations)
      done     == Finishing(pool, assigned, arrived)
      doneIds  == TasksOf(assigned, done)
      after    == PoolAdvanced(pool, TasksOf(assigned, arrived), time)
      left     == DOMAIN pool \ doneIds
  IN  /\ curr_timestep' = time
      /\ schedule_errors' =
           IF validate_task_assignment(assignment) THEN schedule_errors ELSE schedule_errors + 1
      /\ current_assignment' = Released(assigned, done)
      /\ finished_tasks' =
           [a \in Agent |-> finished_tasks[a] \cup {t \in doneIds : after[t].agent_assigned = a}]
      /\ num_of_task_finish' = num_of_task_finish + Cardinality(done)
      /\ latency' =
           [reveal_to_assign |-> latency.reveal_to_assign +
              MapThenSumSet(LAMBDA t : after[t].t_first_assigned - after[t].t_revealed, doneIds),
            assign_to_open   |-> latency.assign_to_open +
              MapThenSumSet(LAMBDA t : after[t].t_opened - after[t].t_first_assigned, doneIds),
            open_to_finish   |-> latency.open_to_finish +
              MapThenSumSet(LAMBDA t : time - after[t].t_opened, doneIds)]
      /\ new_freeagents' = Freed(done)
      /\ new_tasks' = Revealed(left)
      /\ task_id' = task_id + Missing(left)
      /\ ongoing_tasks' = PoolRefilled(after, left, time)

\* The locations the simulator can report: one agent per cell.
States == {s \in [Agent -> Location] : \A a, b \in Agent : s[a] = s[b] => a = b}

\* The schedules a participant may return.  The id task_id stands for every id that is
\* not revealed, and the empty schedule for every schedule of a wrong size.
Schedules == [Agent -> {None} \cup 0 .. task_id] \cup {[a \in {} |-> None]}

\* The constructor, then reveal_tasks(0).
Init ==
  /\ ongoing_tasks = [t \in 0 .. NumTasksReveal - 1 |-> NewTask(0)]
  /\ current_assignment = [a \in Agent |-> None]
  /\ finished_tasks = [a \in Agent |-> {}]
  /\ num_of_task_finish = 0
  /\ latency = [reveal_to_assign |-> 0, assign_to_open |-> 0, open_to_finish |-> 0]
  /\ new_freeagents = {}
  /\ new_tasks = 0 .. NumTasksReveal - 1
  /\ task_id = NumTasksReveal
  /\ schedule_errors = 0
  /\ curr_timestep = 0

\* Timesteps pass without a call while the planner is late.
UpdateTasks ==
  \E time \in curr_timestep + 1 .. SimulationTime, s \in States, assignment \in Schedules :
    update_tasks(s, assignment, time)

Next == UpdateTasks

Spec == Init /\ [][Next]_vars

-----------------------------------------------------------------------------
(* Properties.                                                             *)

\* Types (all but the sums in latency); an ongoing task has an errand left, or get_next_loc would read past the end.
TypeOK ==
  /\ DOMAIN ongoing_tasks \in SUBSET Nat
  /\ ongoing_tasks \in [DOMAIN ongoing_tasks -> TaskRecord]
  /\ \A t \in DOMAIN ongoing_tasks : ongoing_tasks[t].idx_next_loc < Len(Errands(t))
  /\ current_assignment \in [Agent -> Nat \cup {None}]
  /\ finished_tasks \in [Agent -> SUBSET Nat]
  /\ num_of_task_finish \in Nat
  /\ new_freeagents \in SUBSET Agent
  /\ new_tasks \in SUBSET Nat
  /\ task_id \in Nat
  /\ schedule_errors \in Nat
  /\ curr_timestep \in Nat

\* The two records of who does what never disagree: an agent is assigned a task exactly
\* when that task is ongoing and names the agent.  set_task_assignment keeps both, in two
\* loops whose order matters when a task changes hands or is dropped.
OwnershipAgrees ==
  /\ \A a \in Agent : current_assignment[a] # None =>
       /\ current_assignment[a] \in DOMAIN ongoing_tasks
       /\ ongoing_tasks[current_assignment[a]].agent_assigned = a
  /\ \A t \in DOMAIN ongoing_tasks : ongoing_tasks[t].agent_assigned # None =>
       current_assignment[ongoing_tasks[t].agent_assigned] = t

\* An opened task is never without an agent, whatever the participant proposes: nobody
\* could be given it again, and the pool would lose a place for good.
OpenedHasOwner ==
  \A t \in DOMAIN ongoing_tasks : Opened(ongoing_tasks[t]) => ongoing_tasks[t].agent_assigned # None

\* The time stamps of an ongoing task follow its life: revealed, assigned, opened.  The
\* latency statistics subtract them without a check.
StampsOrdered ==
  \A t \in DOMAIN ongoing_tasks :
    LET task == ongoing_tasks[t] IN
    /\ task.t_revealed <= curr_timestep
    /\ task.agent_assigned # None => task.t_first_assigned # None
    /\ task.t_first_assigned # None => task.t_first_assigned \in task.t_revealed .. curr_timestep
    /\ Opened(task) <=> task.t_opened # None
    /\ Opened(task) => task.t_first_assigned # None /\ task.t_opened \in task.t_first_assigned .. curr_timestep

\* Every id revealed so far is ongoing or finished by exactly one agent, never both: no
\* task is lost, done twice or revealed twice, and the finish counter agrees.
EveryTaskAccounted ==
  /\ DOMAIN ongoing_tasks \cup UNION {finished_tasks[a] : a \in Agent} = 0 .. task_id - 1
  /\ \A a \in Agent : finished_tasks[a] \cap DOMAIN ongoing_tasks = {}
  /\ \A a, b \in Agent : a # b => finished_tasks[a] \cap finished_tasks[b] = {}
  /\ num_of_task_finish = Cardinality(UNION {finished_tasks[a] : a \in Agent})

\* The pool is always full (docs/Input_Output_Format.md: when k tasks are finished, k are
\* revealed).
PoolFull == Cardinality(DOMAIN ongoing_tasks) = NumTasksReveal

\* The events handed to the schedulers describe the present: an announced agent has no
\* task and an announced task has not been touched.
EventsFresh ==
  /\ \A a \in new_freeagents : current_assignment[a] = None
  /\ \A t \in new_tasks : t \in DOMAIN ongoing_tasks /\ ongoing_tasks[t].agent_assigned = None

\* An opened task stays with its agent until it is finished, whatever schedules follow.
KeepsOpened ==
  \A a \in Agent, t \in DOMAIN ongoing_tasks :
    /\ current_assignment[a] = t
    /\ Opened(ongoing_tasks[t])
    => \/ t \in DOMAIN ongoing_tasks' /\ current_assignment'[a] = t
       \/ t \in finished_tasks'[a]

OpenedTaskKept == [][KeepsOpened]_vars

\* A rejected schedule changes no assignment: every agent still has its task or has
\* finished it in this very step, and no task gets a first assignment.
IgnoresRejected ==
  schedule_errors' > schedule_errors =>
    /\ \A a \in Agent : \/ current_assignment'[a] = current_assignment[a]
                        \/ current_assignment[a] \in finished_tasks'[a]
    /\ \A t \in DOMAIN ongoing_tasks \cap DOMAIN ongoing_tasks' :
         ongoing_tasks'[t].t_first_assigned = ongoing_tasks[t].t_first_assigned

RejectedScheduleIgnored == [][IgnoresRejected]_vars

-----------------------------------------------------------------------------
(* The life cycle of tasks that this implements.                           *)

\* Ids that can be revealed within SimulationTime steps.
TaskId == 0 .. NumTasksReveal + NumAgents * SimulationTime

lifecycle ==
  [t \in TaskId |->
     IF t \in DOMAIN ongoing_tasks
     THEN [phase |-> IF ongoing_tasks[t].agent_assigned = None THEN "waiting"
                     ELSE IF Opened(ongoing_tasks[t]) THEN "opened" ELSE "assigned",
           agent |-> ongoing_tasks[t].agent_assigned]
     ELSE IF \E a \in Agent : t \in finished_tasks[a]
     THEN [phase |-> "finished", agent |-> CHOOSE a \in Agent : t \in finished_tasks[a]]
     ELSE [phase |-> "unrevealed", agent |-> None]]

Lifecycle == INSTANCE TaskLifecycle
               WITH Task <- TaskId, Agent <- Agent, Nobody <- None, status <- lifecycle

LifecycleSpec == Lifecycle!Spec

=============================================================================
