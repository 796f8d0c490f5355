----------------------------- MODULE Scheduling -----------------------------
(***************************************************************************)
(* What the models of the schedulers have in common: the task manager that *)
(* takes their schedules, and what they see of the environment             *)
(* (inc/SharedEnv.h): the pool, who has which task, and where the agents   *)
(* are.                                                                    *)
(***************************************************************************)
EXTENDS Integers, Sequences, FiniteSets, FiniteSetsExt, Functions

CONSTANTS NumAgents, Location, Tasks, NumTasksReveal, SimulationTime

ASSUME TeamAssumption == NumAgents \in Nat
ASSUME TasksAssumption ==
  /\ Tasks \in Seq(Seq(Location)) /\ Len(Tasks) > 0
  /\ \A i \in 1 .. Len(Tasks) : Len(Tasks[i]) > 0
ASSUME NumTasksRevealAssumption == NumTasksReveal \in Nat
ASSUME SimulationTimeAssumption == SimulationTime \in Nat

VARIABLES
  \* the task manager
  ongoing_tasks, current_assignment, finished_tasks, num_of_task_finish, latency,
  new_freeagents, new_tasks, task_id, schedule_errors, curr_timestep,
  \* the environment
  curr_states,
  proposed_schedule

manager == << ongoing_tasks, current_assignment, finished_tasks, num_of_task_finish, latency,
              new_freeagents, new_tasks, task_id, schedule_errors, curr_timestep >>

TM == INSTANCE TaskManager

Agent == TM!Agent
None  == TM!None

=============================================================================
