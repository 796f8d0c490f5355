-------------------------- MODULE SchedulingRound ---------------------------
(***************************************************************************)
(* The default schedulers (default_planner/scheduler.cpp) round by round,  *)
(* with the commit window of the Entry that calls them and the task        *)
(* manager that takes their schedules:                                     *)
(*                                                                         *)
(*   "greedy"    schedule_plan_raw, which keeps the agents without a task  *)
(*               and the tasks without an agent in sets of its own, fed by *)
(*               the events of the timestep;                               *)
(*   "flow"      schedule_plan_flow, _flow_hist and _h, which match the    *)
(*               agents of the events with the tasks of the pool, all of   *)
(*               them or, if that cannot be, none;                         *)
(*   "matching"  schedule_plan_matching, the same over the pairs that a    *)
(*               search from every agent has met;                          *)
(*   "hungarian" schedule_plan_portable_capped_hungarian, which matches    *)
(*               some of the agents without a task with the shortest of    *)
(*               the tasks without an agent.                               *)
(*                                                                         *)
(* One step is one round: a call of the Entry and the update_tasks that    *)
(* follows.  Costs depend on the map and the traffic and may be any, so    *)
(* every matching may be the cheapest one.                                 *)
(***************************************************************************)
EXTENDS Scheduling

CONSTANTS
  CommitWindow,     \* commit_window
  Solvers,          \* the solvers and their options that are modelled
  MaxMatchingEdges, \* max_matching_edges
  MaxAgents,        \* max_agents and max_tasks of the capped Hungarian scheduler
  MaxTasks

ASSUME CommitWindowAssumption == CommitWindow \in Nat
ASSUME SolversAssumption ==
  Solvers \subseteq [name : {"greedy", "flow", "matching", "hungarian"}, new_only : BOOLEAN, use_traffic : BOOLEAN]
ASSUME MaxMatchingEdgesAssumption == MaxMatchingEdges \in Nat \ {0}
ASSUME CapsAssumption == MaxAgents \in Nat \ {0} /\ MaxTasks \in Nat \ {0}

VARIABLES
  \* the Entry
  solver, time_in_commit_window,
  \* the greedy scheduler
  free_agents, free_tasks

vars == << manager, solver, curr_states, time_in_commit_window, proposed_schedule, free_agents,
           free_tasks >>

-----------------------------------------------------------------------------
\* The agents that the environment announces: all of them at the start.
Announced == IF curr_timestep = 0 THEN Agent ELSE new_freeagents

Unopened == {t \in DOMAIN ongoing_tasks : ~ TM!Opened(ongoing_tasks[t])}

\* A schedule that gives these agents these tasks and leaves the others theirs.
With(pairs) == [a \in Agent |-> IF a \in DOMAIN pairs THEN pairs[a] ELSE current_assignment[a]]

Smaller(m, n) == IF m < n THEN m ELSE n

\* One task for each agent, until the agents or the tasks are used up.
Pairings(agents, tasks) ==
  UNION {Injection(chosen, tasks) :
         chosen \in kSubset(Smaller(Cardinality(agents), Cardinality(tasks)), agents)}

-----------------------------------------------------------------------------
(* schedule_plan_raw.                                                      *)

\* The events of this timestep alone.
OfferJustRevealed == new_tasks

\* What the scheduler chooses from.
Agents == free_agents \cup Announced
Offer  == free_tasks \cup new_tasks

\* A deadline ends the loop over the agents.
PairsUntilTimeout == UNION {Injection(chosen, Offer) : chosen \in SUBSET Agents}

\* The agents come in the order of a hash table; each takes the nearest task that is left,
\* and the loop ends with the agents or with the tasks.
Pairs == Pairings(Agents, Offer)

Greedy ==
  \E pairs \in Pairs :
    /\ proposed_schedule' = [a \in Agent |-> IF a \in Agents \ DOMAIN pairs THEN None
                                                                            ELSE With(pairs)[a]]
    /\ free_agents' = Agents \ DOMAIN pairs
    /\ free_tasks' = Offer \ Range(pairs)

-----------------------------------------------------------------------------
(* The matching schedulers.                                                *)

\* The tasks that may be given or moved, and the agents that get one: those announced and,
\* unless only new tasks are assigned, those that have such a task.
FlexibleTasks ==
  {t \in Unopened : solver.new_only => ongoing_tasks[t].agent_assigned = None}

FlexibleAgents ==
  Announced \cup ({ongoing_tasks[t].agent_assigned : t \in FlexibleTasks} \ {None})

\* The tasks a full search from an agent meets.  Without traffic the cell where it starts is
\* not looked at.
Reachable(a) ==
  {t \in FlexibleTasks : solver.use_traffic \/ TM!Errands(t)[1] # curr_states[a]}

\* The search gives an agent without a task the first task it meets that nobody has.
FirstMet ==
  LET free   == {a \in FlexibleAgents : current_assignment[a] = None}
      met(a) == {t \in Reachable(a) : ongoing_tasks[t].agent_assigned = None}
  IN  {pairs \in UNION {Injection(chosen, FlexibleTasks) : chosen \in SUBSET free} :
         /\ \A a \in DOMAIN pairs : pairs[a] \in met(a)
         /\ \A a \in free \ DOMAIN pairs : met(a) \subseteq Range(pairs)}

\* The search stops at the limit, whether it has met the agent's own task or not.
EnoughMetOfAny(a, met, first) ==
  met \subseteq Reachable(a) /\ (met = Reachable(a) \/ Cardinality(met) >= MaxMatchingEdges)

\* The search stops when the agent has a task, has met it and has met enough others.
EnoughMet(a, met, first) ==
  \/ met = Reachable(a)
  \/ /\ met \subseteq Reachable(a)
     /\ With(first)[a] \in met
     /\ Cardinality(met) >= MaxMatchingEdges \/ Cardinality(met) >= Cardinality(FlexibleAgents)

\* The pairs with an edge: all of them, or those that the searches have met.
EdgeSets ==
  IF solver.name = "flow" THEN {[a \in FlexibleAgents |-> FlexibleTasks]}
  ELSE UNION {{edges \in [FlexibleAgents -> SUBSET FlexibleTasks] :
                 \A a \in FlexibleAgents : EnoughMet(a, edges[a], first)} : first \in FirstMet}

\* The network simplex returns a flow that leaves nobody out, if there is one.
Flows(edges) ==
  {pairs \in Injection(FlexibleAgents, FlexibleTasks) : \A a \in FlexibleAgents : pairs[a] \in edges[a]}

\* Opened tasks are written back to the agents that have them.
Matching ==
  /\ \E edges \in EdgeSets :
       IF Flows(edges) = {} THEN proposed_schedule' = current_assignment
       ELSE \E pairs \in Flows(edges) : proposed_schedule' = With(pairs)
  /\ UNCHANGED << free_agents, free_tasks >>

-----------------------------------------------------------------------------
(* schedule_plan_portable_capped_hungarian.                                *)

Idle == {a \in Agent : current_assignment[a] = None}

\* The tasks without an agent, by what the schedule says.
NotAssigned == DOMAIN ongoing_tasks \ Range(current_assignment)

\* The first of the agents are matched with the shortest of the tasks, which any may be.
\* When the deadline passes nobody is.
CappedHungarian ==
  LET few == {a \in Idle : Cardinality({b \in Idle : b < a}) < MaxAgents} IN
  /\ \/ proposed_schedule' = current_assignment
     \/ \E tasks \in kSubset(Smaller(Cardinality(NotAssigned), MaxTasks), NotAssigned) :
          \E pairs \in Pairings(few, tasks) : proposed_schedule' = With(pairs)
  /\ UNCHANGED << free_agents, free_tasks >>

-----------------------------------------------------------------------------
\* Within a commit window the scheduler is not called.
Keep ==
  /\ proposed_schedule' =
       [a \in Agent |-> IF current_assignment[a] \in DOMAIN ongoing_tasks
                        THEN current_assignment[a] ELSE None]
  /\ UNCHANGED << free_agents, free_tasks >>

WindowLength == IF CommitWindow > 1 THEN CommitWindow ELSE 1

Plan ==
  IF time_in_commit_window > 0 THEN Keep
  ELSE CASE solver.name = "greedy"    -> Greedy
         [] solver.name = "hungarian" -> CappedHungarian
         [] OTHER                     -> Matching

Round ==
  /\ Plan
  /\ time_in_commit_window' = (time_in_commit_window + 1) % WindowLength
  /\ \E time \in curr_timestep + 1 .. SimulationTime :
       /\ curr_states' \in TM!States
       /\ TM!update_tasks(curr_states', proposed_schedule', time)
  /\ UNCHANGED solver

Init ==
  /\ TM!Init
  /\ solver \in Solvers
  /\ curr_states \in TM!States
  /\ time_in_commit_window = 0
  /\ proposed_schedule = [a \in Agent |-> None]
  /\ free_agents = {}
  /\ free_tasks = {}

Next == Round

Spec == Init /\ [][Next]_vars
-----------------------------------------------------------------------------
\* "The default scheduler keep track of all the free agents and unassigned (=free) tasks
\* across timesteps": what the greedy scheduler chooses from are the agents without a task
\* and the tasks without an agent, neither more nor less.
FreeTracked ==
  time_in_commit_window = 0 /\ solver.name = "greedy" =>
    /\ Agents = Idle
    /\ Offer = {t \in DOMAIN ongoing_tasks : ongoing_tasks[t].agent_assigned = None}

\* When the pool is as large as the team and every timestep has its round, the other
\* schedulers leave no agent behind that later rounds would not know of: whoever has no task
\* is announced.  (The search without traffic may leave one behind whose tasks all wait in
\* its own cell.)
NobodyForgotten ==
  /\ time_in_commit_window = 0
  /\ NumTasksReveal >= NumAgents
  /\ \/ solver.name = "flow"
     \/ solver.name = "matching" /\ solver.use_traffic
  => Idle \subseteq Announced

\* The task manager accepts every schedule.  A round that schedules leaves no agent idle
\* next to a task that nobody has; but for the search without traffic, a deadline of the
\* capped Hungarian scheduler, and caps below the size of the team.
CompleteRound ==
  curr_timestep' > curr_timestep =>
    /\ schedule_errors' = schedule_errors
    /\ \/ time_in_commit_window > 0
       \/ solver.name = "matching" /\ ~ solver.use_traffic
       \/ solver.name \in {"flow", "matching"} /\ NumTasksReveal < NumAgents
       \/ /\ solver.name = "hungarian"
          /\ proposed_schedule' = current_assignment \/ MaxAgents < NumAgents \/ MaxTasks < NumAgents
       \/ \A a \in Agent : proposed_schedule'[a] # None
       \/ DOMAIN ongoing_tasks \subseteq Range(proposed_schedule')

RoundsComplete == [][CompleteRound]_vars

=============================================================================
