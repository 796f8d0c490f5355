------------------------------- MODULE Planner -------------------------------
(***************************************************************************)
(* The default planner timestep by timestep (default_planner/planner.cpp   *)
(* and flow.cpp): goals come from the Entry, agents get guide paths        *)
(* through the traffic of the others, paths are refined until the          *)
(* deadline, and PIBT moves the agents along them by priority.  The        *)
(* searches are those of GuideSearch; PIBT is what its own module shows of *)
(* it: moves without conflict.  That its first agent comes closer needs a  *)
(* map of cycles, and nothing is to depend on it here.                     *)
(***************************************************************************)
EXTENDS GuideSearch

CONSTANTS
  Placements,       \* the start locations that are modelled
  Assignments,      \* the goals that the agents may have: the errands left, one after the other
  Questions,        \* the goals and cells that schedulers ask the distances of
  GuidePaths,       \* the guide paths that the flow schedulers may find
  Priorities,       \* the shuffled ids of initialize
  Manhattan,        \* use_manhattan_heuristics
  Refinement,       \* whether refinement_time_limit is set
  GuidePathsFrom,   \* the timestep from which the scheduler hands over guide paths (100)
  MaxRefinements,   \* bound on the guide paths that frank_wolfe replaces in a timestep
  SimulationTime    \* bound on the timesteps, the last of which is planned only

ASSUME PlacementsAssumption ==
  \A s \in Placements : s \in [Agent -> Free] /\ \A a, b \in Agent : s[a] = s[b] => a = b
ASSUME GoalsAssumption == 
  Assignments \subseteq [Agent -> Seq(Free)] /\ Questions \subseteq Free \X Free
ASSUME GuidePathsAssumption == GuidePaths \subseteq Paths[Cardinality(Free) - 1] \cap Seq(Free)
ASSUME PrioritiesAssumption == Priorities \subseteq Bijection(1 .. NumAgents, Agent)
ASSUME ModeAssumption == Manhattan \in BOOLEAN /\ Refinement \in BOOLEAN
ASSUME BoundsAssumption ==
  GuidePathsFrom \in Nat \ {0} /\ MaxRefinements \in Nat /\ SimulationTime \in Nat

VARIABLES
  \* the environment
  curr_timestep, curr_states, goal_locations,
  \* the planner between its calls
  tasks, dummy_goals, p_copy, p, ids, trajs, traj_dists, soc, last_replan_t,
  \* the call that runs
  stage,               \* "idle", "initial", "refine", "sort", "planned" or "exited"
  late,                \* the deadline has passed
  require_guide_path,
  count,               \* the loop counter of the stage
  replan_order,
  searching,           \* the agent whose guide path is searched for, or None
  stopped              \* the agent at which the loop over the initial paths ended

env   == << curr_timestep, curr_states >>
input == << env, goal_locations, tasks, dummy_goals, p_copy, p, require_guide_path >>
paths == << trajs, traj_dists, flow, soc, last_replan_t >>
vars  == << input, heuristics, paths, nodes, ids, stage, late, count, replan_order, searching,
            stopped >>

-----------------------------------------------------------------------------
NoPath  == << >>
NoGoals == << >>
Dead(c) == Cardinality(Neighbors(c)) = 1

\* Priorities are doubles; here they are multiples of 1 / (NumAgents + 1).
One == NumAgents + 1

\* The test for a new path is negated.
WaitedIfAnew(a, goals, anew) ==
  IF goals[a] = NoGoals \/ ~ anew[a] THEN p_copy[a] ELSE p[a] + One

\* A timestep more is waited, or the agent starts anew; a bonus helps out of dead ends.
Waited(a, goals, anew) ==
  (IF goals[a] = NoGoals \/ anew[a] THEN p_copy[a] ELSE p[a] + One)
  + (IF goals[a] # NoGoals /\ Dead(curr_states[a]) THEN 10 * One ELSE 0)

\* The change of the flow by a path.
AlongPath(path, amount) ==
  [c \in Free |-> [d \in 0 .. 3 |->
     flow[c][d] + amount * Cardinality({k \in 1 .. Len(path) - 1 :
                                          path[k] = c /\ get_d(path[k + 1] - c) = d})]]

\* The traffic is taken from the cells that the path enters.
RemovedFromEntered(path) ==
  [c \in Free |-> [d \in 0 .. 3 |->
     flow[c][d] - Cardinality({k \in 1 .. Len(path) - 1 :
                                 path[k + 1] = c /\ get_d(c - path[k]) = d})]]

Removed(path) == AlongPath(path, -1)
Added(path)   == AlongPath(path, 1)

Length(path) == IF path = NoPath THEN 0 ELSE Len(path) - 1

-----------------------------------------------------------------------------
Init ==
  /\ curr_timestep = 0
  /\ curr_states \in Placements
  /\ goal_locations = [a \in Agent |-> NoGoals]
  /\ tasks = [a \in Agent |-> 0]
  /\ dummy_goals = curr_states
  /\ ids \in Priorities
  /\ p_copy = [a \in Agent |-> NumAgents + 1 - CHOOSE k \in 1 .. NumAgents : ids[k] = a]
  /\ p = p_copy
  /\ heuristics = [c \in Free |-> Empty]
  /\ flow = [c \in Free |-> [d \in 0 .. 3 |-> 0]]
  /\ trajs = [a \in Agent |-> NoPath]
  /\ traj_dists = [a \in Agent |-> Empty]
  /\ soc = 0
  /\ last_replan_t = [a \in Agent |-> 0]
  /\ nodes = << >>
  /\ stage = "idle"
  /\ late = FALSE
  /\ require_guide_path = [a \in Agent |-> FALSE]
  /\ count = 0
  /\ replan_order = ids
  /\ searching = None
  /\ stopped = 0

\* A scheduler asks for the distance of a goal; the tables are shared (get_h).
get_h ==
  /\ stage = "idle" /\ curr_timestep < SimulationTime /\ ~ Manhattan
  /\ \E q \in Questions :
       heuristics' = [heuristics EXCEPT ![q[1]] =
                        Asked(IF @ = Empty THEN GoalTable(q[1]) ELSE @, q[2])]
  /\ UNCHANGED << input, paths, nodes, ids, stage, late, count, replan_order, searching, stopped >>

\* A guide path is asked for by the agents that never had one only.
RequiredOnce(goals) == [a \in Agent |-> trajs[a] = NoPath]

Required(goals) == [a \in Agent |-> trajs[a] = NoPath \/ Last(trajs[a]) # goals[a]]

\* The loop over the agents at the start of plan: goals, tables for all their errands as long
\* as there is time, who needs a guide path, priorities.
plan ==
  /\ stage = "idle" /\ curr_timestep < SimulationTime
  /\ goal_locations' \in Assignments
  /\ dummy_goals' = IF curr_timestep = 0 THEN curr_states ELSE dummy_goals
  /\ tasks' = [a \in Agent |-> IF goal_locations'[a] = NoGoals THEN dummy_goals'[a]
                                        ELSE Head(goal_locations'[a])]
  /\ require_guide_path' = Required(tasks')
  /\ p' = [a \in Agent |-> Waited(a, goal_locations', require_guide_path')]
  /\ \E k \in 0 .. NumAgents :
       /\ late' = (k < NumAgents)
       /\ heuristics' = [c \in Free |->
            IF /\ ~ Manhattan /\ heuristics[c] = Empty
               /\ \E a \in Agent : a < k /\ c \in Range(goal_locations'[a])
            THEN GoalTable(c) ELSE heuristics[c]]
  /\ stage' = "initial"
  /\ count' = 0
  /\ UNCHANGED << env, p_copy, paths, nodes, ids, replan_order, searching, stopped >>

\* plan_pibt, in the rounds between two calls of the scheduler: nobody gets a guide path, and
\* the goals that have changed are not looked at.
plan_pibt ==
  /\ stage = "idle" /\ curr_timestep \in 1 .. SimulationTime - 1
  /\ goal_locations' \in Assignments
  /\ tasks' = [a \in Agent |-> IF goal_locations'[a] = NoGoals THEN dummy_goals[a] ELSE tasks[a]]
  /\ p' = [a \in Agent |-> Waited(a, goal_locations', [b \in Agent |-> FALSE])]
  /\ stage' = "sort"
  /\ stopped' = 0
  /\ UNCHANGED << env, dummy_goals, p_copy, require_guide_path, heuristics, paths, nodes, ids, late,
                  count, replan_order, searching >>

-----------------------------------------------------------------------------
(* Guide paths.                                                            *)

remove_traj(a) ==
  /\ flow' = Removed(trajs[a])
  /\ soc' = soc - Length(trajs[a])

\* add_traj and update_dist_2_path, when the flow is without the agent's former path.
add_traj(a, path) ==
  /\ trajs' = [trajs EXCEPT ![a] = path]
  /\ traj_dists' = [traj_dists EXCEPT ![a] = PathTable(path)]
  /\ last_replan_t' = [last_replan_t EXCEPT ![a] = curr_timestep]

SearchFor(a) ==
  /\ searching' = a
  /\ remove_traj(a)
  /\ StartSearch(curr_states[a], tasks[a])
  /\ UNCHANGED << trajs, traj_dists, last_replan_t, count >>

\* What the flow schedulers have found on their way to the goal of the agent.
HandedOver(a) ==
  {path \in GuidePaths : /\ curr_timestep >= GuidePathsFrom
                         /\ path[1] = curr_states[a] /\ Last(path) = tasks[a]}

\* The next agent needs no path, gets the one that the scheduler has, or one is searched for.
InitialPath ==
  /\ stage = "initial" /\ searching = None /\ ~ late /\ count < NumAgents
  /\ \/ /\ ~ require_guide_path[count]
        /\ count' = count + 1
        /\ UNCHANGED << paths, heuristics, nodes, searching >>
     \/ /\ require_guide_path[count]
        /\ SearchFor(count)
     \/ /\ require_guide_path[count]
        /\ \E path \in HandedOver(count) :
             /\ add_traj(count, path)
             /\ flow' = [c \in Free |-> [d \in 0 .. 3 |->
                           Removed(trajs[count])[c][d] + Added(path)[c][d] - flow[c][d]]]
             /\ soc' = soc - Length(trajs[count]) + Length(path)
        /\ count' = count + 1
        /\ UNCHANGED << heuristics, nodes, searching >>
  /\ UNCHANGED << input, ids, stage, late, replan_order, stopped >>

\* Frank-Wolfe's order: far from the path first, then those with the oldest path.
Deviation(dists, a) == IF dists[a] = Empty THEN 0 ELSE dists[a].dist[curr_states[a]].cost

ReplansBefore(dists, a, b) ==
  \/ Deviation(dists, a) > Deviation(dists, b)
  \/ Deviation(dists, a) = Deviation(dists, b) /\ last_replan_t[a] < last_replan_t[b]

\* The loop ends with the agents or at the deadline.  The refinement may have time of its own.
StartRefinement ==
  /\ stage = "initial" /\ searching = None
  /\ \/ count = NumAgents /\ late' = FALSE
     \/ count < NumAgents /\ late' = ~ Refinement
  /\ stopped' = count
  /\ traj_dists' = [a \in Agent |-> AskedIfThere(traj_dists[a], << curr_states[a] >>)]
  /\ replan_order' \in {order \in Bijection(1 .. NumAgents, Agent) :
       \A j, k \in 1 .. NumAgents : ReplansBefore(traj_dists', order[j], order[k]) => j < k}
  /\ stage' = "refine"
  /\ count' = 0
  /\ UNCHANGED << input, heuristics, trajs, flow, soc, last_replan_t, nodes, ids, searching >>

\* The next agent by the order, again and again, if it has a path.
frank_wolfe ==
  /\ stage = "refine" /\ searching = None /\ ~ late /\ count < MaxRefinements
  /\ LET a == replan_order[(count % NumAgents) + 1] IN
       IF trajs[a] = NoPath
         THEN /\ count' = count + 1
              /\ UNCHANGED << paths, heuristics, nodes, searching >>
         ELSE SearchFor(a)
  /\ UNCHANGED << input, ids, stage, late, replan_order, stopped >>

\* The search improves a closed node, or ends without a path.
Fails(curr, goal) ==
  \/ ReExpansion(curr, goal)
  \/ Open = {curr} /\ Improved(curr, goal) = {}

\* The next node is expanded, on which the program may end ...
Search ==
  /\ searching # None /\ stage # "exited"
  /\ \E curr \in First :
       /\ curr # tasks[searching]
       /\ Expand(curr, tasks[searching])
       /\ stage' = IF Fails(curr, tasks[searching]) THEN "exited" ELSE stage
  /\ UNCHANGED << input, paths, ids, late, count, replan_order, searching, stopped >>

\* ... or it is the goal.  The nodes are forgotten before the next search.
Found ==
  /\ searching # None /\ stage # "exited"
  /\ tasks[searching] \in First
  /\ LET path == Trajectory(tasks[searching]) IN
       /\ add_traj(searching, path)
       /\ flow' = Added(path)
       /\ soc' = soc + Length(path)
  /\ nodes' = << >>
  /\ searching' = None
  /\ count' = count + 1
  /\ UNCHANGED << input, heuristics, ids, stage, late, replan_order, stopped >>

\* The deadline.
Stop ==
  /\ stage = "refine" /\ searching = None
  /\ stage' = "sort"
  /\ late' = FALSE
  /\ count' = 0
  /\ UNCHANGED << input, heuristics, paths, nodes, ids, replan_order, searching, stopped >>

-----------------------------------------------------------------------------
(* The moves.                                                              *)

\* get_gp_h: the distance along the guide path, if the agent ever had one, or to its task.
Guide(a, c) ==
  IF traj_dists[a] # Empty THEN traj_dists[a].dist[c].cost + traj_dists[a].dist[c].togo
  ELSE Heuristic(heuristics[tasks[a]], tasks[a], c)

\* What causalPIBT asks for an agent.
Asks(a) == Append(NeighborLocs(curr_states[a]), curr_states[a])

\* A goal's table, asked for the agents without a path to it one after the other.
AskedInTurn(goal, order) ==
  LET asked[k \in 0 .. NumAgents] ==
        IF k = 0 THEN heuristics[goal]
        ELSE IF traj_dists[order[k]] = Empty /\ tasks[order[k]] = goal
             THEN AskedIfThere(asked[k - 1], Asks(order[k]))
             ELSE asked[k - 1]
  IN  asked[NumAgents]

\* The agents are sorted, and every one asks how far the cells around it are, in the order in
\* which they are pushed around.
Sort ==
  /\ stage = "sort"
  /\ ids' \in {order \in Bijection(1 .. NumAgents, Agent) :
                 \A j, k \in 1 .. NumAgents : p[order[j]] > p[order[k]] => j < k}
  /\ traj_dists' = [a \in Agent |-> AskedIfThere(traj_dists[a], Asks(a))]
  /\ \E order \in Bijection(1 .. NumAgents, Agent) :
       heuristics' = [c \in Free |-> AskedInTurn(c, order)]
  /\ stage' = "planned"
  /\ UNCHANGED << input, trajs, flow, soc, last_replan_t, nodes, late, count, replan_order,
                  searching, stopped >>

Blocked(top) == \A c \in Neighbors(curr_states[top]) : Guide(top, curr_states[top]) <= Guide(top, c)

\* The agents move without conflict, as PIBT lets them, or wait for a plan that is late, and the
\* time goes on.
Execute ==
  /\ stage = "planned" /\ curr_timestep + 1 < SimulationTime
  /\ curr_states' \in Injection(Agent, Free)
  /\ \A a \in Agent : curr_states'[a] \in Successors(curr_states[a])
  /\ \A a, b \in Agent : a # b => ~ (curr_states'[a] = curr_states[b] /\ curr_states'[b] = curr_states[a])
  /\ curr_timestep' = curr_timestep + 1
  /\ stage' = "idle"
  /\ UNCHANGED << goal_locations, tasks, dummy_goals, p_copy, p, require_guide_path, heuristics, paths,
                  nodes, ids, late, count, replan_order, searching, stopped >>

Next ==
  \/ get_h \/ plan \/ plan_pibt
  \/ InitialPath \/ StartRefinement \/ frank_wolfe \/ Search \/ Found \/ Stop
  \/ Sort \/ Execute

Spec == Init /\ [][Next]_vars
-----------------------------------------------------------------------------
\* However often the search of a goal's distances was interrupted, and by whomever, what the
\* table says is the distance.
TablesExact ==
  \A goal \in Free : \A c \in DOMAIN heuristics[goal].dist :
    heuristics[goal].dist[c].cost = Steps[c][goal]

\* The same for guide paths: the table of an agent belongs to the path that it has now, and
\* says how far every cell is from the path and how far the path goes on from there.
PathTablesExact ==
  \A a \in Agent : \A c \in DOMAIN traj_dists[a].dist :
    LET way == WayAlong(trajs[a], c)
    IN  traj_dists[a].dist[c] = Entry(c, way.cost, way.togo)

\* The path that A* has found is a cheapest one in the traffic of the others, tables or not.
CheapestFound ==
  searching # None /\ tasks[searching] \in First =>
    LET found == PathCost(flow, Trajectory(tasks[searching]))
    IN  \A path \in PathsBetween[curr_states[searching]][tasks[searching]] :
          Walkable(path) => found <= PathCost(flow, path)

\* The planner never ends the program: no node is expanded twice, and a path is found, as long
\* as no agent gets a goal that it cannot reach (GoalsReachable).
NeverExits == stage # "exited"

\* Every agent can reach the goals that it may get.
GoalsReachable ==
  \A s \in Placements, goals \in Assignments, a \in Agent :
    goals[a] # NoGoals => Head(goals[a]) \in DOMAIN Steps[s[a]]

\* The flow counts every guide path once, but for that of the agent that gets a new one.
FlowBalances ==
  LET counted    == {a \in Agent : a # searching}
      length     == [a \in Agent |-> Length(trajs[a])]
      uses(c, d) == [a \in Agent |-> Cardinality({k \in 1 .. Length(trajs[a]) :
                       trajs[a][k] = c /\ get_d(trajs[a][k + 1] - c) = d})]
  IN  /\ soc = MapThenSumSet(LAMBDA a : length[a], counted)
      /\ \A c \in Free, d \in 0 .. 3 : flow[c][d] = MapThenSumSet(LAMBDA a : uses(c, d)[a], counted)

\* After plan, every agent that the deadline did not leave out is guided to its task: it is
\* there, or one of the cells around it is nearer (unless its path jumps between rows).
\* This is what the progress of PIBT's first agent rests on.
GuidesLead ==
  stage = "planned" =>
    \A a \in 0 .. stopped - 1 :
      /\ Last(trajs[a]) = tasks[a]
      /\ \/ curr_states[a] = tasks[a]
         \/ ~ Walkable(trajs[a])
         \/ ~ Blocked(a)

\* An agent that keeps on its way to a goal is not overtaken, unless by one in a dead end.
KeepPlace ==
  stage = "sort" =>
    \A j, k \in 1 .. NumAgents :
      (/\ j < k
       /\ goal_locations[ids[j]] # NoGoals
       /\ ~ require_guide_path[ids[j]]
       /\ \A b \in Agent : ~ Dead(curr_states[b]))
      => p[ids[j]] > p[ids[k]]

=============================================================================
