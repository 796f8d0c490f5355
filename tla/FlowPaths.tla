------------------------------ MODULE FlowPaths ------------------------------
(***************************************************************************)
(* How the flow scheduler schedule_plan_flow of                            *)
(* default_planner/scheduler.cpp reads a schedule off a cheapest flow.     *)
(* Each worker is led from its cell along arcs with flow that is not used  *)
(* up, and takes the first task it comes to.  Workers need not follow the  *)
(* paths that the flow was made of: one may take the task for which        *)
(* another's path was meant, and the other then has to go on.              *)
(*                                                                         *)
(* The network simplex of LEMON is external: it returns a cheapest flow,   *)
(* any of them.  Every arc of the map costs something and has room for all *)
(* workers, so a cheapest flow is the sum of shortest paths to the cells   *)
(* of a cheapest matching.                                                 *)
(***************************************************************************)
EXTENDS GuidePath, Functions, SequencesExt

CONSTANTS
  NumWorkers,      \* num_workers
  Workloads,       \* the numbers of tasks per cell that are modelled
  BackgroundFlows  \* the traffic that is modelled

Worker == 1 .. NumWorkers
Sink   == -1

ASSUME WorkersAssumption == NumWorkers \in 1 .. NumAgents

\* Every worker can have a task.
ASSUME WorkloadsAssumption ==
  \A load \in Workloads :
    /\ DOMAIN load \subseteq Free
    /\ \A loc \in DOMAIN load : load[loc] \in Nat \ {0}
    /\ MapThenSumSet(LAMBDA loc : load[loc], DOMAIN load) >= NumWorkers

ASSUME BackgroundFlowsAssumption == BackgroundFlows \subseteq [Cell -> [0 .. 3 -> Nat]]

VARIABLES
  background_flow,  \* the traffic, or nothing in it where it is not used
  start_locations,  \* curr_states of the workers
  flexible_tasks,   \* cell |-> number of tasks that start in it
  task_loc_ids,     \* cell |-> number of tasks that are left in it
  edge_flows,       \* arc |-> flow that is not used up
  worker, current,  \* the loop over the workers and the walk of one
  proposed          \* worker |-> the cell of its task, for those that have one

problem  == << background_flow, start_locations, flexible_tasks >>
flowVars == << problem, task_loc_ids, edge_flows, worker, current, proposed >>

-----------------------------------------------------------------------------
(* The network.                                                            *)

\* The neighbours of a cell are those in the linear order, at the ends of a row also.
Arcs == {arc \in Free \X Free : arc[2] \in NeighborsAnywhere(arc[1])}

\* One for the step, the traffic against it and half of the traffic in the next cell.
Cost(traffic, arc) ==
  LET d  == get_d(arc[1] - arc[2])
      op == (traffic[arc[1]][d] + 1) * traffic[arc[2]][(d + 2) % 4]
  IN  1 + op + MapThenSumSet(LAMBDA j : traffic[arc[2]][j], 0 .. 3) \div 2

ArcsOf(path) == {<< path[k], path[k + 1] >> : k \in 1 .. Len(path) - 1}

WayCost(traffic, path) ==
  LET cost == [arc \in Arcs |-> Cost(traffic, arc)]
  IN  MapThenSumSet(LAMBDA arc : cost[arc], ArcsOf(path))

\* The cheapest paths from one cell to another.
CheapestPaths ==
  [traffic \in BackgroundFlows |-> [from \in Free |-> [to \in Free |->
    {path \in PathsBetween[from][to] :
       \A other \in PathsBetween[from][to] : WayCost(traffic, path) <= WayCost(traffic, other)}]]]

Distances ==
  [traffic \in BackgroundFlows |-> [from \in Free |->
    [to \in {c \in Free : PathsBetween[from][c] # {}} |->
       WayCost(traffic, CHOOSE path \in CheapestPaths[traffic][from][to] : TRUE)]]]

PathsTo(w, loc) == CheapestPaths[background_flow][start_locations[w]][loc]

-----------------------------------------------------------------------------
(* The flow.                                                               *)

\* Workers to cells they can reach, no cell more often than it has tasks.
Matchings ==
  {ends \in [Worker -> DOMAIN flexible_tasks] :
     /\ \A loc \in DOMAIN flexible_tasks :
          Cardinality({w \in Worker : ends[w] = loc}) <= flexible_tasks[loc]
     /\ \A w \in Worker : PathsTo(w, ends[w]) # {}}

TotalDistance(ends) ==
  LET distance == [w \in Worker |-> Distances[background_flow][start_locations[w]][ends[w]]]
  IN  MapThenSumSet(LAMBDA w : distance[w], Worker)

CheapestMatchings ==
  LET total == [ends \in Matchings |-> TotalDistance(ends)]
  IN  {ends \in Matchings : \A other \in Matchings : total[ends] <= total[other]}

\* What the paths of all workers carry over the arcs of the map and into the sink.
Carried(path) == ArcsOf(path) \cup {<< Last(path), Sink >>}

FlowOf(paths) ==
  [arc \in Arcs \cup (Free \X {Sink}) |-> Cardinality({w \in Worker : arc \in Carried(paths[w])})]

PathsOf(ends) ==
  {paths \in [Worker -> UNION {PathsTo(w, ends[w]) : w \in Worker}] :
     \A w \in Worker : paths[w] \in PathsTo(w, ends[w])}

CheapestFlows == UNION {{FlowOf(paths) : paths \in PathsOf(ends)} : ends \in CheapestMatchings}

-----------------------------------------------------------------------------
(* Reading the schedule off.                                               *)

NextWorker ==
  /\ worker' = worker + 1
  /\ current' = IF worker < NumWorkers THEN start_locations[worker + 1] ELSE Sink
  /\ UNCHANGED problem

\* A cell whose tasks are all taken is no task cell any more.
TakenFrom(loc) ==
  [l \in DOMAIN task_loc_ids \ (IF task_loc_ids[loc] = 1 THEN {loc} ELSE {}) |->
     IF l = loc THEN task_loc_ids[l] - 1 ELSE task_loc_ids[l]]

\* The worker takes the task in front of the cell's list.
Take ==
  /\ worker \in Worker
  /\ current \in DOMAIN task_loc_ids
  /\ proposed' = [w \in DOMAIN proposed \cup {worker} |->
                    IF w = worker THEN current ELSE proposed[w]]
  /\ task_loc_ids' = TakenFrom(current)
  /\ UNCHANGED edge_flows
  /\ NextWorker

WithFlow(loc) == {arc \in DOMAIN edge_flows : arc[1] = loc /\ edge_flows[arc] > 0}

\* Out-arcs come in any order.
OutArcsInAnyOrder(loc) == WithFlow(loc)

\* The arc to the sink was added before the arcs of the map, and LEMON returns the arcs of a
\* node from the last one added to the first.
OutArcs(loc) ==
  IF WithFlow(loc) \cap Arcs # {} THEN WithFlow(loc) \cap Arcs ELSE WithFlow(loc)

\* Every worker finds the flow as the solver returned it.
NotUsed(arc) == edge_flows

Used(arc) == [edge_flows EXCEPT ![arc] = @ - 1]

\* The next step of a walk; without one, "No solution found."
Walk ==
  /\ worker \in Worker
  /\ current \notin DOMAIN task_loc_ids
  /\ IF OutArcs(current) = {} THEN UNCHANGED edge_flows /\ NextWorker
     ELSE /\ \E arc \in OutArcs(current) : current' = arc[2] /\ edge_flows' = Used(arc)
          /\ UNCHANGED << problem, worker >>
  /\ UNCHANGED << task_loc_ids, proposed >>

FlowInit ==
  /\ background_flow \in BackgroundFlows
  /\ start_locations \in Injection(Worker, Free)
  /\ flexible_tasks \in Workloads
  /\ task_loc_ids = flexible_tasks
  /\ edge_flows \in CheapestFlows
  /\ worker = 1
  /\ current = start_locations[1]
  /\ proposed = [w \in {} |-> Sink]

FlowNext == Take \/ Walk

FlowSpec == FlowInit /\ [][FlowNext]_flowVars
-----------------------------------------------------------------------------
\* When the solver has found a flow, nobody gets lost: every worker before the current one has
\* a task, although workers take tasks that the flow meant for others.
WorkersServed == DOMAIN proposed = {w \in Worker : w < worker}

\* The schedule that is read off is a cheapest one, no matter who took whose task.
CheapestScheduleRead == worker > NumWorkers => proposed \in CheapestMatchings

=============================================================================
