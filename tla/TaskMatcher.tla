---------------------------- MODULE TaskMatcher -----------------------------
(***************************************************************************)
(* The task matcher, scheduler 7 (schedule_plan_portable_task_matcher and  *)
(* top_k_match in default_planner/portable_assignment.cpp).  It assigns    *)
(* tasks to the agents that have none and moves the unopened tasks of      *)
(* agents that are still far from the pickup.                              *)
(*                                                                         *)
(* One round is a call by the Entry, on what the environment holds then;   *)
(* between rounds the task manager takes the proposal or refuses it, and   *)
(* agents open and finish tasks.  The call reads the clock again and       *)
(* again, and the deadline may pass between any two steps.                 *)
(***************************************************************************)
EXTENDS Assignment, SequencesExt

CONSTANTS
  NumAgents,
  Task,         \* the ids in the pool; a finished task's id stands for the one revealed then
  KeepBias,     \* reassign_keep_bias
  CandidateTopK,\* candidate_top_k
  TrafficTopK,  \* traffic_top_k
  Invalid,      \* kInvalidCost: there is no way
  Configs,      \* max_assign_ratio in percent, max_matrix_elements, reassign_enabled,
                \* use_traffic_cost and joint_congestion_weight > 0
  Scenes,       \* how far the agents may be from the pickups, in units of dist_weight, and
                \* how long the tasks may be
  Surcharges    \* what the traffic may add to a pair: agent -> task -> cost

Agent == 0 .. NumAgents - 1
None  == -1

\* What costs as much is taken to be impossible.
InvalidLimit == Invalid \div 2

ASSUME NumAgentsAssumption == NumAgents \in Nat \ {0}
ASSUME TaskAssumption == Task \subseteq Nat /\ IsFiniteSet(Task)
ASSUME TopKAssumption ==
  KeepBias \in Nat /\ CandidateTopK \in Nat \ {0} /\ TrafficTopK \in Nat \ {0}
ASSUME ConfigsAssumption ==
  Configs \subseteq [ratio : 0 .. 100, max_matrix : Nat \ {0}, reassign : BOOLEAN,
                     traffic : BOOLEAN, joint : BOOLEAN]
ASSUME InvalidAssumption == Invalid \in Nat \ {0}
ASSUME SurchargesAssumption == Surcharges \subseteq [Agent -> [Task -> Nat]]
\* Distances, with what the traffic adds to them, are far below kInvalidCost.
ASSUME ScenesAssumption ==
  \A scene \in Scenes :
    /\ scene.distance \in [Agent -> [Task -> Nat]] /\ scene.length \in [Task -> Nat]
    /\ \A a \in Agent, t \in Task :
         \/ scene.distance[a][t] = Invalid \/ scene.length[t] = Invalid
         \/ /\ scene.distance[a][t] + scene.length[t] < InvalidLimit
            /\ \A extra \in Surcharges :
                 scene.distance[a][t] + scene.length[t] + extra[a][t] < InvalidLimit

VARIABLES
  config,
  curr_task_schedule,  \* the environment: agent -> its task, or None
  opened,              \* the tasks with idx_next_loc > 0
  now,                 \* in a call, one of Scenes: Invalid if there is no way
  cost,                \* the cost matrix, if one is filled: candidate -> offered task -> cost
  pc,                  \* "idle", "ready", "priced", "solved", "refined", "search", "matched"
                       \* or "done"
  late,                \* the deadline has passed
  candidates,          \* the agents to match
  visited,             \* those that top_k_match has done
  matches,             \* agent -> task, for the matched candidates
  proposed_schedule

vars == << config, curr_task_schedule, opened, now, cost, pc, late, candidates, visited, matches,
           proposed_schedule >>

-----------------------------------------------------------------------------
Scheduled(schedule) == {schedule[a] : a \in Agent} \ {None}

Busy(schedule) == {a \in Agent : schedule[a] # None}

AtLeastOne(n) == IF n < 1 THEN 1 ELSE n

\* Free agents are admitted whatever the others have.
MaxNewPerCall == AtLeastOne((config.ratio * NumAgents) \div 100)

\* How many free agents may get a task: the ratio caps all agents with tasks.
MaxNew ==
  LET left == AtLeastOne((config.ratio * NumAgents) \div 100) - Cardinality(Busy(curr_task_schedule))
  IN  IF left < 0 THEN 0 ELSE left

Admitted ==
  LET free == Agent \ Busy(curr_task_schedule)
  IN  {a \in free : Cardinality({b \in free : b < a}) < MaxNew}

\* The agents whose tasks may move: neither opened nor close to the pickup.
Movable(near) ==
  {a \in Busy(curr_task_schedule) \ near :
     config.reassign /\ curr_task_schedule[a] \notin opened}

\* The schedule without the candidates' tasks.
local == [a \in Agent |-> IF a \in candidates THEN None ELSE curr_task_schedule[a]]

\* The tasks that nobody has are offered, those of the candidates are not.
TasksOfNobody == Task \ Scheduled(curr_task_schedule)

tasks == Task \ Scheduled(local)

\* old_assignment.
HasOld(a) == a \in candidates /\ curr_task_schedule[a] # None

-----------------------------------------------------------------------------
(* Scores and the cost matrix.                                             *)

Reaches(a, t) == now.distance[a][t] # Invalid

Delivers(t) == now.length[t] # Invalid

task_score(a, t) ==
  IF Reaches(a, t) /\ Delivers(t) THEN now.distance[a][t] + now.length[t] ELSE Invalid

\* Orders of the offered tasks: that of the pool may be any.
Ranks ==
  {rank \in [tasks -> 1 .. Cardinality(tasks)] : \A t, u \in tasks : rank[t] = rank[u] => t = u}

\* The reachable tasks that come before this one.
Nearer(a, t, rank) ==
  {u \in tasks : /\ Reaches(a, u)
                 /\ \/ now.distance[a][u] < now.distance[a][t]
                    \/ now.distance[a][u] = now.distance[a][t] /\ rank[u] < rank[t]}

\* With traffic only the nearest tasks are priced, by the cheapest ways to them in the traffic.
traffic_cost_matrix(rank, extra) ==
  [a \in candidates |-> [t \in tasks |->
     IF Reaches(a, t) /\ Delivers(t) /\ Cardinality(Nearer(a, t, rank)) < TrafficTopK
       THEN task_score(a, t) + extra[a][t] ELSE Invalid]]

\* The bonus for the old pairs.
add_keep_bias(matrix) ==
  [a \in candidates |-> [t \in tasks |->
     IF HasOld(a) /\ curr_task_schedule[a] = t /\ matrix[a][t] < InvalidLimit
       THEN matrix[a][t] - KeepBias ELSE matrix[a][t]]]

CostMatrices ==
  IF config.traffic
    THEN {add_keep_bias(traffic_cost_matrix(rank, extra)) : rank \in Ranks, extra \in Surcharges}
    ELSE {add_keep_bias([a \in candidates |-> [t \in tasks |-> task_score(a, t)]])}

MatrixFits == Cardinality(candidates) * Cardinality(tasks) <= config.max_matrix

\* The pairs of an assignment, without the impossible ones.
MatchesOf(matrix, agentSeq, taskSeq, assignment) ==
  LET taken == {i \in DOMAIN agentSeq :
                  /\ assignment[i] # Unassigned
                  /\ matrix[agentSeq[i]][taskSeq[assignment[i]]] < InvalidLimit}
  IN  [a \in {agentSeq[i] : i \in taken} |->
         taskSeq[assignment[CHOOSE i \in taken : agentSeq[i] = a]]]

\* The rows and columns of a matrix, in sequences.
Listed(matrix, agentSeq, taskSeq) ==
  [i \in DOMAIN agentSeq |-> [j \in DOMAIN taskSeq |-> matrix[agentSeq[i]][taskSeq[j]]]]

BestMatches(matrix) ==
  LET agentSeq == SetToSeq(candidates)
      taskSeq  == SetToSeq(tasks)
  IN  {MatchesOf(matrix, agentSeq, taskSeq, assignment) :
         assignment \in Optimal(Listed(matrix, agentSeq, taskSeq))}

NoMatches == << >>
NoCosts   == << >>
NoScene   == << >>

Matched(m) == {m[a] : a \in DOMAIN m}

-----------------------------------------------------------------------------
Init ==
  /\ config \in Configs
  /\ curr_task_schedule = [a \in Agent |-> None]
  /\ opened = {}
  /\ now = NoScene
  /\ cost = NoCosts
  /\ pc = "idle"
  /\ late = FALSE
  /\ candidates = {}
  /\ visited = {}
  /\ matches = NoMatches
  /\ proposed_schedule = [a \in Agent |-> None]

\* The deadline passes.
Expire ==
  /\ pc \notin {"idle", "done"} /\ ~ late
  /\ late' = TRUE
  /\ UNCHANGED << config, curr_task_schedule, opened, now, cost, pc, candidates, visited, matches,
                  proposed_schedule >>

\* The candidates are collected.
Collect ==
  /\ pc = "idle"
  /\ \E near \in SUBSET Agent : candidates' = Admitted \cup Movable(near)
  /\ now' \in Scenes
  /\ pc' = "ready"
  /\ UNCHANGED << config, curr_task_schedule, opened, cost, late, visited, matches, proposed_schedule >>

\* There is nothing to match, or no time.
ReturnEarly ==
  /\ pc = "ready"
  /\ candidates = {} \/ tasks = {} \/ late
  /\ proposed_schedule' = local
  /\ pc' = "done"
  /\ UNCHANGED << config, curr_task_schedule, opened, now, cost, late, candidates, visited, matches >>

\* The cost matrix is filled, if it is not too large.
Price ==
  /\ pc = "ready" /\ candidates # {} /\ tasks # {} /\ ~ late
  /\ IF MatrixFits THEN pc' = "priced" /\ cost' \in CostMatrices
                   ELSE pc' = "search" /\ UNCHANGED cost
  /\ UNCHANGED << config, curr_task_schedule, opened, now, late, candidates, visited, matches,
                  proposed_schedule >>

Solve ==
  /\ pc = "priced" /\ ~ late
  /\ matches' \in BestMatches(cost)
  /\ pc' = "solved"
  /\ UNCHANGED << config, curr_task_schedule, opened, now, cost, late, candidates, visited,
                  proposed_schedule >>

Joint == config.traffic /\ config.joint

\* The same pairs are priced again, by the load of the first matches, and matched anew.
Refine ==
  /\ pc = "solved" /\ Joint /\ ~ late
  /\ cost' \in CostMatrices
  /\ \A a \in candidates, t \in tasks : cost'[a][t] < InvalidLimit <=> cost[a][t] < InvalidLimit
  /\ matches' \in BestMatches(cost')
  /\ pc' = "refined"
  /\ UNCHANGED << config, curr_task_schedule, opened, now, late, candidates, visited,
                  proposed_schedule >>

\* There is no time for the next step, or none to do; without any match the search is tried.
Settle ==
  /\ \/ pc = "priced" /\ late
     \/ pc = "solved" /\ (late \/ ~ Joint)
     \/ pc = "refined"
  /\ pc' = IF matches = NoMatches /\ ~ late THEN "search" ELSE "matched"
  /\ UNCHANGED << config, curr_task_schedule, opened, now, cost, late, candidates, visited, matches,
                  proposed_schedule >>

\* The pickups of some tasks are near; the best of those whose score was computed is taken.
\* The order of the agents depends on the map and may be any.
SearchNext ==
  /\ pc = "search" /\ ~ late
  /\ \E a \in candidates \ visited :
     \E kept \in SUBSET (tasks \ Matched(matches)) :
       LET free  == Cardinality(tasks \ Matched(matches))
           keep  == IF CandidateTopK < free THEN CandidateTopK ELSE free
           valid == {t \in kept : task_score(a, t) < InvalidLimit}
           best  == {t \in valid : \A other \in valid : task_score(a, t) <= task_score(a, other)}
       IN  /\ Cardinality(kept) <= keep
           /\ late' = (Cardinality(kept) < keep)
           /\ visited' = visited \cup {a}
           /\ IF best = {} THEN matches' = matches
              ELSE \E t \in best : matches' = [b \in DOMAIN matches \cup {a} |->
                                                 IF b = a THEN t ELSE matches[b]]
  /\ UNCHANGED << config, curr_task_schedule, opened, now, cost, pc, candidates, proposed_schedule >>

SearchEnd ==
  /\ pc = "search"
  /\ late \/ visited = candidates
  /\ pc' = "matched"
  /\ UNCHANGED << config, curr_task_schedule, opened, now, cost, late, candidates, visited, matches,
                  proposed_schedule >>

\* The ceiling of the ratio of the candidates.
MaxAssignments == AtLeastOne((config.ratio * Cardinality(candidates) + 99) \div 100)

\* task_score with the bonus for the old pair, without the traffic.
RetainedScore(a) ==
  IF HasOld(a) /\ curr_task_schedule[a] = matches[a]
    THEN task_score(a, matches[a]) - KeepBias ELSE task_score(a, matches[a])

\* The cheapest matches, when there are too many.
Retained(agents) ==
  IF Cardinality(DOMAIN matches) <= MaxAssignments THEN agents = DOMAIN matches
  ELSE /\ agents \subseteq DOMAIN matches /\ Cardinality(agents) = MaxAssignments
       /\ \A a \in agents, b \in DOMAIN matches \ agents : RetainedScore(a) <= RetainedScore(b)

\* Every old task is given back, also one that another agent has now.
GivenBackAll(agents, a) == Cardinality(agents) < Cardinality(DOMAIN matches)

\* When matches were dropped, an old task that nobody got goes back to its agent.
GivenBack(agents, a) ==
  /\ Cardinality(agents) < Cardinality(DOMAIN matches)
  /\ curr_task_schedule[a] \notin {matches[b] : b \in agents}

Propose ==
  /\ pc = "matched"
  /\ pc' = "done"
  /\ IF matches = NoMatches
     THEN proposed_schedule' = [a \in Agent |-> IF HasOld(a) THEN curr_task_schedule[a] ELSE local[a]]
     ELSE \E agents \in SUBSET DOMAIN matches :
            /\ Retained(agents)
            /\ proposed_schedule' =
                 [a \in Agent |-> IF a \in agents THEN matches[a]
                                  ELSE IF HasOld(a) /\ GivenBack(agents, a) THEN curr_task_schedule[a]
                                  ELSE local[a]]
  /\ UNCHANGED << config, curr_task_schedule, opened, now, cost, late, candidates, visited, matches >>

\* validate_task_assignment of the task manager.
Valid(schedule) ==
  /\ Scheduled(schedule) \subseteq Task
  /\ \A a, b \in Agent : schedule[a] = schedule[b] /\ a # b => schedule[a] = None
  /\ \A a \in Agent : curr_task_schedule[a] \in opened => schedule[a] = curr_task_schedule[a]

\* The task manager takes the proposal if it is valid; agents finish and open tasks.
Update ==
  /\ pc = "done"
  /\ LET assigned == IF Valid(proposed_schedule) THEN proposed_schedule ELSE curr_task_schedule
     IN  \E finished \in SUBSET Busy(assigned) :
           /\ curr_task_schedule' = [a \in Agent |-> IF a \in finished THEN None ELSE assigned[a]]
           /\ opened' \in {o \in SUBSET Scheduled(curr_task_schedule') :
                             opened \cap Scheduled(curr_task_schedule') \subseteq o}
  /\ pc' = "idle"
  /\ late' = FALSE
  /\ candidates' = {}
  /\ visited' = {}
  /\ matches' = NoMatches
  /\ proposed_schedule' = [a \in Agent |-> None]
  /\ now' = NoScene
  /\ cost' = NoCosts
  /\ UNCHANGED config

Call ==
  \/ Collect \/ ReturnEarly \/ Price \/ Solve \/ Refine \/ Settle
  \/ SearchNext \/ SearchEnd \/ Propose

Next == Call \/ Expire \/ Update

Spec == Init /\ [][Next]_vars
-----------------------------------------------------------------------------
\* Wherever the deadline cuts the call off, the task manager accepts what it returns: no
\* task is given twice and no opened task is taken from its agent.
ProposalValid == pc = "done" => Valid(proposed_schedule)

\* max_assign_ratio caps the agents with tasks: a call leaves at most that many, or no more
\* than it found.
LoadCapped ==
  pc = "done" =>
    \/ Cardinality(Busy(proposed_schedule)) <= AtLeastOne((config.ratio * NumAgents) \div 100)
    \/ Cardinality(Busy(proposed_schedule)) <= Cardinality(Busy(curr_task_schedule))

\* The task cannot be served by the agent, or it was not priced: the traffic is only asked for
\* the TrafficTopK nearest tasks in reach, and that many are no farther than this one.
NotPriced(a, t) ==
  \/ ~ (Reaches(a, t) /\ Delivers(t))
  \/ /\ config.traffic
     /\ TrafficTopK <= Cardinality({u \in tasks \ {t} : /\ Reaches(a, u)
                                                      /\ now.distance[a][u] <= now.distance[a][t]})

\* With time, no cap and a matrix that fits, no candidate stays idle next to a task that it
\* could serve.  With the traffic in the costs that holds of its nearest tasks only.
WorkConserving ==
  pc = "done" /\ ~ late /\ config.ratio = 100 /\ MatrixFits =>
    \A a \in candidates \ Busy(proposed_schedule), t \in Task \ Scheduled(proposed_schedule) :
      NotPriced(a, t)

\* "A scheduler timeout must not discard a still-valid unopened task": when the deadline
\* passes before anything is matched, every task keeps an agent.
TimeoutKeepsTasks ==
  pc = "done" /\ late /\ matches = NoMatches =>
    Scheduled(curr_task_schedule) \subseteq Scheduled(proposed_schedule)

=============================================================================
