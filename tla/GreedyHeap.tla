----------------------------- MODULE GreedyHeap ------------------------------
(***************************************************************************)
(* The greedy heap scheduler, scheduler 6 (PortableGreedyHeapScheduler in  *)
(* default_planner/portable_greedy_heap.cpp), with the task manager that   *)
(* takes its schedules.  It lists candidate tasks for every agent without  *)
(* a task and keeps the lists for the next call, pairs agents and tasks by *)
(* the lowest score, and then exchanges the tasks of paired agents and of  *)
(* agents that are still far from their pickup.                            *)
(*                                                                         *)
(* In the fair mode the lists are short, come from the tasks around, and   *)
(* have scores that are estimates until there is time for better ones.     *)
(*                                                                         *)
(* The deadline may end the listing, the pairing and the exchanges at any  *)
(* point.  What the traffic adds to a score may be anything.               *)
(***************************************************************************)
EXTENDS Scheduling

CONSTANTS
  Distance,        \* get_h
  CrowFlies,       \* the Manhattan distance
  Landmarks,       \* fair_landmarks_
  Pressures,       \* what the traffic may add to a score
  DistWeight,      \* dist_weight
  KeepBias,        \* reassign_keep_bias
  SortK,           \* sort_k
  Configs          \* the other options that are modelled

ASSUME DistanceAssumption ==
  /\ Distance \in [Location -> [Location -> Nat]] /\ CrowFlies \in [Location -> [Location -> Nat]]
  /\ Landmarks \subseteq Location /\ Pressures \subseteq Nat
ASSUME WeightsAssumption == DistWeight \in Nat /\ KeepBias \in Nat /\ SortK \in Nat \ {0}

\* max_assign_ratio and warmup_assign_ratio as numbers of agents.
ASSUME ConfigsAssumption ==
  Configs \subseteq [max_total : 1 .. NumAgents, warmup_total : 1 .. NumAgents, warmup_steps : Nat,
                     reassign_enabled : BOOLEAN, reassign_min_dist : Nat,
                     fair_candidate_k : Nat, fair_exact_agent_threshold : Nat,
                     exact_pickup_cache : BOOLEAN, traffic_rerank : BOOLEAN]

VARIABLES
  config,
  candidates,          \* row |-> its list (task |-> score) and the agent and cell it is for
  candidate_task_ids,  \* the tasks of the lists
  listed,              \* the deadline did not end the last listing
  pc                   \* "schedule" or "update"

heap_vars == << manager, config, curr_states, candidates, candidate_task_ids, listed, pc,
                proposed_schedule >>

-----------------------------------------------------------------------------
(* Who may get a task, and which.                                          *)

NoTask == {a \in Agent : current_assignment[a] \notin DOMAIN ongoing_tasks}

Pickup(t) == TM!Errands(t)[1]

\* The agents whose tasks may be exchanged: neither opened nor close to the pickup.
ReassignAgents ==
  {a \in Agent \ NoTask :
     /\ config.reassign_enabled
     /\ ~ TM!Opened(ongoing_tasks[current_assignment[a]])
     /\ Distance[curr_states[a]][Pickup(current_assignment[a])] >= config.reassign_min_dist}

MaxTotal == IF curr_timestep < config.warmup_steps THEN config.warmup_total ELSE config.max_total

\* Every call may give out as many tasks as the ratio says.
MaxNewPerCall == MaxTotal

\* The ratio caps the agents with tasks, those of earlier calls included.
MaxNew ==
  LET left == MaxTotal - Cardinality(Agent \ NoTask)
  IN  IF left < 0 THEN 0 ELSE left

\* The agents by their ids, cut off at the cap.
FreeAgents == {a \in NoTask : Cardinality({b \in NoTask : b < a}) < MaxNew}

AgentOf(row) == CHOOSE a \in FreeAgents : Cardinality({b \in FreeAgents : b < a}) = row - 1

\* Whatever is not opened is offered.
UnopenedTasks == {t \in DOMAIN ongoing_tasks : ~ TM!Opened(ongoing_tasks[t])}

\* What nobody has is offered.
FreeTasks == DOMAIN ongoing_tasks \ Range(current_assignment)

\* The way to the pickup and on to the other errands.
Way(distance(_, _), loc, t) ==
  LET errands == TM!Errands(t)
      onward  == [i \in 2 .. Len(errands) |-> distance(errands[i - 1], errands[i])]
  IN  DistWeight * distance(loc, errands[1]) + MapThenSumSet(LAMBDA i : onward[i], 2 .. Len(errands))

Score(loc, t) == Way(LAMBDA c, d : Distance[c][d], loc, t)

\* The best of the lower bounds that the rows and columns and the landmarks give.
Gap(m, n) == IF m < n THEN n - m ELSE m - n

fair_distance(c, d) ==
  Max({CrowFlies[c][d]} \cup {Gap(Distance[l][c], Distance[l][d]) : l \in Landmarks})

Estimate(loc, t) == IF config.exact_pickup_cache THEN Score(loc, t) ELSE Way(fair_distance, loc, t)

-----------------------------------------------------------------------------
(* rebuild_candidates.                                                     *)

NoList == [t \in {} |-> 0]
NoRow  == [list |-> NoList, agent |-> None, location |-> None]

Rows == 1 .. Cardinality(FreeAgents)

\* With traffic the lists of the last call are thrown away.
Same == /\ ~ config.traffic_rerank
        /\ DOMAIN candidates = Rows
        /\ candidate_task_ids = FreeTasks

\* The rows to begin with: the pool may list the same tasks in another order, which clears
\* the rows as other tasks do.
Held == {[row \in Rows |-> NoRow]} \cup (IF Same THEN {candidates} ELSE {})

\* The list is kept while the agent and the tasks are the same.
KeptForAgent(row, held) ==
  /\ held[row].agent = AgentOf(row)
  /\ held[row].list # NoList

\* And while the agent has not moved.
Kept(row, held) ==
  /\ held[row].agent = AgentOf(row)
  /\ held[row].location = curr_states[AgentOf(row)]
  /\ held[row].list # NoList

\* The sort_k best of these tasks.
Shortened(loc, tasks) ==
  LET size == IF Cardinality(tasks) < SortK THEN Cardinality(tasks) ELSE SortK
  IN  {[t \in best |-> Score(loc, t)] :
         best \in {b \in kSubset(size, tasks) :
                     \A t \in b, u \in tasks \ b : Score(loc, t) <= Score(loc, u)}}

\* The row when these tasks have been scored: an empty list stays without a name.
Listed(row, held, tasks) ==
  LET a == AgentOf(row)
  IN  IF tasks = {} THEN {[held[row] EXCEPT !.list = NoList]}
      ELSE {[list |-> list, agent |-> a, location |-> curr_states[a]] :
              list \in Shortened(curr_states[a], tasks)}

Rebuilt(row, held) == IF Kept(row, held) THEN {held[row]} ELSE Listed(row, held, FreeTasks)

\* The deadline comes before the agent's turn or after some of its tasks.
CutShort(row, held) ==
  {held[row]} \cup
  (IF Kept(row, held) THEN {} ELSE UNION {Listed(row, held, tasks) : tasks \in SUBSET FreeTasks})

Listing(rows, tasks, complete) == [candidates |-> rows, task_ids |-> tasks, listed |-> complete]

\* The rows before the last one are complete, those after it are not touched.
ListedUpTo(last, held) ==
  {rows \in [Rows -> UNION {Rebuilt(row, held) \cup CutShort(row, held) : row \in Rows}] :
     \A row \in Rows : /\ row < last => rows[row] \in Rebuilt(row, held)
                       /\ row = last => rows[row] \in CutShort(row, held)
                       /\ row > last => rows[row] = held[row]}

rebuild_candidates ==
  LET all == Cardinality(FreeAgents)
  IN  UNION {{Listing(rows, FreeTasks, last > all) : rows \in ListedUpTo(last, held)} :
             last \in 1 .. all + 1, held \in Held}

-----------------------------------------------------------------------------
(* rebuild_candidates_fair: the lists are without names, so that no later  *)
(* call uses them.                                                         *)

Fair == /\ config.fair_candidate_k > 0
        /\ Cardinality(FreeAgents) > config.fair_exact_agent_threshold

\* The first row to be listed moves on with the time.
Turn(row) == (row - 1 - curr_timestep * 7919) % Cardinality(FreeAgents)

\* The tasks around the agent, or one anywhere: which these are is up to the zones.
ShortLists == {tasks \in SUBSET FreeTasks \ {{}} : Cardinality(tasks) <= config.fair_candidate_k}

FairRow(row, tasks, exact) ==
  LET loc == curr_states[AgentOf(row)]
  IN  [NoRow EXCEPT !.list = [t \in tasks |-> IF exact THEN Score(loc, t) ELSE Estimate(loc, t)]]

\* How many agents are listed before the deadline and then, if there is time left after the
\* last of them, scored exactly.
Progress ==
  LET all == Cardinality(FreeAgents)
  IN  {[seeded |-> k, exact |-> 0] : k \in 0 .. all} \cup {[seeded |-> all, exact |-> k] : k \in 0 .. all}

FairListing(lists, done) ==
  Listing([row \in Rows |-> IF Turn(row) < done.seeded
                            THEN FairRow(row, lists[row], Turn(row) < done.exact) ELSE NoRow],
          {}, done.exact = Cardinality(FreeAgents))

rebuild_candidates_fair ==
  IF FreeTasks = {} THEN {Listing([row \in Rows |-> NoRow], {}, TRUE)}
  ELSE UNION {{FairListing(lists, done) : lists \in [Rows -> ShortLists]} : done \in Progress}

\* rerank_traffic_candidates: the scores of some pairs go up.
Reranked(rows) ==
  IF ~ config.traffic_rerank THEN {rows}
  ELSE {[row \in DOMAIN rows |->
           [rows[row] EXCEPT !.list = [t \in DOMAIN @ |-> @[t] + raise[row][t]]]] :
        raise \in [DOMAIN rows -> [FreeTasks -> {0} \cup Pressures]]}

-----------------------------------------------------------------------------
(* lazy_match and the exchanges.                                           *)

\* Pairs (row |-> task) that the heap leaves when it is emptied: whoever did not get a task
\* of its list has a better one, or the task went to a better score.
LeftByHeap(rows, pairs) ==
  \A row \in DOMAIN rows : \A t \in DOMAIN rows[row].list :
    \/ row \in DOMAIN pairs /\ rows[row].list[pairs[row]] <= rows[row].list[t]
    \/ \E other \in DOMAIN pairs : pairs[other] = t /\ rows[other].list[t] <= rows[row].list[t]

AllPairs(rows) ==
  {pairs \in UNION {Injection(matched, FreeTasks) : matched \in SUBSET DOMAIN rows} :
     \A row \in DOMAIN pairs : pairs[row] \in DOMAIN rows[row].list}

\* The deadline may end the loop after any pair.
Matches(rows) ==
  UNION {{[a \in {AgentOf(row) : row \in matched} |->
             pairs[CHOOSE row \in matched : AgentOf(row) = a]] : matched \in SUBSET DOMAIN pairs} :
         pairs \in {p \in AllPairs(rows) : LeftByHeap(rows, p)}}

\* The score with the bonus for the old pair.
PairScore(a, t) ==
  Score(curr_states[a], t) - (IF a \in ReassignAgents /\ current_assignment[a] = t THEN KeepBias ELSE 0)

TotalScore(matches) == MapThenSumSet(LAMBDA a : PairScore(a, matches[a]), DOMAIN matches)

\* Pairs join those that may be reassigned; each exchange of two tasks lowers the total.
Refined(matches) ==
  LET all == [a \in DOMAIN matches \cup ReassignAgents |->
                IF a \in DOMAIN matches THEN matches[a] ELSE current_assignment[a]]
  IN  {all} \cup {other \in Injection(DOMAIN all, Range(all)) : TotalScore(other) < TotalScore(all)}

Schedule ==
  /\ pc = "schedule"
  /\ curr_timestep < SimulationTime
  /\ \E listing \in IF Fair THEN rebuild_candidates_fair ELSE rebuild_candidates :
       /\ candidates' \in Reranked(listing.candidates)
       /\ candidate_task_ids' = listing.task_ids
       /\ listed' = listing.listed
  /\ \E matches \in Matches(candidates') : \E refined \in Refined(matches) :
       proposed_schedule' = [a \in Agent |-> IF a \in DOMAIN refined THEN refined[a]
                                             ELSE IF a \in NoTask THEN None
                                             ELSE current_assignment[a]]
  /\ pc' = "update"
  /\ UNCHANGED << manager, config, curr_states >>

\* The move of the agents and update_tasks.
Update ==
  /\ pc = "update"
  /\ \E time \in curr_timestep + 1 .. SimulationTime :
       /\ curr_states' \in TM!States
       /\ TM!update_tasks(curr_states', proposed_schedule, time)
  /\ pc' = "schedule"
  /\ UNCHANGED << config, candidates, candidate_task_ids, listed, proposed_schedule >>

HeapInit ==
  /\ TM!Init
  /\ config \in Configs
  /\ curr_states \in TM!States
  /\ candidates = << >>
  /\ candidate_task_ids = {}
  /\ listed = TRUE
  /\ pc = "schedule"
  /\ proposed_schedule = [a \in Agent |-> None]

HeapNext == Schedule \/ Update

HeapSpec == HeapInit /\ [][HeapNext]_heap_vars
-----------------------------------------------------------------------------
\* Whatever the deadline cut off, the task manager accepts the schedule: no task goes to two
\* agents and no opened one leaves its agent.
ScheduleAccepted == pc = "update" => TM!validate_task_assignment(proposed_schedule)

\* The ratio caps the agents with tasks over all calls: a call leaves at most so many, or no
\* more than it found.
LoadCapped ==
  pc = "update" =>
    LET busy == {a \in Agent : proposed_schedule[a] # None}
    IN  Cardinality(busy) <= MaxTotal \/ Cardinality(busy) <= Cardinality(Agent \ NoTask)

\* A call that had the time to list all candidates chose by the scores of the agents where
\* they are now, although lists of earlier calls are used again, which the deadline may have
\* cut short, and estimates are scored again.  The traffic counts at most once.
ScoresCurrent ==
  pc = "update" /\ listed =>
    \A row \in DOMAIN candidates :
      \A t \in DOMAIN candidates[row].list :
        candidates[row].list[t] - Score(curr_states[AgentOf(row)], t) \in
          {0} \cup (IF config.traffic_rerank THEN Pressures ELSE {})

=============================================================================
