-------------------------- MODULE SchedulerProofs --------------------------
(***************************************************************************)
(* Proofs about the rounds of the schedulers, for every team, pool, task   *)
(* file, option and deadline: of the default schedulers and the capped     *)
(* Hungarian one with every commit window, and of the greedy heap.         *)
(*                                                                         *)
(* What both rest on is said of any schedule: when it is accepted, what    *)
(* the task manager makes of it (an instance of TaskManagerProofs), and    *)
(* that pairs of agents that have opened nothing make an accepted one.     *)
(*                                                                         *)
(* The first invariant ties the sets that the greedy scheduler keeps       *)
(* between its calls to the task manager's books. With a commit window the *)
(* sets only hold nothing wrong; without one they hold everything. Then    *)
(* nobody is left behind, by counting, when the pool is as large as the    *)
(* team.                                                                   *)
(*                                                                         *)
(* The second says of the rows that the greedy heap keeps that those with  *)
(* a name have the scores from the cell that is written beside it.         *)
(***************************************************************************)
EXTENDS SchedulingRound, GreedyHeap, Lemmas

TMP == INSTANCE TaskManagerProofs

LEMMA SameUpdate ==
  ASSUME NEW s, NEW assignment, NEW time
  PROVE  TM!update_tasks(s, assignment, time) <=> TMP!update_tasks(s, assignment, time)
  BY Zenon DEF TM!Opened, TMP!Opened, TM!get_next_loc, TMP!get_next_loc, TM!Scheduled,
         TMP!Scheduled, TM!Missing, TMP!Missing, TM!validate_task_assignment,
         TMP!validate_task_assignment, TM!Owner, TMP!Owner, TM!FirstAssigned,
         TMP!FirstAssigned, TM!AssignmentSet, TMP!AssignmentSet, TM!PoolSet,
         TMP!PoolSet, TM!Arrived, TMP!Arrived, TM!Finishing, TMP!Finishing,
         TM!TasksOf, TMP!TasksOf, TM!Released, TMP!Released, TM!Advanced,
         TMP!Advanced, TM!PoolAdvanced, TMP!PoolAdvanced, TM!Revealed,
         TMP!Revealed, TM!PoolRefilled, TMP!PoolRefilled, TM!Freed, TMP!Freed,
         TM!update_tasks, TMP!update_tasks, TM!Errands, TMP!Errands, TM!NewTask,
         TMP!NewTask, TM!Agent, TMP!Agent, TM!None, TMP!None, TM!MapThenSumSet,
         TMP!MapThenSumSet, TM!MapThenFoldSet, TMP!MapThenFoldSet, TM!Cardinality,
         TMP!Cardinality

LEMMA SameInit == TM!Init <=> TMP!Init
  BY DEF TM!Init, TMP!Init, TM!Agent, TMP!Agent, TM!None, TMP!None, TM!NewTask, TMP!NewTask

LEMMA SameNames ==
  /\ TM!States = TMP!States /\ Agent = TMP!Agent /\ None = TMP!None
  /\ Agent = 0 .. NumAgents - 1 /\ None = -1 /\ None \notin Agent /\ None \notin Nat
  BY TeamAssumption DEF TM!States, TMP!States, TM!Agent, TMP!Agent, TM!None, TMP!None, Agent, None

-----------------------------------------------------------------------------
(* What may be given to whom.                                              *)

\* The tasks that nobody has, by what the pool says.
Unowned == {t \in DOMAIN ongoing_tasks : ongoing_tasks[t].agent_assigned = None}

\* The task manager takes the schedule.
Accepted(schedule) ==
  /\ schedule \in [Agent -> {None} \cup DOMAIN ongoing_tasks]
  /\ \A a, b \in Agent : schedule[a] = schedule[b] /\ a # b => schedule[a] = None
  /\ \A a \in Agent : 
       /\ current_assignment[a] # None
       /\ TM!Opened(ongoing_tasks[current_assignment[a]])
       => schedule[a] = current_assignment[a]

Inv ==
  /\ TMP!IInv
  /\ schedule_errors = 0
  /\ solver \in Solvers
  /\ curr_timestep = 0 => Idle = Agent
  /\ solver.name = "greedy" => free_agents \subseteq Idle /\ free_tasks \subseteq Unowned
  /\ CommitWindow <= 1 =>
       /\ time_in_commit_window = 0
       /\ solver.name = "greedy" => Agents = Idle /\ Offer = Unowned

\* The two records of the task manager, in the words of this module.
LEMMA Books ==
  ASSUME TMP!IInv
  PROVE  /\ DOMAIN ongoing_tasks \subseteq 0 .. task_id - 1 /\ task_id \in Nat
         /\ curr_timestep \in Nat
         /\ current_assignment \in [Agent -> {None} \cup DOMAIN ongoing_tasks]
         /\ \A a, b \in Agent :
              current_assignment[a] = current_assignment[b] /\ a # b => current_assignment[a] = None
         /\ \A t \in DOMAIN ongoing_tasks :
              /\ t \in Nat
              /\ t \in Unowned <=> \A a \in Agent : current_assignment[a] # t
              /\ t \notin Unowned =>
                   /\ ongoing_tasks[t].agent_assigned \in Agent
                   /\ current_assignment[ongoing_tasks[t].agent_assigned] = t
              /\ \A a \in Agent : current_assignment[a] = t => ongoing_tasks[t].agent_assigned = a
         /\ new_freeagents \subseteq Idle /\ new_tasks \subseteq Unowned
<1>1. /\ TMP!TypeOK /\ TMP!EveryTaskAccounted /\ TMP!EventsFresh
      /\ TMP!PoolTyped(ongoing_tasks, current_assignment)
      /\ TMP!Agree(ongoing_tasks, current_assignment)
  BY DEF TMP!IInv, TMP!PoolInv
<1>2. /\ DOMAIN ongoing_tasks \subseteq 0 .. task_id - 1 /\ task_id \in Nat
      /\ curr_timestep \in Nat /\ DOMAIN ongoing_tasks \subseteq Nat
  BY <1>1 DEF TMP!TypeOK, TMP!EveryTaskAccounted
<1>3. current_assignment \in [Agent -> {None} \cup DOMAIN ongoing_tasks]
  BY <1>1, SameNames DEF TMP!TypeOK, TMP!Agree
<1>4. ASSUME NEW a \in Agent, current_assignment[a] # None
      PROVE  ongoing_tasks[current_assignment[a]].agent_assigned = a
  BY <1>1, <1>4, SameNames DEF TMP!Agree
<1>5. ASSUME NEW t \in DOMAIN ongoing_tasks, t \notin Unowned
      PROVE  /\ ongoing_tasks[t].agent_assigned \in Agent
             /\ current_assignment[ongoing_tasks[t].agent_assigned] = t
  <2>1. ongoing_tasks[t].agent_assigned # None
    BY <1>5 DEF Unowned
  <2>2. ongoing_tasks[t] \in TMP!TaskRecord
    BY <1>1 DEF TMP!PoolTyped
  <2> QED
    BY <1>1, <2>1, <2>2, SameNames DEF TMP!Agree, TMP!TaskRecord
<1>6. ASSUME NEW t \in DOMAIN ongoing_tasks
      PROVE  /\ t \in Nat /\ t # None
             /\ \A a \in Agent : current_assignment[a] = t => ongoing_tasks[t].agent_assigned = a
             /\ t \in Unowned <=> \A a \in Agent : current_assignment[a] # t
  <2>1. t \in Nat /\ t # None
    BY <1>2, SameNames
  <2>2. \A a \in Agent : current_assignment[a] = t => ongoing_tasks[t].agent_assigned = a
    BY <1>4, <2>1
  <2> QED
    BY <1>5, <2>1, <2>2, SameNames DEF Unowned
<1>7. new_freeagents \subseteq Idle /\ new_tasks \subseteq Unowned
  BY <1>1, SameNames DEF TMP!TypeOK, TMP!EventsFresh, Idle, Unowned
<1> QED
  BY <1>2, <1>3, <1>4, <1>5, <1>6, <1>7, SameNames

LEMMA UnownedMeans ==
  TMP!IInv => /\ \A t \in DOMAIN ongoing_tasks :
                   t \in Unowned <=> \A a \in Agent : current_assignment[a] # t
              /\ new_tasks \subseteq Unowned
  BY Books

\* What an accepted schedule leaves free is what nobody was given, and the events.
LEMMA AfterRound ==
  ASSUME TMP!IInv, NEW time \in curr_timestep + 1 .. SimulationTime, NEW s \in TM!States,
         NEW schedule, Accepted(schedule), TM!update_tasks(s, schedule, time)
  PROVE  /\ TMP!IInv'
         /\ schedule_errors' = schedule_errors /\ curr_timestep' # 0
         /\ Idle' = {a \in Agent : schedule[a] = None} \cup new_freeagents'
         /\ Unowned' = {t \in DOMAIN ongoing_tasks : \A a \in Agent : schedule[a] # t} \cup new_tasks'
<1>1. /\ curr_timestep \in Nat /\ task_id \in Nat /\ DOMAIN ongoing_tasks \subseteq 0 .. task_id - 1
  BY Books
<1>2. schedule \in TMP!Schedules
  BY <1>1, SameNames DEF Accepted, TMP!Schedules
<1>3. TMP!validate_task_assignment(schedule)
  BY SameNames DEF Accepted, TMP!validate_task_assignment, TMP!Scheduled, TM!Opened, TMP!Opened
<1>4. TMP!update_tasks(s, schedule, time) /\ s \in TMP!States
  BY SameUpdate, SameNames
<1>5. TMP!IInv'
  <2>1. TMP!Next
    BY <1>2, <1>4 DEF TMP!Next, TMP!UpdateTasks
  <2> QED
    BY <2>1, TMP!StepIInv, TeamAssumption, TasksAssumption, NumTasksRevealAssumption,
       SimulationTimeAssumption
<1>6. PICK asg, pool, done, left : TMP!Summary(schedule, asg, pool, done, left, time)
  BY <1>2, <1>4, TMP!UpdateSummary, TeamAssumption, TasksAssumption, NumTasksRevealAssumption,
     SimulationTimeAssumption
<1>7. /\ asg = schedule /\ done \subseteq Agent /\ new_freeagents' = done
      /\ left = DOMAIN ongoing_tasks \ TMP!TasksOf(schedule, done)
      /\ current_assignment' = TMP!Released(schedule, done)
      /\ DOMAIN ongoing_tasks' = left \cup new_tasks'
      /\ curr_timestep' = time /\ schedule_errors' = schedule_errors
      /\ \A a \in done : schedule[a] # None
  BY <1>3, <1>6, SameNames DEF TMP!Summary, TMP!AssignmentSet
<1>8. \A a \in Agent : current_assignment'[a] = IF a \in done THEN None ELSE schedule[a]
  BY <1>7, SameNames DEF TMP!Released
<1>9. Idle' = {a \in Agent : schedule[a] = None} \cup new_freeagents'
  BY <1>7, <1>8 DEF Idle
<1>10. /\ \A t \in DOMAIN ongoing_tasks' :
            t \in Unowned' <=> \A a \in Agent : current_assignment'[a] # t
       /\ new_tasks' \subseteq Unowned' /\ Unowned' \subseteq DOMAIN ongoing_tasks'
  <2>1. (TMP!IInv => /\ \A t \in DOMAIN ongoing_tasks :
                          t \in Unowned <=> \A a \in Agent : current_assignment[a] # t
                     /\ new_tasks \subseteq Unowned)'
    BY UnownedMeans, PTL
  <2> QED
    BY <1>5, <2>1 DEF Unowned
<1>11. ASSUME NEW t \in DOMAIN ongoing_tasks, \A a \in Agent : schedule[a] # t
       PROVE  t \in Unowned'
  <2>1. t \in left /\ t # None
    BY <1>1, <1>7, <1>11, SameNames DEF TMP!TasksOf
  <2> QED
    BY <1>7, <1>8, <1>10, <1>11, <2>1
<1>12. ASSUME NEW t \in Unowned', t \notin new_tasks'
       PROVE  t \in DOMAIN ongoing_tasks /\ \A a \in Agent : schedule[a] # t
  <2>1. t \in left
    BY <1>7, <1>10, <1>12
  <2> QED
    BY <1>7, <1>8, <1>10, <2>1 DEF TMP!TasksOf
<1>13. Unowned' = {t \in DOMAIN ongoing_tasks : \A a \in Agent : schedule[a] # t} \cup new_tasks'
  BY <1>10, <1>11, <1>12
<1> QED
  BY <1>1, <1>5, <1>7, <1>9, <1>13

-----------------------------------------------------------------------------
(* The schedules.                                                          *)

\* Agents that have opened nothing may be given tasks that nobody has, or exchange theirs.
LEMMA PairsAccepted ==
  ASSUME TMP!IInv, NEW pairs, DOMAIN pairs \subseteq Agent, IsInjective(pairs),
         \A a \in DOMAIN pairs :
           /\ pairs[a] \in DOMAIN ongoing_tasks
           /\ current_assignment[a] = None \/ ~ TM!Opened(ongoing_tasks[current_assignment[a]])
           /\ pairs[a] \in Unowned \/ ongoing_tasks[pairs[a]].agent_assigned \in DOMAIN pairs
  PROVE  Accepted(With(pairs))
<1>1. \A a \in Agent : With(pairs)[a] = IF a \in DOMAIN pairs THEN pairs[a] ELSE current_assignment[a]
  BY DEF With
<1>2. With(pairs) \in [Agent -> {None} \cup DOMAIN ongoing_tasks]
  <2>1. \A a \in Agent : With(pairs)[a] \in {None} \cup DOMAIN ongoing_tasks
    BY <1>1, Books
  <2> QED
    BY <2>1 DEF With
<1>3. ASSUME NEW a \in Agent, NEW b \in Agent, a \in DOMAIN pairs, b \notin DOMAIN pairs
      PROVE  pairs[a] # current_assignment[b]
  <2>1. pairs[a] \in DOMAIN ongoing_tasks
    BY <1>3
  <2>2. current_assignment[b] = pairs[a] =>
          pairs[a] \notin Unowned /\ ongoing_tasks[pairs[a]].agent_assigned = b
    BY <2>1, Books
  <2> QED
    BY <1>3, <2>2
<1>4. ASSUME NEW a \in Agent, NEW b \in Agent, With(pairs)[a] = With(pairs)[b], a # b
      PROVE  With(pairs)[a] = None
  <2>1. CASE a \in DOMAIN pairs /\ b \in DOMAIN pairs
    BY <1>1, <1>4, <2>1 DEF IsInjective
  <2>2. CASE a \notin DOMAIN pairs /\ b \notin DOMAIN pairs
    BY <1>1, <1>4, <2>2, Books
  <2> QED
    BY <1>1, <1>3, <1>4, <2>1, <2>2
<1> QED
  BY <1>1, <1>2, <1>4 DEF Accepted

LEMMA AnnouncedIdle == Inv => Announced \subseteq Idle
  BY Books DEF Inv, Announced

\* Pairings are injections from some of the agents to some of the tasks.
LEMMA PairingsFacts ==
  ASSUME NEW agents, NEW tasks, NEW pairs \in Pairings(agents, tasks)
  PROVE  /\ DOMAIN pairs \subseteq agents /\ IsInjective(pairs)
         /\ \A a \in DOMAIN pairs : pairs[a] \in tasks
<1>1. PICK chosen \in SUBSET agents : pairs \in Injection(chosen, tasks)
  BY DEF Pairings, kSubset
<1> QED
  BY <1>1 DEF Injection

\* The greedy schedule and the sets that are kept for the next round.
LEMMA GreedyFacts ==
  ASSUME Inv, solver.name = "greedy", Greedy
  PROVE  /\ Accepted(proposed_schedule')
         /\ free_agents' \subseteq {a \in Agent : proposed_schedule'[a] = None}
         /\ free_tasks' \subseteq {t \in DOMAIN ongoing_tasks : \A a \in Agent : proposed_schedule'[a] # t}
         /\ Agents = Idle => free_agents' = {a \in Agent : proposed_schedule'[a] = None}
         /\ Offer = Unowned =>
              free_tasks' = {t \in DOMAIN ongoing_tasks : \A a \in Agent : proposed_schedule'[a] # t}
<1>1. PICK pairs \in Pairings(Agents, Offer) :
        /\ proposed_schedule' = [a \in Agent |-> IF a \in Agents \ DOMAIN pairs THEN None
                                                                               ELSE With(pairs)[a]]
        /\ free_agents' = Agents \ DOMAIN pairs
        /\ free_tasks' = Offer \ Range(pairs)
  BY DEF Greedy, Pairs
<1>2. /\ DOMAIN pairs \subseteq Agents /\ IsInjective(pairs)
      /\ \A a \in DOMAIN pairs : pairs[a] \in Offer
  BY <1>1, PairingsFacts
<1>3. TMP!IInv /\ Agents \subseteq Idle /\ Offer \subseteq Unowned
  BY AnnouncedIdle, Books DEF Inv, Agents, Offer
<1>4. Idle \subseteq Agent /\ Unowned \subseteq DOMAIN ongoing_tasks
        /\ \A a \in Idle : current_assignment[a] = None
  BY DEF Idle, Unowned
<1>5. Accepted(With(pairs))
  BY <1>2, <1>3, <1>4, PairsAccepted
<1>6. /\ proposed_schedule' = With(pairs)
      /\ \A a \in Agent : proposed_schedule'[a] = IF a \in DOMAIN pairs THEN pairs[a]
                                                                     ELSE current_assignment[a]
  <2>1. \A a \in Agent : With(pairs)[a] = IF a \in DOMAIN pairs THEN pairs[a] ELSE current_assignment[a]
    BY DEF With
  <2>2. \A a \in Agents \ DOMAIN pairs : With(pairs)[a] = None
    BY <1>3, <1>4, <2>1
  <2>3. proposed_schedule' = [a \in Agent |-> With(pairs)[a]]
    BY <1>1, <2>2
  <2>4. [a \in Agent |-> With(pairs)[a]] = With(pairs)
    BY DEF With
  <2> QED
    BY <2>1, <2>3, <2>4
<1>7. \A t \in DOMAIN ongoing_tasks :
        /\ t # None
        /\ t \in Unowned <=> \A a \in Agent : current_assignment[a] # t
  BY <1>3, Books, SameNames
<1>8. {a \in Agent : proposed_schedule'[a] = None} = Idle \ DOMAIN pairs
  BY <1>2, <1>3, <1>4, <1>6, <1>7 DEF Idle
<1>9. {t \in DOMAIN ongoing_tasks : \A a \in Agent : proposed_schedule'[a] # t} = Unowned \ Range(pairs)
  <2> SUFFICES ASSUME NEW t \in DOMAIN ongoing_tasks
               PROVE  (\A a \in Agent : proposed_schedule'[a] # t) <=> t \in Unowned /\ t \notin Range(pairs)
    BY <1>4
  <2>1. t \in Range(pairs) <=> \E a \in DOMAIN pairs : pairs[a] = t
    BY DEF Range
  <2>2. \A a \in DOMAIN pairs : a \in Agent /\ current_assignment[a] = None
    BY <1>2, <1>3, <1>4
  <2> QED
    BY <1>6, <1>7, <2>1, <2>2
<1> QED
  BY <1>1, <1>3, <1>5, <1>6, <1>8, <1>9

\* Within a commit window.
LEMMA KeepFacts ==
  ASSUME Inv, Keep
  PROVE  proposed_schedule' = current_assignment /\ Accepted(current_assignment)
           /\ UNCHANGED << free_agents, free_tasks >>
<1>1. /\ current_assignment \in [Agent -> {None} \cup DOMAIN ongoing_tasks]
      /\ \A a, b \in Agent :
           current_assignment[a] = current_assignment[b] /\ a # b => current_assignment[a] = None
  BY Books DEF Inv
<1>2. proposed_schedule' = [a \in Agent |-> current_assignment[a]]
  BY <1>1 DEF Keep
<1> QED
  BY <1>1, <1>2 DEF Keep, Accepted

LEMMA CappedAccepted ==
  ASSUME Inv, CappedHungarian
  PROVE  Accepted(proposed_schedule')
<1>1. CASE proposed_schedule' = current_assignment
  <2>1. /\ current_assignment \in [Agent -> {None} \cup DOMAIN ongoing_tasks]
        /\ \A a, b \in Agent :
             current_assignment[a] = current_assignment[b] /\ a # b => current_assignment[a] = None
    BY Books DEF Inv
  <2> QED
    BY <1>1, <2>1 DEF Accepted
<1>2. CASE ~ (proposed_schedule' = current_assignment)
  <2> DEFINE few == {a \in Idle : Cardinality({b \in Idle : b < a}) < MaxAgents}
  <2>0. PICK tasks \in SUBSET NotAssigned :
          \E pairs \in Pairings(few, tasks) : proposed_schedule' = With(pairs)
    BY <1>2 DEF CappedHungarian, kSubset
  <2>1. PICK pairs \in Pairings(few, tasks) : proposed_schedule' = With(pairs)
    BY <2>0
  <2>2. /\ DOMAIN pairs \subseteq few /\ IsInjective(pairs)
        /\ \A a \in DOMAIN pairs : pairs[a] \in NotAssigned
    BY <2>1, PairingsFacts
  <2>3. DOMAIN pairs \subseteq Agent /\ \A a \in DOMAIN pairs : current_assignment[a] = None
    BY <2>2 DEF Idle
  <2>4. NotAssigned \subseteq Unowned /\ TMP!IInv
    BY Books DEF Inv, NotAssigned, Range
  <2>5. \A a \in DOMAIN pairs : pairs[a] \in DOMAIN ongoing_tasks /\ pairs[a] \in Unowned
    BY <2>2, <2>4 DEF NotAssigned
  <2> QED
    BY <2>1, <2>2, <2>3, <2>4, <2>5, PairsAccepted
<1> QED
  BY <1>1, <1>2

LEMMA MatchingAccepted ==
  ASSUME Inv, Matching
  PROVE  Accepted(proposed_schedule')
<1>1. CASE proposed_schedule' = current_assignment
  <2>1. /\ current_assignment \in [Agent -> {None} \cup DOMAIN ongoing_tasks]
        /\ \A a, b \in Agent :
             current_assignment[a] = current_assignment[b] /\ a # b => current_assignment[a] = None
    BY Books DEF Inv
  <2> QED
    BY <1>1, <2>1 DEF Accepted
<1>2. CASE ~ (proposed_schedule' = current_assignment)
  <2>0. PICK edges \in EdgeSets : \E pairs \in Flows(edges) : proposed_schedule' = With(pairs)
    BY <1>2 DEF Matching
  <2>1. PICK pairs \in Flows(edges) : proposed_schedule' = With(pairs)
    BY <2>0
  <2>2. /\ DOMAIN pairs = FlexibleAgents /\ IsInjective(pairs)
        /\ \A a \in DOMAIN pairs : pairs[a] \in FlexibleTasks
    BY <2>1 DEF Flows, Injection
  <2>3. /\ FlexibleTasks \subseteq DOMAIN ongoing_tasks
        /\ \A t \in FlexibleTasks : ~ TM!Opened(ongoing_tasks[t])
    BY DEF FlexibleTasks, Unopened
  <2>4. TMP!IInv /\ Announced \subseteq Idle /\ Idle \subseteq Agent
          /\ \A a \in Idle : current_assignment[a] = None
    BY AnnouncedIdle DEF Inv, Idle
  <2>5. ASSUME NEW a \in FlexibleAgents
        PROVE  /\ a \in Agent
               /\ current_assignment[a] = None \/ ~ TM!Opened(ongoing_tasks[current_assignment[a]])
    <3>1. CASE a \in Announced
      BY <2>4, <3>1
    <3>2. CASE a \notin Announced
      <4>1. PICK t \in FlexibleTasks : ongoing_tasks[t].agent_assigned = a /\ a # None
        BY <3>2 DEF FlexibleAgents
      <4>2. t \in DOMAIN ongoing_tasks /\ t \notin Unowned
        BY <2>3, <4>1 DEF Unowned
      <4>3. a \in Agent /\ current_assignment[a] = t
        BY <2>4, <4>1, <4>2, Books
      <4> QED
        BY <2>3, <4>3
    <3> QED
      BY <3>1, <3>2
  <2>6. \A t \in FlexibleTasks : t \in Unowned \/ ongoing_tasks[t].agent_assigned \in FlexibleAgents
    BY <2>3 DEF Unowned, FlexibleAgents
  <2> QED
    BY <2>1, <2>2, <2>3, <2>4, <2>5, <2>6, PairsAccepted
<1> QED
  BY <1>1, <1>2

-----------------------------------------------------------------------------
(* Everybody is served.                                                    *)

\* Nobody has opened a task that nobody has, and the pool has its full size.
LEMMA Pool ==
  ASSUME TMP!IInv
  PROVE  /\ IsFiniteSet(DOMAIN ongoing_tasks)
         /\ Cardinality(DOMAIN ongoing_tasks) = NumTasksReveal
         /\ \A t \in Unowned : t \in DOMAIN ongoing_tasks /\ ~ TM!Opened(ongoing_tasks[t])
<1>1. \A S : TMP!Cardinality(S) = Cardinality(S)
  BY Zenon DEF TMP!Cardinality, Cardinality
<1>2. Cardinality(DOMAIN ongoing_tasks) = NumTasksReveal
  BY <1>1 DEF TMP!IInv, TMP!PoolFull
<1>3. IsFiniteSet(DOMAIN ongoing_tasks)
  <2> DEFINE ids == 0 .. task_id - 1
  <2>1. DOMAIN ongoing_tasks \subseteq ids /\ task_id - 1 \in Int /\ 0 \in Int
    BY Books
  <2>2. IsFiniteSet(ids)
    BY <2>1, FS_Interval
  <2> HIDE DEF ids
  <2> QED
    BY <2>1, <2>2, FS_Subset
<1>4. \A t \in Unowned : t \in DOMAIN ongoing_tasks /\ ~ TM!Opened(ongoing_tasks[t])
  BY SameNames DEF TMP!IInv, TMP!PoolInv, TMP!OwnedWhenOpened, Unowned, TM!Opened, TMP!Opened
<1> QED
  BY <1>2, <1>3, <1>4

\* The agents are finitely many.
LEMMA Team ==
  /\ IsFiniteSet(Agent) /\ Cardinality(Agent) = NumAgents
  /\ \A S \in SUBSET Agent : IsFiniteSet(S) /\ Cardinality(S) \in Nat /\ Cardinality(S) <= NumAgents
<1> DEFINE I == 0 .. NumAgents - 1
<1>1. Agent = I /\ 0 \in Int /\ NumAgents - 1 \in Int /\ NumAgents \in Nat
  BY SameNames, TeamAssumption
<1>2. IsFiniteSet(I) /\ Cardinality(I) = IF 0 > NumAgents - 1 THEN 0 ELSE (NumAgents - 1) - 0 + 1
  BY <1>1, FS_Interval
<1>3. Cardinality(I) = NumAgents
  BY <1>1, <1>2
<1> HIDE DEF I
<1>4. ASSUME NEW S \in SUBSET I
      PROVE  IsFiniteSet(S) /\ Cardinality(S) \in Nat /\ Cardinality(S) <= NumAgents
  BY <1>2, <1>3, FS_Subset, FS_CardinalityType
<1> QED
  BY <1>1, <1>2, <1>3, <1>4

\* With a pool as large as the team, there is a task for everyone who has none: those that
\* are taken have an agent each.
LEMMA TaskForEveryone ==
  ASSUME TMP!IInv, NumTasksReveal >= NumAgents
  PROVE  /\ IsFiniteSet(Idle) /\ IsFiniteSet(Unowned)
         /\ Cardinality(Idle) <= Cardinality(Unowned)
<1> DEFINE pool  == DOMAIN ongoing_tasks
           owned == pool \ Unowned
           busy  == Agent \ Idle
           owner == [t \in owned |-> ongoing_tasks[t].agent_assigned]
<1>1. /\ IsFiniteSet(pool) /\ Cardinality(pool) = NumTasksReveal /\ Unowned \subseteq pool
      /\ Idle \subseteq Agent
  BY Pool DEF Unowned, Idle
<1>2. \A t \in owned : owner[t] \in Agent /\ current_assignment[owner[t]] = t
  BY Books
<1>3. \A t \in owned : t # None
  BY Books, SameNames
<1>4. owner \in Injection(owned, busy)
  <2>1. \A t \in owned : owner[t] \in busy
    BY <1>2, <1>3 DEF Idle
  <2>2. \A t, u \in owned : owner[t] = owner[u] => t = u
    BY <1>2
  <2>3. owner \in [owned -> busy] /\ DOMAIN owner = owned
    BY <2>1
  <2> HIDE DEF owner, owned, busy
  <2> QED
    BY <2>2, <2>3 DEF Injection, IsInjective
<1>5. /\ IsFiniteSet(Agent) /\ Cardinality(Agent) = NumAgents
      /\ IsFiniteSet(Idle) /\ IsFiniteSet(busy)
  BY <1>1, Team
<1>6. IsFiniteSet(Unowned) /\ IsFiniteSet(owned)
  BY <1>1, FS_Subset
<1>7. owned \cup Unowned = pool /\ owned \cap Unowned = {}
        /\ busy \cup Idle = Agent /\ busy \cap Idle = {}
  BY <1>1
<1> HIDE DEF owner, owned, busy, pool
<1>8. Cardinality(owned) <= Cardinality(busy)
  BY <1>4, <1>5, FS_Injection
<1>9. Cardinality(pool) = Cardinality(owned) + Cardinality(Unowned)
  BY <1>6, <1>7, TwoParts
<1>10. Cardinality(Agent) = Cardinality(busy) + Cardinality(Idle)
  BY <1>5, <1>7, TwoParts
<1>11. /\ Cardinality(owned) \in Nat /\ Cardinality(busy) \in Nat /\ Cardinality(Idle) \in Nat
       /\ Cardinality(Unowned) \in Nat /\ NumTasksReveal \in Nat /\ NumAgents \in Nat
  BY <1>5, <1>6, FS_CardinalityType, NumTasksRevealAssumption, TeamAssumption
<1> QED
  BY <1>1, <1>5, <1>6, <1>8, <1>9, <1>10, <1>11

\* What the matching schedulers work with: the agents they give tasks are idle or have one of
\* the tasks they may give, and the tasks that nobody has are among these.
LEMMA Flexible ==
  ASSUME Inv
  PROVE  /\ Announced \subseteq FlexibleAgents /\ FlexibleAgents \subseteq Agent
         /\ FlexibleTasks \subseteq DOMAIN ongoing_tasks /\ Unowned \subseteq FlexibleTasks
         /\ \A t \in FlexibleTasks : ongoing_tasks[t].agent_assigned = None <=> t \in Unowned
         /\ \A a \in FlexibleAgents : a \notin Idle => current_assignment[a] \in FlexibleTasks \ Unowned
<1>1. FlexibleTasks \subseteq DOMAIN ongoing_tasks
  BY DEF FlexibleTasks, Unopened
<1>2. Unowned \subseteq FlexibleTasks
  BY Pool DEF Inv, FlexibleTasks, Unopened, Unowned
<1>3. Announced \subseteq Idle /\ Idle \subseteq Agent
  BY AnnouncedIdle DEF Idle
<1>4. ASSUME NEW a \in FlexibleAgents, a \notin Announced
      PROVE  a \in Agent /\ current_assignment[a] \in FlexibleTasks \ Unowned
  <2>1. PICK t \in FlexibleTasks : ongoing_tasks[t].agent_assigned = a /\ a # None
    BY <1>4 DEF FlexibleAgents
  <2>2. t \in DOMAIN ongoing_tasks /\ t \notin Unowned
    BY <1>1, <2>1 DEF Unowned
  <2> QED
    BY <2>1, <2>2, Books DEF Inv
<1>5. Announced \subseteq FlexibleAgents
  BY DEF FlexibleAgents
<1>6. \A t \in FlexibleTasks : ongoing_tasks[t].agent_assigned = None <=> t \in Unowned
  BY <1>1 DEF Unowned
<1> QED
  BY <1>1, <1>2, <1>3, <1>4, <1>5, <1>6

\* If every idle agent takes a task that nobody has, nobody need be left out.
LEMMA NobodyLeftOut ==
  ASSUME Inv, Idle \subseteq Announced,
         NEW first \in Injection(Idle, Unowned),
         NEW edges, \A a \in FlexibleAgents : With(first)[a] \in FlexibleTasks => With(first)[a] \in edges[a]
  PROVE  Flows(edges) # {}
<1> DEFINE all == [a \in FlexibleAgents |-> With(first)[a]]
<1>1. /\ Idle \subseteq FlexibleAgents /\ FlexibleAgents \subseteq Agent
      /\ Unowned \subseteq FlexibleTasks
      /\ \A a \in FlexibleAgents : a \notin Idle => current_assignment[a] \in FlexibleTasks \ Unowned
      /\ FlexibleTasks \subseteq DOMAIN ongoing_tasks
  BY Flexible
<1>2. DOMAIN first = Idle /\ (\A a \in Idle : first[a] \in Unowned)
        /\ \A a, b \in Idle : first[a] = first[b] => a = b
  BY DEF Injection, IsInjective
<1>3. \A a \in FlexibleAgents : all[a] = IF a \in Idle THEN first[a] ELSE current_assignment[a]
  BY <1>1, <1>2 DEF With
<1>4. \A a \in FlexibleAgents : all[a] \in FlexibleTasks /\ all[a] \in edges[a]
  BY <1>1, <1>2, <1>3
<1>5. ASSUME NEW a \in FlexibleAgents, NEW b \in FlexibleAgents, all[a] = all[b]
      PROVE  a = b
  <2>1. a \in Idle <=> b \in Idle
    BY <1>1, <1>2, <1>3, <1>5
  <2>2. CASE a \in Idle
    BY <1>2, <1>3, <1>5, <2>1, <2>2
  <2>3. CASE a \notin Idle
    <3>1. current_assignment[a] = current_assignment[b] /\ current_assignment[a] \in DOMAIN ongoing_tasks
      BY <1>1, <1>3, <1>5, <2>1, <2>3
    <3>2. current_assignment[a] # None
      BY <3>1, Books, SameNames DEF Inv
    <3> QED
      BY <1>1, <3>1, <3>2, Books DEF Inv
  <2> QED
    BY <2>2, <2>3
<1>6. all \in [FlexibleAgents -> FlexibleTasks] /\ DOMAIN all = FlexibleAgents
  BY <1>4
<1> HIDE DEF all
<1>7. all \in Injection(FlexibleAgents, FlexibleTasks)
  BY <1>5, <1>6 DEF Injection, IsInjective
<1> QED
  BY <1>4, <1>7 DEF Flows

\* The matching schedulers with traffic, over a pool as large as the team, give every agent
\* they hear of a task; so they hear of every agent that has none.
LEMMA MatchingServes ==
  ASSUME Inv, Idle \subseteq Announced, NumTasksReveal >= NumAgents, Matching,
         solver.name = "flow" \/ solver.use_traffic
  PROVE  \A a \in Agent : proposed_schedule'[a] # None
<1>1. PICK edges \in EdgeSets :
        IF Flows(edges) = {} THEN proposed_schedule' = current_assignment
        ELSE \E pairs \in Flows(edges) : proposed_schedule' = With(pairs)
  BY DEF Matching
<1>2. /\ IsFiniteSet(Idle) /\ IsFiniteSet(Unowned)
      /\ Cardinality(Idle) <= Cardinality(Unowned)
  BY TaskForEveryone DEF Inv
<1>3. /\ Idle \subseteq FlexibleAgents /\ FlexibleAgents \subseteq Agent
      /\ Unowned \subseteq FlexibleTasks /\ FlexibleTasks \subseteq DOMAIN ongoing_tasks
      /\ \A t \in FlexibleTasks : ongoing_tasks[t].agent_assigned = None <=> t \in Unowned
  BY Flexible
<1>4. Flows(edges) # {}
  <2>1. CASE solver.name = "flow"
    <3>1. edges = [a \in FlexibleAgents |-> FlexibleTasks]
      BY <1>1, <2>1 DEF EdgeSets
    <3>2. PICK first \in Injection(Idle, Unowned) : TRUE
      BY <1>2, RoomForAll
    <3>3. \A a \in FlexibleAgents : edges[a] = FlexibleTasks
      BY <3>1
    <3> QED
      BY <3>3, NobodyLeftOut
  <2>2. CASE solver.name # "flow"
    <3>1. PICK first \in FirstMet : \A a \in FlexibleAgents : EnoughMet(a, edges[a], first)
      BY <1>1, <2>2 DEF EdgeSets
    <3>2. \A a : Reachable(a) = FlexibleTasks
      BY <2>2 DEF Reachable
    <3> DEFINE free == {a \in FlexibleAgents : current_assignment[a] = None}
    <3>3. free = Idle
      BY <1>3 DEF Idle
    <3>4. PICK chosen \in SUBSET free : first \in Injection(chosen, FlexibleTasks)
      BY <3>1 DEF FirstMet
    <3>5. /\ \A a \in DOMAIN first : first[a] \in Unowned
          /\ \A a \in free \ DOMAIN first : Unowned \subseteq Range(first)
      <4>1. \A a \in DOMAIN first : first[a] \in FlexibleTasks /\ ongoing_tasks[first[a]].agent_assigned = None
        BY <3>1, <3>2 DEF FirstMet
      <4>2. \A a \in free \ DOMAIN first :
              {t \in FlexibleTasks : ongoing_tasks[t].agent_assigned = None} \subseteq Range(first)
        BY <3>1, <3>2 DEF FirstMet
      <4> QED
        BY <1>3, <4>1, <4>2
    <3> HIDE DEF free
    <3>6. DOMAIN first = chosen /\ first \in Injection(chosen, Unowned)
      BY <3>4, <3>5 DEF Injection
    <3>7. chosen = Idle
      <4> SUFFICES ASSUME chosen # Idle PROVE FALSE
        OBVIOUS
      <4>1. chosen \subseteq Idle /\ IsFiniteSet(chosen) /\ Cardinality(chosen) < Cardinality(Idle)
        <5>1. chosen \in SUBSET Idle
          BY <3>3
        <5>2. IsFiniteSet(chosen) /\ Cardinality(chosen) <= Cardinality(Idle)
                /\ (Cardinality(Idle) = Cardinality(chosen) => Idle = chosen)
          BY <1>2, <5>1, FS_Subset
        <5>3. Cardinality(chosen) \in Nat /\ Cardinality(Idle) \in Nat
          BY <1>2, <5>2, FS_CardinalityType
        <5> QED
          BY <5>1, <5>2, <5>3
      <4>2. Unowned \subseteq Range(first)
        BY <3>3, <3>5, <3>6, <4>1
      <4>3. first \in Surjection(chosen, Unowned)
        BY <3>6, <4>2 DEF Surjection, Injection, Range
      <4>4. Cardinality(Unowned) <= Cardinality(chosen)
        BY <4>1, <4>3, FS_Surjection
      <4> QED
        BY <1>2, <4>1, <4>4, FS_CardinalityType
    <3>8. \A a \in FlexibleAgents : With(first)[a] \in FlexibleTasks => With(first)[a] \in edges[a]
      BY <3>1, <3>2 DEF EnoughMet
    <3> QED
      BY <3>6, <3>7, <3>8, NobodyLeftOut
  <2> QED
    BY <2>1, <2>2
<1>5. PICK pairs \in Flows(edges) : proposed_schedule' = With(pairs)
  BY <1>1, <1>4
<1>6. DOMAIN pairs = FlexibleAgents /\ \A a \in FlexibleAgents : pairs[a] \in FlexibleTasks
  BY DEF Flows, Injection
<1>7. \A t \in DOMAIN ongoing_tasks : t # None
  BY Books, SameNames DEF Inv
<1>8. ASSUME NEW a \in Agent
      PROVE  proposed_schedule'[a] # None
  <2>1. proposed_schedule'[a] = IF a \in DOMAIN pairs THEN pairs[a] ELSE current_assignment[a]
    BY <1>5 DEF With
  <2>2. a \notin FlexibleAgents => current_assignment[a] # None
    BY <1>3 DEF Idle
  <2> QED
    BY <1>3, <1>6, <1>7, <2>1, <2>2
<1> QED
  BY <1>8

\* Pairings use up the agents or the tasks.
LEMMA PairingsComplete ==
  ASSUME NEW agents, NEW tasks, IsFiniteSet(agents), IsFiniteSet(tasks), NEW pairs \in Pairings(agents, tasks)
  PROVE  DOMAIN pairs = agents \/ Range(pairs) = tasks
<1> DEFINE few == Smaller(Cardinality(agents), Cardinality(tasks))
<1>1. PICK chosen \in SUBSET agents : Cardinality(chosen) = few /\ pairs \in Injection(chosen, tasks)
  BY DEF Pairings, kSubset
<1>2. few = Cardinality(agents) \/ few = Cardinality(tasks)
  BY DEF Smaller
<1> HIDE DEF few
<1>3. chosen = agents \/ \A t \in tasks : \E a \in chosen : pairs[a] = t
  BY <1>1, <1>2, UsedUp
<1> QED
  BY <1>1, <1>3 DEF Injection, Range

\* The greedy scheduler, when it knows all, leaves agents or tasks, not both.
LEMMA GreedyServes ==
  ASSUME Inv, solver.name = "greedy", Agents = Idle, Offer = Unowned, Greedy
  PROVE  \/ \A a \in Agent : proposed_schedule'[a] # None
         \/ DOMAIN ongoing_tasks \subseteq Range(proposed_schedule')
<1>1. PICK pairs \in Pairings(Idle, Unowned) :
        /\ free_agents' = Idle \ DOMAIN pairs
        /\ free_tasks' = Unowned \ Range(pairs)
  BY DEF Greedy, Pairs
<1>2. /\ free_agents' = {a \in Agent : proposed_schedule'[a] = None}
      /\ free_tasks' = {t \in DOMAIN ongoing_tasks : \A a \in Agent : proposed_schedule'[a] # t}
      /\ proposed_schedule' \in [Agent -> {None} \cup DOMAIN ongoing_tasks]
  BY GreedyFacts DEF Accepted
<1>3. IsFiniteSet(Idle) /\ IsFiniteSet(Unowned)
  <2>1. Idle \subseteq Agent /\ Unowned \subseteq DOMAIN ongoing_tasks
    BY DEF Idle, Unowned
  <2> QED
    BY <2>1, Pool, Team, FS_Subset DEF Inv
<1>4. DOMAIN pairs = Idle \/ Range(pairs) = Unowned
  BY <1>3, PairingsComplete
<1>5. CASE DOMAIN pairs = Idle
  BY <1>1, <1>2, <1>5
<1>6. CASE Range(pairs) = Unowned
  <2>1. \A t \in DOMAIN ongoing_tasks : \E a \in Agent : proposed_schedule'[a] = t
    BY <1>1, <1>2, <1>6
  <2> QED
    BY <1>2, <2>1 DEF Range
<1> QED
  BY <1>4, <1>5, <1>6

\* So does the capped one, with caps that let the whole team through.
LEMMA CappedServes ==
  ASSUME Inv, CappedHungarian, MaxAgents >= NumAgents, MaxTasks >= NumAgents
  PROVE  \/ proposed_schedule' = current_assignment
         \/ \A a \in Agent : proposed_schedule'[a] # None
         \/ DOMAIN ongoing_tasks \subseteq Range(proposed_schedule')
<1> SUFFICES ASSUME proposed_schedule' # current_assignment
             PROVE  \/ \A a \in Agent : proposed_schedule'[a] # None
                    \/ DOMAIN ongoing_tasks \subseteq Range(proposed_schedule')
  OBVIOUS
<1> DEFINE few == {a \in Idle : Cardinality({b \in Idle : b < a}) < MaxAgents}
           size == Smaller(Cardinality(NotAssigned), MaxTasks)
<1>1. PICK tasks \in SUBSET NotAssigned :
        Cardinality(tasks) = size /\ \E pairs \in Pairings(few, tasks) : proposed_schedule' = With(pairs)
  BY DEF CappedHungarian, kSubset
<1>2. PICK pairs \in Pairings(few, tasks) : proposed_schedule' = With(pairs)
  BY <1>1
<1>3. Idle \subseteq Agent /\ NotAssigned \subseteq DOMAIN ongoing_tasks
  BY DEF Idle, NotAssigned
<1>4. /\ IsFiniteSet(Idle) /\ Cardinality(Idle) \in Nat /\ Cardinality(Idle) <= NumAgents
      /\ IsFiniteSet(NotAssigned) /\ IsFiniteSet(tasks)
  BY <1>1, <1>3, Pool, Team, FS_Subset DEF Inv
<1>5. few = Idle
  <2> SUFFICES ASSUME NEW a \in Idle PROVE Cardinality({b \in Idle : b < a}) < MaxAgents
    OBVIOUS
  <2> DEFINE before == {b \in Idle : b < a}
  <2>1. before \in SUBSET Idle /\ a \notin before
    BY <1>3, SameNames
  <2> HIDE DEF before
  <2>2. /\ IsFiniteSet(before) /\ Cardinality(before) <= Cardinality(Idle)
        /\ Cardinality(Idle) = Cardinality(before) => Idle = before
    BY <1>4, <2>1, FS_Subset
  <2>3. Cardinality(before) \in Nat
    BY <2>2, FS_CardinalityType
  <2>4. Cardinality(before) < MaxAgents
    BY <1>4, <2>1, <2>2, <2>3, CapsAssumption, TeamAssumption
  <2> QED
    BY <2>4 DEF before
<1>6. DOMAIN pairs = Idle \/ Range(pairs) = tasks
  BY <1>2, <1>4, <1>5, PairingsComplete
<1>7. /\ DOMAIN pairs \subseteq Idle /\ IsInjective(pairs)
      /\ \A a \in DOMAIN pairs : pairs[a] \in tasks
  BY <1>2, <1>5, PairingsFacts
<1>8. \A a \in Agent :
        proposed_schedule'[a] = IF a \in DOMAIN pairs THEN pairs[a] ELSE current_assignment[a]
  BY <1>2 DEF With
<1>9. CASE DOMAIN pairs = Idle
  <2>1. \A t \in DOMAIN ongoing_tasks : t # None
    BY Books, SameNames DEF Inv
  <2>2. \A a \in Agent : a \notin Idle => current_assignment[a] # None
    BY DEF Idle
  <2> QED
    BY <1>1, <1>3, <1>7, <1>8, <1>9, <2>1, <2>2
<1>10. CASE DOMAIN pairs # Idle
  <2>1. Range(pairs) = tasks
    BY <1>6, <1>10
  <2>2. tasks = NotAssigned
    <3>1. pairs \in Surjection(DOMAIN pairs, tasks) /\ pairs \in Injection(DOMAIN pairs, tasks)
      <4>1. pairs \in [DOMAIN pairs -> tasks]
        BY <1>2, <1>7 DEF Pairings, Injection
      <4> QED
        BY <1>7, <2>1, <4>1 DEF Surjection, Injection, Range
    <3>2. IsFiniteSet(DOMAIN pairs) /\ Cardinality(tasks) = Cardinality(DOMAIN pairs)
      BY <1>4, <3>1, FS_Injection
    <3>3. Cardinality(DOMAIN pairs) < Cardinality(Idle)
      <4>1. Cardinality(DOMAIN pairs) \in Nat
        BY <3>2, FS_CardinalityType
      <4> QED
        BY <1>4, <1>7, <1>10, <4>1, FS_Subset
    <3>4. size = Cardinality(NotAssigned)
      BY <1>1, <1>4, <3>2, <3>3, CapsAssumption, TeamAssumption, FS_CardinalityType DEF Smaller
    <3> HIDE DEF size
    <3> QED
      BY <1>1, <1>4, <3>4, FS_Subset
  <2>3. ASSUME NEW t \in DOMAIN ongoing_tasks
        PROVE  \E a \in Agent : proposed_schedule'[a] = t
    <3>1. CASE t \in NotAssigned
      BY <1>3, <1>7, <1>8, <2>1, <2>2, <3>1 DEF Range
    <3>2. CASE t \notin NotAssigned
      <4>1. PICK a \in Agent : current_assignment[a] = t
        BY <3>2, Books DEF NotAssigned, Range, Inv
      <4>2. a \notin Idle
        BY <4>1, Books, SameNames DEF Idle, Inv
      <4> QED
        BY <1>7, <1>8, <4>1, <4>2
    <3> QED
      BY <3>1, <3>2
  <2>4. DOMAIN proposed_schedule' = Agent
    BY <1>2 DEF With
  <2> QED
    BY <2>3, <2>4 DEF Range
<1> QED
  BY <1>9, <1>10

-----------------------------------------------------------------------------
(* Rounds.                                                                 *)

LEMMA InitInv == Init => Inv
<1> SUFFICES ASSUME Init PROVE Inv
  OBVIOUS
<1>1. /\ TM!Init /\ solver \in Solvers /\ time_in_commit_window = 0
      /\ free_agents = {} /\ free_tasks = {}
  BY DEF Init
<1>2. TMP!IInv
  BY <1>1, SameInit, TMP!InitIInv, TeamAssumption, TasksAssumption, NumTasksRevealAssumption,
     SimulationTimeAssumption
<1>3. /\ schedule_errors = 0 /\ curr_timestep = 0
      /\ current_assignment = [a \in Agent |-> None]
      /\ new_tasks = DOMAIN ongoing_tasks
      /\ \A t \in DOMAIN ongoing_tasks : ongoing_tasks[t].agent_assigned = None
  BY <1>1 DEF TM!Init, TM!NewTask, Agent, None
<1>4. Idle = Agent /\ Unowned = new_tasks
  BY <1>3 DEF Idle, Unowned
<1>5. Agents = Agent /\ Offer = new_tasks
  BY <1>1, <1>3 DEF Agents, Announced, Offer
<1> QED
  BY <1>1, <1>2, <1>3, <1>4, <1>5 DEF Inv

LEMMA NextInv ==
  ASSUME Inv, [Next]_vars
  PROVE  Inv'
<1>1. CASE Round
  <2>1. PICK time \in curr_timestep + 1 .. SimulationTime :
          curr_states' \in TM!States /\ TM!update_tasks(curr_states', proposed_schedule', time)
    BY <1>1 DEF Round
  <2>2. Plan /\ UNCHANGED solver
          /\ time_in_commit_window' = (time_in_commit_window + 1) % WindowLength
    BY <1>1 DEF Round
  <2>3. Accepted(proposed_schedule')
    BY <2>2, GreedyFacts, KeepFacts, CappedAccepted, MatchingAccepted DEF Plan
  <2>4. /\ TMP!IInv'
        /\ schedule_errors' = schedule_errors /\ curr_timestep' # 0
        /\ Idle' = {a \in Agent : proposed_schedule'[a] = None} \cup new_freeagents'
        /\ Unowned' = {t \in DOMAIN ongoing_tasks : \A a \in Agent : proposed_schedule'[a] # t}
                        \cup new_tasks'
    BY <2>1, <2>3, AfterRound DEF Inv
  <2>5. Agents' = free_agents' \cup new_freeagents' /\ Offer' = free_tasks' \cup new_tasks'
    BY <2>4 DEF Agents, Announced, Offer
  <2>6. CASE solver.name = "greedy"
    <3>1. CASE time_in_commit_window > 0
      <4>1. proposed_schedule' = current_assignment /\ UNCHANGED << free_agents, free_tasks >>
        BY <2>2, <3>1, KeepFacts DEF Plan
      <4>2. free_agents \subseteq Idle /\ free_tasks \subseteq Unowned
        BY <2>6 DEF Inv
      <4>3. free_agents' \subseteq Idle' /\ free_tasks' \subseteq Unowned'
        <5>1. \A t \in Unowned : t \in DOMAIN ongoing_tasks /\ \A a \in Agent : current_assignment[a] # t
          BY Books DEF Inv, Unowned
        <5>2. \A a \in Idle : a \in Agent /\ current_assignment[a] = None
          BY DEF Idle
        <5> QED
          BY <2>4, <4>1, <4>2, <5>1, <5>2
      <4>4. ~ (CommitWindow <= 1)
        BY <3>1 DEF Inv
      <4> QED
        BY <2>2, <2>4, <4>3, <4>4 DEF Inv
    <3>2. CASE ~ (time_in_commit_window > 0)
      <4>1. Greedy
        BY <2>2, <2>6, <3>2 DEF Plan
      <4>2. free_agents' \subseteq Idle' /\ free_tasks' \subseteq Unowned'
        BY <2>4, <2>6, <4>1, GreedyFacts
      <4>3. ASSUME CommitWindow <= 1
            PROVE  time_in_commit_window' = 0 /\ Agents' = Idle' /\ Offer' = Unowned'
        <5>1. time_in_commit_window = 0 /\ Agents = Idle /\ Offer = Unowned
          BY <2>6, <4>3 DEF Inv
        <5>2. time_in_commit_window' = 0
          BY <2>2, <4>3, <5>1, CommitWindowAssumption DEF WindowLength
        <5> QED
          BY <2>4, <2>5, <2>6, <4>1, <5>1, <5>2, GreedyFacts
      <4> QED
        BY <2>2, <2>4, <4>2, <4>3 DEF Inv
    <3> QED
      BY <3>1, <3>2
  <2>7. CASE solver.name # "greedy"
    <3>1. ASSUME CommitWindow <= 1
          PROVE  time_in_commit_window' = 0
      BY <2>2, <3>1, CommitWindowAssumption DEF WindowLength, Inv
    <3> QED
      BY <2>2, <2>4, <2>7, <3>1 DEF Inv
  <2> QED
    BY <2>6, <2>7
<1>2. CASE UNCHANGED vars
  <2>1. /\ UNCHANGED << schedule_errors, curr_timestep, solver, free_agents, free_tasks,
                       time_in_commit_window, current_assignment, ongoing_tasks, new_freeagents,
                       new_tasks >>
        /\ UNCHANGED TMP!vars
    BY <1>2 DEF vars, manager, TMP!vars
  <2>2. TMP!IInv'
    BY <2>1, TMP!StepIInv, TeamAssumption, TasksAssumption, NumTasksRevealAssumption,
       SimulationTimeAssumption DEF Inv
  <2> QED
    BY <2>1, <2>2 DEF Inv, Idle, Unowned, Agents, Announced, Offer
<1> QED
  BY <1>1, <1>2 DEF Next

THEOREM Invariance == Spec => []Inv
  BY InitInv, NextInv, PTL DEF Spec

\* The task manager never refuses a schedule, whichever scheduler proposes it, with or without
\* a commit window: what the schedulers take to be free is free.
THEOREM NeverRefused == Spec => [](schedule_errors = 0)
<1>1. Inv => schedule_errors = 0
  BY DEF Inv
<1> QED
  BY <1>1, Invariance, PTL

\* When every timestep has its round, the sets of the greedy scheduler hold all agents without
\* a task and all tasks without an agent.
THEOREM FreeKept == CommitWindow <= 1 => (Spec => []FreeTracked)
<1> SUFFICES ASSUME CommitWindow <= 1
             PROVE  Spec => []FreeTracked
  OBVIOUS
<1>1. Inv => FreeTracked
  BY DEF Inv, FreeTracked, Unowned
<1> QED
  BY <1>1, Invariance, PTL

\* The agents without a task are announced, round after round: whoever was announced has got
\* one, and the others have just finished theirs.
LEMMA RoundServes ==
  ASSUME Inv, NobodyForgotten, CommitWindow <= 1, Round
  PROVE  NobodyForgotten' /\ CompleteRound
<1>1. PICK time \in curr_timestep + 1 .. SimulationTime :
        curr_states' \in TM!States /\ TM!update_tasks(curr_states', proposed_schedule', time)
  BY DEF Round
<1>2. Plan /\ UNCHANGED solver /\ time_in_commit_window = 0 /\ solver' = solver
  BY DEF Round, Inv
<1>3. Accepted(proposed_schedule')
  BY <1>2, GreedyFacts, KeepFacts, CappedAccepted, MatchingAccepted DEF Plan
<1>4. /\ schedule_errors' = schedule_errors /\ curr_timestep' # 0
      /\ Idle' = {a \in Agent : proposed_schedule'[a] = None} \cup new_freeagents'
  BY <1>1, <1>3, AfterRound DEF Inv
<1>5. CASE /\ solver.name = "flow" \/ (solver.name = "matching" /\ solver.use_traffic)
           /\ NumTasksReveal >= NumAgents
  <2>1. Matching /\ Idle \subseteq Announced
    BY <1>2, <1>5 DEF Plan, NobodyForgotten
  <2>2. \A a \in Agent : proposed_schedule'[a] # None
    BY <1>5, <2>1, MatchingServes
  <2>3. Idle' \subseteq Announced'
    BY <1>4, <2>2 DEF Announced
  <2> QED
    BY <1>4, <2>2, <2>3 DEF NobodyForgotten, CompleteRound
<1>6. CASE ~ (/\ solver.name = "flow" \/ (solver.name = "matching" /\ solver.use_traffic)
              /\ NumTasksReveal >= NumAgents)
  <2>1. NobodyForgotten'
    BY <1>2, <1>6 DEF NobodyForgotten
  <2>2. CompleteRound
    <3>1. CASE solver.name = "greedy"
      <4>1. Greedy /\ Agents = Idle /\ Offer = Unowned
        BY <1>2, <3>1 DEF Plan, Inv
      <4> QED
        BY <1>4, <3>1, <4>1, GreedyServes DEF CompleteRound
    <3>2. CASE solver.name = "hungarian"
      <4>1. CappedHungarian
        BY <1>2, <3>2 DEF Plan
      <4>2. (MaxAgents >= NumAgents /\ MaxTasks >= NumAgents) \/ MaxAgents < NumAgents \/ MaxTasks < NumAgents
        BY CapsAssumption, TeamAssumption
      <4> QED
        BY <1>4, <3>2, <4>1, <4>2, CappedServes DEF CompleteRound
    <3>3. CASE solver.name \notin {"greedy", "hungarian"}
      <4>1. solver.name \in {"flow", "matching"} /\ solver.use_traffic \in BOOLEAN
        BY <3>3, SolversAssumption DEF Inv
      <4> QED
        BY <1>4, <1>6, <4>1, NumTasksRevealAssumption, TeamAssumption DEF CompleteRound
    <3> QED
      BY <3>1, <3>2, <3>3
  <2> QED
    BY <2>1, <2>2
<1> QED
  BY <1>5, <1>6

LEMMA StepServes ==
  ASSUME Inv, NobodyForgotten, CommitWindow <= 1, [Next]_vars
  PROVE  NobodyForgotten' /\ [CompleteRound]_vars
<1>1. CASE Round
  BY <1>1, RoundServes
<1>2. CASE UNCHANGED vars
  <2>1. UNCHANGED << current_assignment, new_freeagents, curr_timestep, solver, time_in_commit_window >>
    BY <1>2 DEF vars, manager
  <2> QED
    BY <1>2, <2>1 DEF NobodyForgotten, Idle, Announced
<1> QED
  BY <1>1, <1>2 DEF Next

LEMMA InitServes == Init => NobodyForgotten
<1> SUFFICES ASSUME Init PROVE NobodyForgotten
  OBVIOUS
<1>1. curr_timestep = 0
  BY DEF Init, TM!Init
<1> QED
  BY <1>1 DEF NobodyForgotten, Announced, Idle

\* When every timestep has its round and the pool is as large as the team, the schedulers that
\* match the announced agents with traffic leave none behind: in every state, whoever has no
\* task is announced.
THEOREM NobodyLeftBehind == CommitWindow <= 1 => (Spec => []NobodyForgotten)
<1> SUFFICES ASSUME CommitWindow <= 1
             PROVE  Spec => []NobodyForgotten
  OBVIOUS
<1>1. Inv /\ NobodyForgotten /\ [Next]_vars => NobodyForgotten'
  BY StepServes
<1> QED
  BY <1>1, InitServes, Invariance, PTL DEF Spec

\* When every timestep has its round, a round leaves agents without a task or tasks without an
\* agent, not both (but for the exceptions that CompleteRound names).
THEOREM RoundsServe == CommitWindow <= 1 => (Spec => RoundsComplete)
<1> SUFFICES ASSUME CommitWindow <= 1
             PROVE  Spec => RoundsComplete
  OBVIOUS
<1>1. Inv /\ NobodyForgotten /\ [Next]_vars => [CompleteRound]_vars
  BY StepServes
<1>2. Spec => []NobodyForgotten
  BY NobodyLeftBehind
<1> QED
  BY <1>1, <1>2, Invariance, PTL DEF Spec, RoundsComplete

-----------------------------------------------------------------------------
(* The greedy heap: who may be given what.                                 *)

LEMMA HeapFacts ==
  ASSUME TMP!IInv, config \in Configs
  PROVE  /\ NoTask = Idle /\ FreeTasks = Unowned
         /\ FreeAgents \subseteq Idle /\ ReassignAgents \subseteq Agent \ Idle
         /\ \A a \in ReassignAgents :
              /\ current_assignment[a] \in DOMAIN ongoing_tasks
              /\ ~ TM!Opened(ongoing_tasks[current_assignment[a]])
              /\ ongoing_tasks[current_assignment[a]].agent_assigned = a
<1>1. /\ current_assignment \in [Agent -> {None} \cup DOMAIN ongoing_tasks]
      /\ \A t \in DOMAIN ongoing_tasks : t # None
      /\ \A t \in DOMAIN ongoing_tasks : t \in Unowned <=> \A a \in Agent : current_assignment[a] # t
      /\ \A t \in DOMAIN ongoing_tasks :
           \A a \in Agent : current_assignment[a] = t => ongoing_tasks[t].agent_assigned = a
  BY Books, SameNames
<1>2. NoTask = Idle
  BY <1>1 DEF NoTask, Idle
<1>3. FreeTasks = Unowned
  BY <1>1 DEF FreeTasks, Range, Unowned
<1>4. FreeAgents \subseteq Idle
  BY <1>2 DEF FreeAgents
<1>5. \A a \in ReassignAgents :
        /\ a \in Agent \ Idle /\ ~ TM!Opened(ongoing_tasks[current_assignment[a]])
  BY <1>2 DEF ReassignAgents
<1> QED
  BY <1>1, <1>2, <1>3, <1>4, <1>5 DEF Idle

\* The cap counts, and the rows are the free agents in their order.
LEMMA RowsFacts ==
  ASSUME TMP!IInv, config \in Configs
  PROVE  /\ IsFiniteSet(FreeAgents) /\ Cardinality(FreeAgents) \in Nat
         /\ Cardinality(FreeAgents) <= MaxNew /\ MaxTotal \in Nat
         /\ \A row \in Rows : AgentOf(row) \in FreeAgents
         /\ \A row, other \in Rows : AgentOf(row) = AgentOf(other) => row = other
<1>1. NoTask = Idle /\ Idle \subseteq Agent /\ NumAgents \in Nat /\ Agent \subseteq 0 .. NumAgents
  BY HeapFacts, SameNames, TeamAssumption DEF Idle
<1>2. MaxTotal \in Nat
  BY <1>1, ConfigsAssumption DEF MaxTotal
<1>3. Cardinality(Agent \ NoTask) \in Nat
  BY <1>1, Team
<1>4. MaxNew \in Nat
  BY <1>2, <1>3 DEF MaxNew
<1>5. /\ IsFiniteSet(FreeAgents) /\ Cardinality(FreeAgents) \in Nat
      /\ Cardinality(FreeAgents) <= MaxNew
  <2>1. NoTask \in SUBSET (0 .. NumAgents)
    BY <1>1
  <2> QED
    BY <1>1, <1>4, <2>1, FirstFew DEF FreeAgents
<1>6. FreeAgents \in SUBSET (0 .. NumAgents)
  BY <1>1 DEF FreeAgents
<1>7. ASSUME NEW row \in Rows
      PROVE  /\ AgentOf(row) \in FreeAgents
             /\ Cardinality({b \in FreeAgents : b < AgentOf(row)}) = row - 1
  <2>1. row \in Nat /\ row - 1 \in 0 .. Cardinality(FreeAgents) - 1
    BY <1>5 DEF Rows
  <2>2. \E a \in FreeAgents : Cardinality({b \in FreeAgents : b < a}) = row - 1
    BY <1>1, <1>6, <2>1, NthMember
  <2> QED
    BY <2>2 DEF AgentOf
<1>8. \A row, other \in Rows : AgentOf(row) = AgentOf(other) => row = other
  <2>1. \A row \in Rows : row \in Nat
    BY DEF Rows
  <2> SUFFICES ASSUME NEW row \in Rows, NEW other \in Rows, AgentOf(row) = AgentOf(other)
               PROVE  row = other
    OBVIOUS
  <2>2. row - 1 = other - 1
    BY <1>7
  <2> QED
    BY <2>1, <2>2
<1> QED
  BY <1>2, <1>5, <1>7, <1>8

\* The pairs of the heap.
LEMMA MatchesFacts ==
  ASSUME TMP!IInv, config \in Configs, NEW rows, DOMAIN rows = Rows, NEW matches \in Matches(rows)
  PROVE  /\ DOMAIN matches \subseteq FreeAgents /\ IsInjective(matches)
         /\ \A a \in DOMAIN matches : matches[a] \in Unowned
<1>1. PICK pairs \in AllPairs(rows) :
        \E matched \in SUBSET DOMAIN pairs :
          matches = [a \in {AgentOf(row) : row \in matched} |->
                       pairs[CHOOSE row \in matched : AgentOf(row) = a]]
  BY DEF Matches
<1>2. PICK matched \in SUBSET DOMAIN pairs :
        matches = [a \in {AgentOf(row) : row \in matched} |->
                     pairs[CHOOSE row \in matched : AgentOf(row) = a]]
  BY <1>1
<1>3. PICK given \in SUBSET Rows : pairs \in Injection(given, FreeTasks)
  BY DEF AllPairs
<1>4. /\ matched \subseteq Rows /\ \A row \in matched : pairs[row] \in FreeTasks
      /\ \A row, other \in matched : pairs[row] = pairs[other] => row = other
  BY <1>2, <1>3 DEF Injection, IsInjective
<1> DEFINE RowOf(a) == CHOOSE row \in matched : AgentOf(row) = a
<1>5. /\ DOMAIN matches = {AgentOf(row) : row \in matched}
      /\ \A a \in DOMAIN matches : matches[a] = pairs[RowOf(a)]
  BY <1>2
<1>6. \A a \in DOMAIN matches : RowOf(a) \in matched /\ AgentOf(RowOf(a)) = a
  <2> SUFFICES ASSUME NEW a \in DOMAIN matches PROVE RowOf(a) \in matched /\ AgentOf(RowOf(a)) = a
    OBVIOUS
  <2>1. \E row \in matched : AgentOf(row) = a
    BY <1>5
  <2> QED
    BY <2>1
<1> HIDE DEF RowOf
<1>7. DOMAIN matches \subseteq FreeAgents
  BY <1>4, <1>5, RowsFacts
<1>8. \A a \in DOMAIN matches : matches[a] \in Unowned
  BY <1>4, <1>5, <1>6, HeapFacts
<1>9. \A a, b \in DOMAIN matches : matches[a] = matches[b] => a = b
  BY <1>4, <1>5, <1>6
<1> QED
  BY <1>7, <1>8, <1>9 DEF IsInjective

\* The exchanges stay among the agents and the tasks that are paired or may be reassigned.
LEMMA RefinedFacts ==
  ASSUME TMP!IInv, config \in Configs, NEW matches,
         DOMAIN matches \subseteq FreeAgents, IsInjective(matches),
         \A a \in DOMAIN matches : matches[a] \in Unowned,
         NEW refined \in Refined(matches)
  PROVE  /\ DOMAIN refined = DOMAIN matches \cup ReassignAgents
         /\ \A a \in DOMAIN refined : refined[a] \in DOMAIN ongoing_tasks
         /\ Accepted(With(refined))
<1> DEFINE all == [a \in DOMAIN matches \cup ReassignAgents |->
                     IF a \in DOMAIN matches THEN matches[a] ELSE current_assignment[a]]
<1>1. /\ DOMAIN matches \subseteq Idle /\ ReassignAgents \subseteq Agent \ Idle
      /\ \A a \in ReassignAgents :
           /\ current_assignment[a] \in DOMAIN ongoing_tasks
           /\ ~ TM!Opened(ongoing_tasks[current_assignment[a]])
           /\ ongoing_tasks[current_assignment[a]].agent_assigned = a
      /\ Idle \subseteq Agent /\ Unowned \subseteq DOMAIN ongoing_tasks
      /\ \A a \in Idle : current_assignment[a] = None
  BY HeapFacts DEF Idle, Unowned
<1>2. /\ DOMAIN all = DOMAIN matches \cup ReassignAgents
      /\ \A a \in DOMAIN matches : all[a] = matches[a]
      /\ \A a \in ReassignAgents : all[a] = current_assignment[a]
  BY <1>1
<1>3. \A a \in DOMAIN all :
        /\ all[a] \in DOMAIN ongoing_tasks
        /\ all[a] \in Unowned \/ ongoing_tasks[all[a]].agent_assigned \in DOMAIN all
  BY <1>1, <1>2
<1>4. IsInjective(all)
  <2> SUFFICES ASSUME NEW a \in DOMAIN all, NEW b \in DOMAIN all, all[a] = all[b] PROVE a = b
    BY DEF IsInjective
  <2>1. CASE a \in DOMAIN matches /\ b \in DOMAIN matches
    BY <1>2, <2>1 DEF IsInjective
  <2>2. CASE a \in ReassignAgents /\ b \in ReassignAgents
    BY <1>1, <1>2, <2>2
  <2>3. \A x \in DOMAIN matches, y \in ReassignAgents : all[x] # all[y]
    <3> SUFFICES ASSUME NEW x \in DOMAIN matches, NEW y \in ReassignAgents
                 PROVE  matches[x] # current_assignment[y]
      BY <1>2
    <3>1. current_assignment[y] \notin Unowned
      BY <1>1, SameNames DEF Unowned
    <3> QED
      BY <3>1
  <2> QED
    BY <1>2, <2>1, <2>2, <2>3
<1>5. refined = all \/ refined \in Injection(DOMAIN all, Range(all))
  BY DEF Refined
<1>6. /\ DOMAIN refined = DOMAIN all /\ IsInjective(refined)
      /\ \A a \in DOMAIN refined : \E b \in DOMAIN all : refined[a] = all[b]
  <2> HIDE DEF all
  <2>1. CASE refined = all
    BY <1>4, <2>1
  <2>2. CASE refined \in Injection(DOMAIN all, Range(all))
    BY <2>2 DEF Injection, Range
  <2> QED
    BY <1>5, <2>1, <2>2
<1> HIDE DEF all
<1>7. \A a \in DOMAIN refined :
        /\ refined[a] \in DOMAIN ongoing_tasks
        /\ refined[a] \in Unowned \/ ongoing_tasks[refined[a]].agent_assigned \in DOMAIN refined
  BY <1>3, <1>6
<1>8. \A a \in DOMAIN refined :
        /\ a \in Agent
        /\ current_assignment[a] = None \/ ~ TM!Opened(ongoing_tasks[current_assignment[a]])
  BY <1>1, <1>2, <1>6
<1>9. DOMAIN refined \subseteq Agent
  BY <1>8
<1>10. Accepted(With(refined))
  BY <1>6, <1>7, <1>8, <1>9, PairsAccepted
<1> QED
  BY <1>2, <1>6, <1>7, <1>10

-----------------------------------------------------------------------------
(* The greedy heap: whose scores the lists hold.                           *)

\* A row, and what is true of one that a later call may use again: where there is no traffic,
\* a row with a name has the scores from the cell it was listed at.
RowTrue(row) ==
  /\ DOMAIN row = {"list", "agent", "location"} /\ DOMAIN row.list \subseteq Nat
  /\ ~ config.traffic_rerank /\ row.agent # None =>
       \A t \in DOMAIN row.list : row.list[t] = Score(row.location, t)

HeapInv ==
  /\ TMP!IInv
  /\ config \in Configs
  /\ curr_states \in TM!States
  /\ \A row \in DOMAIN candidates : RowTrue(candidates[row])
  /\ pc = "update" => Accepted(proposed_schedule)
  /\ LoadCapped
  /\ ScoresCurrent

\* The scores are numbers.
LEMMA ScoreType ==
  ASSUME NEW loc \in Location, NEW t \in Nat
  PROVE  Score(loc, t) \in Int
<1> DEFINE errands == TM!Errands(t)
           S == 2 .. Len(errands)
           onward == [i \in S |-> Distance[errands[i - 1]][errands[i]]]
<1>1. errands \in Seq(Location) /\ Len(errands) \in Nat \ {0}
  <2>1. TM!Errands(t) = TMP!Errands(t)
    BY Zenon DEF TM!Errands, TMP!Errands
  <2> QED
    BY <2>1, TMP!ErrandsType, TeamAssumption, TasksAssumption, NumTasksRevealAssumption,
       SimulationTimeAssumption
<1> HIDE DEF errands
<1>2. \A i \in S : errands[i - 1] \in Location /\ errands[i] \in Location
  BY <1>1
<1>3. \A i \in S : onward[i] \in Int
  BY <1>2, DistanceAssumption
<1>4. IsFiniteSet(S)
  <2>1. 2 \in Int /\ Len(errands) \in Int
    BY <1>1
  <2> QED
    BY <2>1, FS_Interval
<1>5. SumOn(onward, S) \in Int
  <2> HIDE DEF S, onward
  <2> QED
    BY <1>3, <1>4, SumType
<1>6. DistWeight * Distance[loc][errands[1]] \in Int
  <2>1. errands[1] \in Location
    BY <1>1
  <2>2. Distance[loc][errands[1]] \in Nat /\ DistWeight \in Nat
    BY <2>1, DistanceAssumption, WeightsAssumption
  <2> QED
    BY <2>2
<1>7. Score(loc, t) = DistWeight * Distance[loc][errands[1]] + SumOn(onward, S)
  BY DEF Score, Way, SumOn, errands
<1> QED
  BY <1>5, <1>6, <1>7

\* A row that has been listed, or kept.
LEMMA ListedFacts ==
  ASSUME TMP!IInv, config \in Configs, NEW row \in Rows, NEW held, RowTrue(held[row]),
         NEW tasks \in SUBSET FreeTasks, NEW new \in Listed(row, held, tasks)
  PROVE  /\ RowTrue(new)
         /\ \A t \in DOMAIN new.list :
              t \in FreeTasks /\ new.list[t] = Score(curr_states[AgentOf(row)], t)
<1>1. CASE tasks = {}
  <2>1. new = [held[row] EXCEPT !.list = NoList]
    BY <1>1 DEF Listed
  <2>2. DOMAIN new = {"list", "agent", "location"} /\ new.list = NoList
    BY <2>1 DEF RowTrue
  <2>3. DOMAIN new.list = {}
    BY <2>2 DEF NoList
  <2> QED
    BY <2>2, <2>3 DEF RowTrue
<1>2. CASE tasks # {}
  <2>0. FreeTasks \subseteq Nat
    BY HeapFacts, Books DEF Unowned
  <2> DEFINE loc == curr_states[AgentOf(row)]
  <2>1. PICK list \in Shortened(loc, tasks) :
          new = [list |-> list, agent |-> AgentOf(row), location |-> loc]
    BY <1>2 DEF Listed
  <2>2. PICK best \in SUBSET tasks : list = [t \in best |-> Score(loc, t)]
    BY DEF Shortened, kSubset
  <2>3. /\ DOMAIN new = {"list", "agent", "location"} /\ new.location = loc
        /\ \A t \in DOMAIN new.list : t \in FreeTasks /\ new.list[t] = Score(loc, t)
    BY <2>1, <2>2
  <2> QED
    BY <2>0, <2>3 DEF RowTrue
<1> QED
  BY <1>1, <1>2

LEMMA HeldFacts ==
  ASSUME \A row \in DOMAIN candidates : RowTrue(candidates[row]), NEW held \in Held,
         NEW row \in Rows
  PROVE  RowTrue(held[row])
<1>1. CASE held = candidates /\ Same
  BY <1>1 DEF Same
<1>2. CASE held = [r \in Rows |-> NoRow]
  <2>1. held[row] = [list |-> NoList, agent |-> None, location |-> None]
    BY <1>2 DEF NoRow
  <2> QED
    BY <2>1 DEF RowTrue, NoList
<1> QED
  BY <1>1, <1>2 DEF Held

LEMMA KeptFacts ==
  ASSUME TMP!IInv, config \in Configs, \A row \in DOMAIN candidates : RowTrue(candidates[row]),
         NEW held \in Held, NEW row \in Rows, Kept(row, held)
  PROVE  /\ ~ config.traffic_rerank /\ RowTrue(held[row])
         /\ \A t \in DOMAIN held[row].list : held[row].list[t] = Score(curr_states[AgentOf(row)], t)
<1>1. held # [r \in Rows |-> NoRow]
  BY DEF Kept, NoRow
<1>2. /\ Same /\ held = candidates /\ row \in DOMAIN candidates /\ ~ config.traffic_rerank
      /\ candidates[row].agent = AgentOf(row)
      /\ candidates[row].location = curr_states[AgentOf(row)]
  BY <1>1 DEF Kept, Held, Same
<1>3. AgentOf(row) # None
  BY RowsFacts, HeapFacts, SameNames DEF Idle
<1> QED
  BY <1>2, <1>3 DEF RowTrue

\* The rows of a listing may be used again, and those of a complete one have the scores of
\* the present.
ListingTrue(rows, complete) ==
  /\ DOMAIN rows = Rows
  /\ \A row \in Rows : RowTrue(rows[row])
  /\ complete =>
       \A row \in Rows : \A t \in DOMAIN rows[row].list :
         /\ config.traffic_rerank => t \in FreeTasks
         /\ rows[row].list[t] = Score(curr_states[AgentOf(row)], t)

LEMMA ExactListing ==
  ASSUME TMP!IInv, config \in Configs, \A row \in DOMAIN candidates : RowTrue(candidates[row]),
         NEW listing \in rebuild_candidates
  PROVE  ListingTrue(listing.candidates, listing.listed)
<1>0. PICK last \in 1 .. Cardinality(FreeAgents) + 1, held \in Held :
        \E rows \in ListedUpTo(last, held) :
          listing = Listing(rows, FreeTasks, last > Cardinality(FreeAgents))
  BY DEF rebuild_candidates
<1>1. PICK rows \in ListedUpTo(last, held) :
        listing = Listing(rows, FreeTasks, last > Cardinality(FreeAgents))
  BY <1>0
<1>2. /\ rows \in [Rows -> UNION {Rebuilt(row, held) \cup CutShort(row, held) : row \in Rows}]
      /\ \A row \in Rows : /\ row < last => rows[row] \in Rebuilt(row, held)
                           /\ row = last => rows[row] \in CutShort(row, held)
                           /\ row > last => rows[row] = held[row]
  BY DEF ListedUpTo
<1>3. /\ listing.candidates = rows /\ DOMAIN rows = Rows
      /\ listing.listed <=> last > Cardinality(FreeAgents)
  BY <1>1, <1>2 DEF Listing
<1>4. Cardinality(FreeAgents) \in Nat /\ last \in Int /\ \A row \in Rows : row \in Int
  BY RowsFacts DEF Rows
<1>5. ASSUME NEW row \in Rows, rows[row] \in Rebuilt(row, held)
      PROVE  /\ RowTrue(rows[row])
             /\ \A t \in DOMAIN rows[row].list :
                  /\ config.traffic_rerank => t \in FreeTasks
                  /\ rows[row].list[t] = Score(curr_states[AgentOf(row)], t)
  <2>1. CASE Kept(row, held)
    <3>1. rows[row] = held[row]
      BY <1>5, <2>1 DEF Rebuilt
    <3> QED
      BY <2>1, <3>1, KeptFacts
  <2>2. CASE ~ Kept(row, held)
    <3>1. rows[row] \in Listed(row, held, FreeTasks) /\ RowTrue(held[row])
      BY <1>5, <2>2, HeldFacts DEF Rebuilt
    <3> QED
      BY <3>1, ListedFacts
  <2> QED
    BY <2>1, <2>2
<1>6. ASSUME NEW row \in Rows, rows[row] \in CutShort(row, held)
      PROVE  RowTrue(rows[row])
  <2>1. CASE rows[row] = held[row]
    BY <2>1, HeldFacts
  <2>2. CASE rows[row] # held[row]
    <3>1. PICK tasks \in SUBSET FreeTasks : rows[row] \in Listed(row, held, tasks)
      BY <1>6, <2>2 DEF CutShort
    <3> QED
      BY <3>1, HeldFacts, ListedFacts
  <2> QED
    BY <2>1, <2>2
<1>7. ASSUME NEW row \in Rows
      PROVE  RowTrue(rows[row])
  <2>1. row < last \/ row = last \/ row > last
    BY <1>4
  <2>2. CASE row < last
    BY <1>2, <1>5, <2>2
  <2>3. CASE row = last
    BY <1>2, <1>6, <2>3
  <2>4. CASE row > last
    BY <1>2, <2>4, HeldFacts
  <2> QED
    BY <2>1, <2>2, <2>3, <2>4
<1>8. ASSUME last > Cardinality(FreeAgents), NEW row \in Rows
      PROVE  rows[row] \in Rebuilt(row, held)
  <2>1. row < last
    BY <1>4, <1>8 DEF Rows
  <2> QED
    BY <1>2, <2>1
<1> QED
  BY <1>3, <1>5, <1>7, <1>8 DEF ListingTrue

LEMMA EstimatedListing ==
  ASSUME TMP!IInv, config \in Configs, NEW listing \in rebuild_candidates_fair
  PROVE  ListingTrue(listing.candidates, listing.listed)
<1>0. /\ DOMAIN NoRow = {"list", "agent", "location"} /\ DOMAIN NoRow.list = {} /\ NoRow.agent = None
  BY DEF NoRow, NoList
<1>1. CASE FreeTasks = {}
  <2>1. listing = Listing([row \in Rows |-> NoRow], {}, TRUE)
    BY <1>1 DEF rebuild_candidates_fair
  <2>2. listing.candidates = [row \in Rows |-> NoRow]
    BY <2>1 DEF Listing
  <2> QED
    BY <1>0, <2>2 DEF ListingTrue, RowTrue
<1>2. CASE FreeTasks # {}
  <2>0. PICK done \in Progress : \E lists \in [Rows -> ShortLists] : listing = FairListing(lists, done)
    BY <1>2 DEF rebuild_candidates_fair
  <2>1. PICK lists \in [Rows -> ShortLists] : listing = FairListing(lists, done)
    BY <2>0
  <2> DEFINE Row(row) == IF Turn(row) < done.seeded
                         THEN FairRow(row, lists[row], Turn(row) < done.exact) ELSE NoRow
  <2> DEFINE rows == listing.candidates
  <2>2. /\ rows = [row \in Rows |-> Row(row)]
        /\ listing.listed <=> done.exact = Cardinality(FreeAgents)
    BY <2>1 DEF FairListing, Listing
  <2>3. \A row \in Rows : lists[row] \subseteq FreeTasks
    BY DEF ShortLists
  <2>4. ASSUME NEW row \in Rows
        PROVE  /\ rows[row] = Row(row)
               /\ rows[row] = NoRow \/
                    /\ DOMAIN rows[row] = {"list", "agent", "location"} /\ rows[row].agent = None
                    /\ DOMAIN rows[row].list = lists[row]
    BY <1>0, <2>2 DEF FairRow
  <2>5. \A row \in Rows : RowTrue(rows[row])
    <3>1. FreeTasks \subseteq Nat
      BY HeapFacts, Books DEF Unowned
    <3> HIDE DEF rows, Row
    <3> QED
      BY <1>0, <2>3, <2>4, <3>1 DEF RowTrue
  <2>6. ASSUME done.exact = Cardinality(FreeAgents), NEW row \in Rows, NEW t \in DOMAIN rows[row].list
        PROVE  t \in FreeTasks /\ rows[row].list[t] = Score(curr_states[AgentOf(row)], t)
    <3> DEFINE all == Cardinality(FreeAgents)
    <3>1. all \in Nat /\ all > 0 /\ row - 1 - curr_timestep * 7919 \in Int
      BY RowsFacts, Books DEF Rows
    <3>2. done.seeded = all
      BY <2>6, <3>1 DEF Progress
    <3>3. Turn(row) \in 0 .. all - 1
      <4> HIDE DEF all
      <4> DEFINE turn == row - 1 - curr_timestep * 7919
      <4>1. Turn(row) = turn % all
        BY DEF Turn, all
      <4> HIDE DEF turn
      <4> QED
        BY <3>1, <4>1 DEF turn
    <3>4. Turn(row) < done.seeded /\ Turn(row) < done.exact
      BY <2>6, <3>1, <3>2, <3>3
    <3>5. rows[row] = FairRow(row, lists[row], TRUE)
      BY <2>4, <3>4
    <3>6. rows[row].list = [u \in lists[row] |-> Score(curr_states[AgentOf(row)], u)]
      BY <1>0, <3>5 DEF FairRow
    <3> QED
      BY <2>3, <2>6, <3>6
  <2>7. DOMAIN rows = Rows
    BY <2>2
  <2> HIDE DEF rows, Row
  <2>8. ListingTrue(rows, listing.listed)
    BY <2>2, <2>5, <2>6, <2>7 DEF ListingTrue
  <2> QED
    BY <2>8 DEF rows
<1> QED
  BY <1>1, <1>2

\* The traffic raises scores; it does not meet rows that are used again.
LEMMA RerankedFacts ==
  ASSUME TMP!IInv, config \in Configs, curr_states \in TM!States,
         NEW rows, NEW complete, ListingTrue(rows, complete), NEW new \in Reranked(rows)
  PROVE  /\ DOMAIN new = Rows
         /\ \A row \in Rows : RowTrue(new[row])
         /\ complete =>
              \A row \in Rows : \A t \in DOMAIN new[row].list :
                new[row].list[t] - Score(curr_states[AgentOf(row)], t) \in
                  {0} \cup (IF config.traffic_rerank THEN Pressures ELSE {})
<1>1. ASSUME NEW row \in Rows, NEW t \in Nat
      PROVE  Score(curr_states[AgentOf(row)], t) \in Int
  <2>1. AgentOf(row) \in Agent
    BY RowsFacts, HeapFacts DEF Idle
  <2>2. curr_states[AgentOf(row)] \in Location
    BY <2>1 DEF TM!States, Agent
  <2> QED
    BY <2>2, ScoreType
<1>2. /\ DOMAIN rows = Rows /\ \A row \in Rows : RowTrue(rows[row])
      /\ \A row \in Rows : DOMAIN rows[row].list \subseteq Nat
  BY DEF ListingTrue, RowTrue
<1>3. CASE ~ config.traffic_rerank
  <2>1. new = rows
    BY <1>3 DEF Reranked
  <2> QED
    BY <1>1, <1>2, <1>3, <2>1 DEF ListingTrue
<1>4. CASE config.traffic_rerank
  <2>1. PICK raise \in [DOMAIN rows -> [FreeTasks -> {0} \cup Pressures]] :
          new = [row \in DOMAIN rows |->
                   [rows[row] EXCEPT !.list = [t \in DOMAIN @ |-> @[t] + raise[row][t]]]]
    BY <1>4 DEF Reranked
  <2>2. ASSUME NEW row \in Rows
        PROVE  /\ DOMAIN new[row] = {"list", "agent", "location"}
               /\ new[row].list = [t \in DOMAIN rows[row].list |-> rows[row].list[t] + raise[row][t]]
    <3>1. "list" \in DOMAIN rows[row] /\ DOMAIN rows[row] = {"list", "agent", "location"}
      BY <1>2 DEF RowTrue
    <3> QED
      BY <1>2, <2>1, <3>1
  <2>3. \A row \in Rows : RowTrue(new[row])
    BY <1>2, <1>4, <2>2 DEF RowTrue
  <2>4. ASSUME complete, NEW row \in Rows, NEW t \in DOMAIN new[row].list
        PROVE  new[row].list[t] - Score(curr_states[AgentOf(row)], t) \in {0} \cup Pressures
    <3> DEFINE score == Score(curr_states[AgentOf(row)], t)
    <3>1. /\ t \in FreeTasks /\ rows[row].list[t] = score /\ t \in Nat
          /\ new[row].list[t] = rows[row].list[t] + raise[row][t]
      BY <1>2, <1>4, <2>2, <2>4 DEF ListingTrue
    <3>2. raise[row][t] \in {0} \cup Pressures /\ raise[row][t] \in Int
      <4> HIDE DEF score
      <4>1. row \in DOMAIN rows /\ t \in FreeTasks
        BY <1>2, <3>1
      <4>2. raise[row] \in [FreeTasks -> {0} \cup Pressures]
        BY <4>1
      <4>3. raise[row][t] \in {0} \cup Pressures
        BY <4>1, <4>2
      <4>4. \A r \in {0} \cup Pressures : r \in Int
        BY DistanceAssumption
      <4> QED
        BY <4>3, <4>4, Zenon
    <3>3. score \in Int
      BY <1>1, <3>1
    <3> HIDE DEF score
    <3>4. new[row].list[t] - score = raise[row][t]
      BY <3>1, <3>2, <3>3
    <3> QED
      BY <3>2, <3>4 DEF score
  <2>5. DOMAIN new = Rows
    BY <1>2, <2>1
  <2> QED
    BY <1>4, <2>3, <2>4, <2>5
<1> QED
  BY <1>3, <1>4

-----------------------------------------------------------------------------
(* The greedy heap: the steps.                                             *)

\* The agents with tasks after a call are those before it and the paired ones.
LEMMA LoadFacts ==
  ASSUME TMP!IInv, config \in Configs, NEW matches, DOMAIN matches \subseteq FreeAgents,
         NEW schedule,
         {a \in Agent : schedule[a] # None} = (Agent \ NoTask) \cup DOMAIN matches
  PROVE  LET busy == {a \in Agent : schedule[a] # None}
         IN  Cardinality(busy) <= MaxTotal \/ Cardinality(busy) <= Cardinality(Agent \ NoTask)
<1> DEFINE old == Agent \ NoTask
           new == DOMAIN matches
<1>1. /\ IsFiniteSet(old) /\ Cardinality(old) \in Nat
  BY Team
<1>2. /\ IsFiniteSet(new) /\ Cardinality(new) \in Nat /\ Cardinality(new) <= Cardinality(FreeAgents)
      /\ Cardinality(FreeAgents) \in Nat /\ Cardinality(FreeAgents) <= MaxNew /\ MaxTotal \in Nat
  <2> HIDE DEF new
  <2>1. new \subseteq FreeAgents
    BY DEF new
  <2> QED
    BY <2>1, RowsFacts, FS_Subset, FS_CardinalityType
<1>3. old \cap new = {}
  BY HeapFacts
<1>4. MaxNew = IF MaxTotal - Cardinality(old) < 0 THEN 0 ELSE MaxTotal - Cardinality(old)
  BY DEF MaxNew
<1> HIDE DEF old, new
<1>5. Cardinality(old \cup new) = Cardinality(old) + Cardinality(new)
  BY <1>1, <1>2, <1>3, TwoParts
<1>6. Cardinality(old \cup new) <= MaxTotal \/ Cardinality(old \cup new) <= Cardinality(old)
  BY <1>1, <1>2, <1>4, <1>5
<1> QED
  BY <1>6 DEF old, new

LEMMA ScheduleStep ==
  ASSUME HeapInv, Schedule
  PROVE  HeapInv'
<1>1. /\ TMP!IInv /\ config \in Configs /\ curr_states \in TM!States
      /\ \A row \in DOMAIN candidates : RowTrue(candidates[row])
  BY DEF HeapInv
<1>2. PICK listing \in (IF Fair THEN rebuild_candidates_fair ELSE rebuild_candidates) :
        candidates' \in Reranked(listing.candidates) /\ listed' = listing.listed
  BY DEF Schedule
<1>3. PICK matches \in Matches(candidates') : \E refined \in Refined(matches) :
        proposed_schedule' = [a \in Agent |-> IF a \in DOMAIN refined THEN refined[a]
                                             ELSE IF a \in NoTask THEN None
                                             ELSE current_assignment[a]]
  BY DEF Schedule
<1>4. PICK refined \in Refined(matches) :
        proposed_schedule' = [a \in Agent |-> IF a \in DOMAIN refined THEN refined[a]
                                             ELSE IF a \in NoTask THEN None
                                             ELSE current_assignment[a]]
  BY <1>3
<1>5. pc' = "update" /\ UNCHANGED << manager, config, curr_states >>
  BY DEF Schedule
<1>6. ListingTrue(listing.candidates, listing.listed)
  BY <1>1, ExactListing, EstimatedListing
<1>7. /\ DOMAIN candidates' = Rows
      /\ \A row \in Rows : RowTrue(candidates'[row])
      /\ listed' =>
           \A row \in Rows : \A t \in DOMAIN candidates'[row].list :
             candidates'[row].list[t] - Score(curr_states[AgentOf(row)], t) \in
               {0} \cup (IF config.traffic_rerank THEN Pressures ELSE {})
  BY <1>1, <1>2, <1>6, RerankedFacts
<1>8. /\ DOMAIN matches \subseteq FreeAgents /\ IsInjective(matches)
      /\ \A a \in DOMAIN matches : matches[a] \in Unowned
  BY <1>1, <1>7, MatchesFacts
<1>9. /\ DOMAIN refined = DOMAIN matches \cup ReassignAgents
      /\ \A a \in DOMAIN refined : refined[a] \in DOMAIN ongoing_tasks
      /\ Accepted(With(refined))
  BY <1>1, <1>8, RefinedFacts
<1>10. /\ NoTask = Idle /\ FreeAgents \subseteq Idle /\ ReassignAgents \subseteq Agent \ Idle
       /\ \A t \in DOMAIN ongoing_tasks : t # None
  BY <1>1, HeapFacts, Books, SameNames
<1>11. proposed_schedule' = With(refined)
  <2>1. \A a \in NoTask : a \in Agent /\ current_assignment[a] = None
    BY <1>10 DEF Idle
  <2>2. proposed_schedule' = [a \in Agent |-> IF a \in DOMAIN refined THEN refined[a]
                                                                   ELSE current_assignment[a]]
    BY <1>4, <2>1
  <2> QED
    BY <2>2 DEF With
<1>12. {a \in Agent : proposed_schedule'[a] # None} = (Agent \ NoTask) \cup DOMAIN matches
  <2>1. \A a \in Agent : proposed_schedule'[a] = IF a \in DOMAIN refined THEN refined[a]
                                                                   ELSE current_assignment[a]
    BY <1>11 DEF With
  <2>2. \A a \in Agent : a \in NoTask <=> current_assignment[a] = None
    BY <1>10 DEF Idle
  <2>3. DOMAIN matches \subseteq Agent /\ ReassignAgents \subseteq Agent \ NoTask
    BY <1>8, <1>10 DEF Idle
  <2> QED
    BY <1>9, <1>10, <2>1, <2>2, <2>3
<1>13. LoadCapped'
  <2>1. LET busy == {a \in Agent : proposed_schedule'[a] # None}
        IN  Cardinality(busy) <= MaxTotal \/ Cardinality(busy) <= Cardinality(Agent \ NoTask)
    BY <1>1, <1>8, <1>12, LoadFacts
  <2>2. MaxTotal' = MaxTotal /\ NoTask' = NoTask
    BY <1>5 DEF MaxTotal, NoTask, manager
  <2> QED
    BY <2>1, <2>2 DEF LoadCapped
<1>14. ScoresCurrent'
  <2>1. /\ curr_states' = curr_states /\ config' = config
        /\ current_assignment' = current_assignment /\ ongoing_tasks' = ongoing_tasks
        /\ curr_timestep' = curr_timestep
    BY <1>5 DEF manager
  <2>2. NoTask' = NoTask
    BY <2>1 DEF NoTask
  <2>3. MaxNew' = MaxNew
    BY <2>1, <2>2 DEF MaxNew, MaxTotal
  <2>4. FreeAgents' = FreeAgents
    BY <2>2, <2>3 DEF FreeAgents
  <2>5. \A row \in Rows : AgentOf(row)' = AgentOf(row)
    BY <2>4 DEF AgentOf
  <2> QED
    BY <1>7, <2>1, <2>5 DEF ScoresCurrent
<1>15. TMP!IInv' /\ config' \in Configs /\ curr_states' \in TM!States
  <2>1. UNCHANGED TMP!vars
    BY <1>5 DEF TMP!vars, manager
  <2>2. TMP!IInv'
    BY <1>1, <2>1, TMP!StepIInv, TeamAssumption, TasksAssumption, NumTasksRevealAssumption,
       SimulationTimeAssumption
  <2> QED
    BY <1>1, <1>5, <2>2
<1>16. Accepted(proposed_schedule)'
  BY <1>5, <1>9, <1>11 DEF Accepted, TM!Opened, manager
<1>17. \A row \in DOMAIN candidates' : RowTrue(candidates[row])'
  <2>1. \A row \in Rows : RowTrue(candidates[row])'
    BY <1>5, <1>7 DEF RowTrue
  <2> QED
    BY <1>7, <2>1
<1> QED
  BY <1>13, <1>14, <1>15, <1>16, <1>17 DEF HeapInv

LEMMA UpdateStep ==
  ASSUME HeapInv, Update
  PROVE  HeapInv'
<1>1. PICK time \in curr_timestep + 1 .. SimulationTime :
        curr_states' \in TM!States /\ TM!update_tasks(curr_states', proposed_schedule, time)
  BY DEF Update
<1>2. TMP!IInv /\ Accepted(proposed_schedule)
  BY DEF HeapInv, Update
<1>3. TMP!IInv'
  <2>1. ASSUME NEW s \in TM!States, TM!update_tasks(s, proposed_schedule, time)
        PROVE  TMP!IInv'
    BY <1>2, <2>1, AfterRound
  <2> QED
    BY <1>1, <2>1
<1>4. pc' = "schedule" /\ config' = config /\ candidates' = candidates
  BY DEF Update
<1>5. \A row \in DOMAIN candidates' : RowTrue(candidates[row])'
  BY <1>4 DEF HeapInv, RowTrue
<1>6. LoadCapped' /\ ScoresCurrent'
  BY <1>4 DEF LoadCapped, ScoresCurrent
<1> QED
  BY <1>1, <1>3, <1>4, <1>5, <1>6 DEF HeapInv

LEMMA HeapInitInv == HeapInit => HeapInv
<1> SUFFICES ASSUME HeapInit PROVE HeapInv
  OBVIOUS
<1>1. TMP!IInv
  BY SameInit, TMP!InitIInv, TeamAssumption, TasksAssumption, NumTasksRevealAssumption,
     SimulationTimeAssumption DEF HeapInit
<1>2. DOMAIN candidates = {}
  BY DEF HeapInit
<1>3. pc = "schedule" /\ config \in Configs /\ curr_states \in TM!States
  BY DEF HeapInit
<1> QED
  BY <1>1, <1>2, <1>3 DEF HeapInv, LoadCapped, ScoresCurrent

LEMMA HeapNextInv == HeapInv /\ [HeapNext]_heap_vars => HeapInv'
<1> SUFFICES ASSUME HeapInv, [HeapNext]_heap_vars PROVE HeapInv'
  OBVIOUS
<1>1. CASE Schedule
  BY <1>1, ScheduleStep
<1>2. CASE Update
  BY <1>2, UpdateStep
<1>3. CASE UNCHANGED heap_vars
  <2>1. UNCHANGED << manager, config, curr_states, candidates, listed, pc, proposed_schedule >>
    BY <1>3 DEF heap_vars
  <2>2. TMP!IInv'
    <3>1. UNCHANGED TMP!vars
      BY <2>1 DEF TMP!vars, manager
    <3> QED
      BY <3>1, TMP!StepIInv, TeamAssumption, TasksAssumption, NumTasksRevealAssumption,
         SimulationTimeAssumption DEF HeapInv
  <2>3. /\ curr_states' = curr_states /\ config' = config
        /\ current_assignment' = current_assignment /\ ongoing_tasks' = ongoing_tasks
        /\ curr_timestep' = curr_timestep /\ candidates' = candidates /\ pc' = pc
        /\ listed' = listed /\ proposed_schedule' = proposed_schedule
    BY <2>1 DEF manager
  <2>4. NoTask' = NoTask /\ MaxTotal' = MaxTotal
    BY <2>3 DEF NoTask, MaxTotal
  <2>5. MaxNew' = MaxNew
    BY <2>4, <2>3 DEF MaxNew
  <2>6. FreeAgents' = FreeAgents
    BY <2>4, <2>5 DEF FreeAgents
  <2>7. \A row : AgentOf(row)' = AgentOf(row)
    BY <2>6 DEF AgentOf
  <2>8. LoadCapped'
    BY <2>3, <2>4 DEF HeapInv, LoadCapped
  <2>9. ScoresCurrent'
    BY <2>3, <2>7 DEF HeapInv, ScoresCurrent
  <2>10. pc' = "update" => Accepted(proposed_schedule)'
    BY <2>3 DEF HeapInv, Accepted, TM!Opened
  <2>11. \A row \in DOMAIN candidates' : RowTrue(candidates[row])'
    BY <2>3 DEF HeapInv, RowTrue
  <2> QED
    BY <2>2, <2>3, <2>8, <2>9, <2>10, <2>11 DEF HeapInv
<1> QED
  BY <1>1, <1>2, <1>3 DEF HeapNext

LEMMA HeapAlways == HeapSpec => []HeapInv
  BY HeapInitInv, HeapNextInv, PTL DEF HeapSpec

\* Whatever the deadline cuts off, the task manager accepts the schedule of the greedy heap.
THEOREM HeapAccepted == HeapSpec => []ScheduleAccepted
<1>1. HeapInv => ScheduleAccepted
  BY SameNames DEF HeapInv, ScheduleAccepted, Accepted, TM!validate_task_assignment,
     TM!Scheduled, Agent, None
<1> QED
  BY <1>1, HeapAlways, PTL

\* The ratio caps the agents with tasks over all calls.
THEOREM HeapCapped == HeapSpec => []LoadCapped
<1>1. HeapInv => LoadCapped
  BY DEF HeapInv
<1> QED
  BY <1>1, HeapAlways, PTL

\* A listing that was not cut off has the scores of the present, kept lists included.
THEOREM HeapScoresCurrent == HeapSpec => []ScoresCurrent
<1>1. HeapInv => ScoresCurrent
  BY DEF HeapInv
<1> QED
  BY <1>1, HeapAlways, PTL

=============================================================================
