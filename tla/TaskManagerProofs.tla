------------------------- MODULE TaskManagerProofs -------------------------
(***************************************************************************)
(* Proofs about the task manager, for any number of agents, any task file, *)
(* any pool size and any schedule a participant may propose.               *)
(*                                                                         *)
(* update_tasks goes through three stages: take over the schedule, advance *)
(* and finish, refill the pool.  PoolInv is the inductive invariant stated *)
(* of a pool and an assignment; one lemma per stage says that the stage    *)
(* keeps it.                                                               *)
(***************************************************************************)
EXTENDS TaskManager, FiniteSetTheorems, TLAPS

-----------------------------------------------------------------------------
(* The inductive invariant.                                                *)

PoolTyped(pool, asg) ==
  /\ DOMAIN pool \in SUBSET Nat
  /\ IsFiniteSet(DOMAIN pool)
  /\ pool \in [DOMAIN pool -> TaskRecord]
  /\ asg \in [Agent -> Nat \cup {None}]
  /\ \A t \in DOMAIN pool : pool[t].idx_next_loc < Len(Errands(t))

Agree(pool, asg) ==
  /\ \A a \in Agent : asg[a] # None => /\ asg[a] \in DOMAIN pool
                                       /\ pool[asg[a]].agent_assigned = a
  /\ \A t \in DOMAIN pool : pool[t].agent_assigned # None => asg[pool[t].agent_assigned] = t

OwnedWhenOpened(pool) ==
  \A t \in DOMAIN pool : Opened(pool[t]) => pool[t].agent_assigned # None

StampOrdered(task, now) ==
  /\ task.t_revealed <= now
  /\ task.agent_assigned # None => task.t_first_assigned # None
  /\ task.t_first_assigned # None => task.t_first_assigned \in task.t_revealed .. now
  /\ Opened(task) <=> task.t_opened # None
  /\ Opened(task) => task.t_first_assigned # None /\ task.t_opened \in task.t_first_assigned .. now

PoolInv(pool, asg, now) ==
  /\ PoolTyped(pool, asg)
  /\ Agree(pool, asg)
  /\ OwnedWhenOpened(pool)
  /\ \A t \in DOMAIN pool : StampOrdered(pool[t], now)

\* What is left of a pool when some tasks are taken out of it.
Rest(pool, ids) == [t \in ids |-> pool[t]]

-----------------------------------------------------------------------------
(* Facts about constants.                                                  *)

\* Every task id has an errand list that is not empty.
LEMMA ErrandsType ==
  ASSUME NEW t \in Nat
  PROVE  Errands(t) \in Seq(Location) /\ Len(Errands(t)) \in Nat \ {0}
<1>1. Len(Tasks) \in Nat /\ Len(Tasks) > 0
  BY TasksAssumption
<1>2. (t % Len(Tasks)) + 1 \in 1 .. Len(Tasks)
  BY <1>1, SMT
<1>3. Tasks[(t % Len(Tasks)) + 1] \in Seq(Location) /\ Len(Tasks[(t % Len(Tasks)) + 1]) > 0
  BY <1>2, TasksAssumption
<1> QED
  BY <1>3 DEF Errands

\* None is not an agent.
LEMMA NoneNotAgent == None \notin Agent
  BY NumAgentsAssumption DEF None, Agent

\* The number of tasks a refill adds is a natural number and makes the pool full.
LEMMA MissingType ==
  ASSUME NEW S, IsFiniteSet(S)
  PROVE  /\ Missing(S) \in Nat
         /\ Cardinality(S) <= NumTasksReveal => Cardinality(S) + Missing(S) = NumTasksReveal
  BY FS_CardinalityType, NumTasksRevealAssumption DEF Missing

-----------------------------------------------------------------------------
(* Stage 1: set_task_assignment.                                           *)

\* What validation guarantees about an accepted schedule.
LEMMA ValidFacts ==
  ASSUME PoolTyped(ongoing_tasks, current_assignment),
         NEW assignment \in Schedules, validate_task_assignment(assignment), task_id \in Nat
  PROVE  /\ assignment \in [Agent -> Nat \cup {None}]
         /\ \A a \in Agent : assignment[a] # None => assignment[a] \in DOMAIN ongoing_tasks
         /\ \A t \in Scheduled(assignment) :
              /\ Owner(assignment, t) \in Agent
              /\ assignment[Owner(assignment, t)] = t
              /\ \A a \in Agent : assignment[a] = t => a = Owner(assignment, t)
<1>1. assignment \in [Agent -> {None} \cup 0 .. task_id]
  BY DEF Schedules, validate_task_assignment, Agent
<1>2. ASSUME NEW t \in Scheduled(assignment)
      PROVE  /\ Owner(assignment, t) \in Agent
             /\ assignment[Owner(assignment, t)] = t
             /\ \A a \in Agent : assignment[a] = t => a = Owner(assignment, t)
  <2>1. PICK b \in Agent : assignment[b] = t /\ t # None
    BY <1>1 DEF Scheduled
  <2>2. Owner(assignment, t) = CHOOSE a \in Agent : assignment[a] = t
    BY DEF Owner
  <2>3. Owner(assignment, t) \in Agent /\ assignment[Owner(assignment, t)] = t
    BY <2>1, <2>2
  <2> QED
    BY <2>1, <2>3 DEF validate_task_assignment
<1>3. \A a \in Agent : assignment[a] # None => assignment[a] \in Scheduled(assignment)
  BY <1>1 DEF Scheduled
<1> QED
  BY <1>1, <1>2, <1>3 DEF validate_task_assignment

\* Taking over a schedule, or rejecting it, keeps the pool invariant.
LEMMA SetStep ==
  ASSUME PoolInv(ongoing_tasks, current_assignment, curr_timestep),
         task_id \in Nat, curr_timestep \in Nat,
         NEW assignment \in Schedules, NEW time \in Nat, curr_timestep <= time
  PROVE  /\ PoolInv(PoolSet(assignment, time), AssignmentSet(assignment), time)
         /\ DOMAIN PoolSet(assignment, time) = DOMAIN ongoing_tasks
         /\ \A t \in DOMAIN ongoing_tasks :
              PoolSet(assignment, time)[t].idx_next_loc = ongoing_tasks[t].idx_next_loc
<1>1. CASE ~ validate_task_assignment(assignment)
  <2>1. PoolSet(assignment, time) = ongoing_tasks /\ AssignmentSet(assignment) = current_assignment
    BY <1>1 DEF PoolSet, AssignmentSet
  <2>2. \A t \in DOMAIN ongoing_tasks : StampOrdered(ongoing_tasks[t], time)
    BY DEF PoolInv, PoolTyped, StampOrdered, TaskRecord, None
  <2> QED
    BY <2>1, <2>2 DEF PoolInv
<1>2. CASE validate_task_assignment(assignment)
  <2> DEFINE P == PoolSet(assignment, time)
             A == AssignmentSet(assignment)
  <2>1. A = assignment /\ DOMAIN P = DOMAIN ongoing_tasks
    BY <1>2 DEF PoolSet, AssignmentSet
  <2>2. PoolTyped(ongoing_tasks, current_assignment) /\ Agree(ongoing_tasks, current_assignment)
    BY DEF PoolInv
  <2>3. \A t \in DOMAIN ongoing_tasks : ongoing_tasks[t] \in TaskRecord /\ t \in Nat
    BY <2>2 DEF PoolTyped
  <2>4. \A t \in DOMAIN ongoing_tasks :
          Owner(assignment, t) \in Agent \cup {None}
             /\ FirstAssigned(assignment, t, time) \in Nat \cup {None}
    BY <1>2, <2>2, <2>3, ValidFacts DEF Owner, FirstAssigned, TaskRecord
  <2>5. \A t \in DOMAIN ongoing_tasks :
          /\ P[t] \in TaskRecord
          /\ P[t].idx_next_loc = ongoing_tasks[t].idx_next_loc
          /\ P[t].agent_assigned = Owner(assignment, t)
          /\ P[t].t_revealed = ongoing_tasks[t].t_revealed
          /\ P[t].t_first_assigned = FirstAssigned(assignment, t, time)
          /\ P[t].t_opened = ongoing_tasks[t].t_opened
    <3> SUFFICES ASSUME NEW t \in DOMAIN ongoing_tasks
                 PROVE  /\ P[t] \in TaskRecord
                        /\ P[t].idx_next_loc = ongoing_tasks[t].idx_next_loc
                        /\ P[t].agent_assigned = Owner(assignment, t)
                        /\ P[t].t_revealed = ongoing_tasks[t].t_revealed
                        /\ P[t].t_first_assigned = FirstAssigned(assignment, t, time)
                        /\ P[t].t_opened = ongoing_tasks[t].t_opened
      OBVIOUS
    <3>1. P[t] = [ongoing_tasks[t] EXCEPT
                    !.agent_assigned   = Owner(assignment, t),
                    !.t_first_assigned = FirstAssigned(assignment, t, time)]
      BY <1>2 DEF PoolSet
    <3> QED
      BY <2>3, <2>4, <3>1 DEF TaskRecord
  <2>6. P \in [DOMAIN P -> TaskRecord]
    BY <1>2, <2>1, <2>5 DEF PoolSet
  <2> HIDE DEF P, A
  <2>7. PoolTyped(P, A)
    BY <1>2, <2>1, <2>2, <2>5, <2>6, ValidFacts DEF PoolTyped
  \* An unscheduled task loses its agent.
  <2>8. \A t \in DOMAIN ongoing_tasks : t \notin Scheduled(assignment) => Owner(assignment, t) = None
    <3> SUFFICES ASSUME NEW t \in DOMAIN ongoing_tasks, t \notin Scheduled(assignment),
                        t \notin Scheduled(current_assignment)
                 PROVE  ongoing_tasks[t].agent_assigned = None
      BY DEF Owner
    <3>1. t # None
      BY <2>1, <2>3 DEF None
    <3>2. \A a \in Agent : current_assignment[a] # t
      BY <2>2, <3>1 DEF PoolTyped, Scheduled
    <3> QED
      BY <2>1, <2>2, <2>3, <3>2 DEF Agree, TaskRecord
  <2>9. Agree(P, A)
    <3>1. ASSUME NEW a \in Agent, A[a] # None
          PROVE  A[a] \in DOMAIN P /\ P[A[a]].agent_assigned = a
      <4>1. A[a] \in DOMAIN P
        BY <1>2, <2>1, <2>2, <3>1, ValidFacts
      <4>2. A[a] \in Scheduled(assignment)
        BY <1>2, <2>1, <2>2, <3>1, ValidFacts DEF Scheduled
      <4> QED
        BY <1>2, <2>1, <2>2, <2>5, <4>1, <4>2, ValidFacts
    <3>2. ASSUME NEW t \in DOMAIN ongoing_tasks, P[t].agent_assigned # None
          PROVE  A[P[t].agent_assigned] = t
      <4>1. t \in Scheduled(assignment)
        BY <2>5, <2>8, <3>2
      <4> QED
        BY <1>2, <2>1, <2>2, <2>5, <4>1, ValidFacts
    <3> QED
      BY <2>1, <3>1, <3>2 DEF Agree
  \* The agent of an opened task is scheduled to it again.
  <2>10. OwnedWhenOpened(P)
    <3> SUFFICES ASSUME NEW t \in DOMAIN ongoing_tasks, Opened(P[t])
                 PROVE  P[t].agent_assigned # None
      BY <2>1 DEF OwnedWhenOpened
    <3>1. Opened(ongoing_tasks[t]) /\ ongoing_tasks[t].agent_assigned \in Agent
      BY <2>1, <2>3, <2>5 DEF PoolInv, OwnedWhenOpened, Opened, TaskRecord
    <3>2. current_assignment[ongoing_tasks[t].agent_assigned] = t /\ t # None
      BY <2>1, <2>2, <2>3, <3>1, NoneNotAgent DEF Agree, None
    <3>3. assignment[ongoing_tasks[t].agent_assigned] = t
      BY <1>2, <3>1, <3>2 DEF validate_task_assignment
    <3>4. t \in Scheduled(assignment)
      BY <1>2, <2>2, <3>1, <3>2, <3>3, ValidFacts DEF Scheduled
    <3> QED
      BY <1>2, <2>2, <2>5, <3>4, ValidFacts, NoneNotAgent
  <2>11. \A t \in DOMAIN ongoing_tasks : StampOrdered(P[t], time)
    <3> SUFFICES ASSUME NEW t \in DOMAIN ongoing_tasks
                 PROVE  StampOrdered(P[t], time)
      OBVIOUS
    <3>1. StampOrdered(ongoing_tasks[t], curr_timestep)
      BY <2>1 DEF PoolInv
    <3>2. FirstAssigned(assignment, t, time) =
            IF t \in Scheduled(assignment) /\ ongoing_tasks[t].t_first_assigned < 0
              THEN time ELSE ongoing_tasks[t].t_first_assigned
      BY DEF FirstAssigned
    <3>3. Opened(P[t]) <=> Opened(ongoing_tasks[t])
      BY <2>5 DEF Opened
    <3>4. Owner(assignment, t) # None => t \in Scheduled(assignment)
      BY <2>8
    <3> QED
      BY <2>1, <2>3, <2>5, <3>1, <3>2, <3>3, <3>4 DEF StampOrdered, TaskRecord, None
  <2> QED
    BY <2>1, <2>5, <2>7, <2>9, <2>10, <2>11 DEF PoolInv, P, A
<1> QED
  BY <1>1, <1>2

-----------------------------------------------------------------------------
(* Stage 2: check_finished_tasks.                                          *)

\* Advancing the tasks whose agents arrived, and taking the finished ones out, keeps the
\* pool invariant; a finished task was its agent's.
LEMMA AdvanceStep ==
  ASSUME NEW pool, NEW asg, NEW now \in Nat, PoolInv(pool, asg, now),
         NEW arrived, arrived \subseteq Agent, \A a \in arrived : asg[a] # None,
         NEW done, done = Finishing(pool, asg, arrived),
         NEW moved, moved = TasksOf(asg, arrived),
         NEW left, left = DOMAIN pool \ TasksOf(asg, done)
  PROVE  /\ PoolInv(Rest(PoolAdvanced(pool, moved, now), left), Released(asg, done), now)
         /\ \A a \in done : /\ asg[a] \in DOMAIN pool
                             /\ PoolAdvanced(pool, moved, now)[asg[a]].agent_assigned = a
         /\ \A t \in left :
              /\ PoolAdvanced(pool, moved, now)[t].idx_next_loc >= pool[t].idx_next_loc
              /\ PoolAdvanced(pool, moved, now)[t].t_first_assigned = pool[t].t_first_assigned
<1> DEFINE P == Rest(PoolAdvanced(pool, moved, now), left)
           A == Released(asg, done)
<1> USE DEF TasksOf, Released
<1>1. PoolTyped(pool, asg) /\ Agree(pool, asg)
  BY DEF PoolInv
<1>2. DOMAIN P = left /\ left \subseteq DOMAIN pool
  BY DEF Rest
<1>3. done \subseteq arrived /\ arrived \subseteq Agent
  BY DEF Finishing
<1>4. \A t \in DOMAIN pool :
        /\ pool[t] \in TaskRecord
        /\ t \in Nat
        /\ Len(Errands(t)) \in Nat
        /\ pool[t].idx_next_loc < Len(Errands(t))
  BY <1>1, ErrandsType DEF PoolTyped
<1>5. \A t \in DOMAIN pool : PoolAdvanced(pool, moved, now)[t] =
                               IF t \in moved THEN Advanced(pool[t], now) ELSE pool[t]
  BY DEF PoolAdvanced
<1>6. ASSUME NEW t \in DOMAIN pool
      PROVE  /\ Advanced(pool[t], now) \in TaskRecord
             /\ Advanced(pool[t], now).idx_next_loc = pool[t].idx_next_loc + 1
             /\ Advanced(pool[t], now).agent_assigned = pool[t].agent_assigned
             /\ Advanced(pool[t], now).t_revealed = pool[t].t_revealed
             /\ Advanced(pool[t], now).t_first_assigned = pool[t].t_first_assigned
             /\ Advanced(pool[t], now).t_opened =
                  IF pool[t].idx_next_loc = 0 /\ pool[t].t_opened < 0 THEN now ELSE pool[t].t_opened
  <2>1. pool[t] \in TaskRecord
    BY <1>4
  <2> DEFINE opened == IF pool[t].idx_next_loc = 0 /\ pool[t].t_opened < 0
                         THEN now ELSE pool[t].t_opened
             next   == pool[t].idx_next_loc + 1
  <2>2. opened \in Nat \cup {None} /\ next \in Nat
    BY <2>1 DEF TaskRecord
  <2>3. Advanced(pool[t], now) =
          [pool[t] EXCEPT !.idx_next_loc = next, !.t_opened = opened]
    BY <2>1 DEF Advanced, TaskRecord
  <2> HIDE DEF opened, next
  <2>4. /\ Advanced(pool[t], now) \in TaskRecord
        /\ Advanced(pool[t], now).t_opened = opened
        /\ Advanced(pool[t], now).idx_next_loc = next
        /\ Advanced(pool[t], now).agent_assigned = pool[t].agent_assigned
        /\ Advanced(pool[t], now).t_revealed = pool[t].t_revealed
        /\ Advanced(pool[t], now).t_first_assigned = pool[t].t_first_assigned
    BY <2>1, <2>2, <2>3 DEF TaskRecord
  <2> QED
    BY <2>4 DEF opened, next
<1>7. \A t \in left : P[t] = IF t \in moved THEN Advanced(pool[t], now) ELSE pool[t]
  BY <1>2, <1>5 DEF Rest
<1>8. \A t \in left : P[t] \in TaskRecord /\ P[t].agent_assigned = pool[t].agent_assigned
  BY <1>2, <1>4, <1>6, <1>7
<1>9. P \in [DOMAIN P -> TaskRecord]
  BY <1>2, <1>8 DEF Rest
\* A task that moves and is not finished has an errand left.
<1>10. ASSUME NEW t \in left
       PROVE  P[t].idx_next_loc < Len(Errands(t))
  <2>1. CASE t \notin moved
    BY <1>2, <1>4, <1>7, <2>1
  <2>2. CASE t \in moved
    <3>1. PICK a \in arrived : asg[a] = t
      BY <2>2
    <3>2. a \notin done
      BY <3>1
    <3>3. pool[t].idx_next_loc + 1 # Len(Errands(t))
      BY <3>1, <3>2 DEF Finishing
    <3>4. P[t].idx_next_loc = pool[t].idx_next_loc + 1
      BY <1>2, <1>6, <1>7, <2>2
    <3>5. pool[t].idx_next_loc \in Nat
      BY <1>2, <1>4 DEF TaskRecord
    <3> QED
      BY <1>2, <1>4, <3>3, <3>4, <3>5
  <2> QED
    BY <2>1, <2>2
<1>11. A \in [Agent -> Nat \cup {None}]
  BY <1>1 DEF PoolTyped
<1>12. IsFiniteSet(left) /\ left \in SUBSET Nat
  BY <1>1, <1>2, FS_Subset DEF PoolTyped
<1> HIDE DEF P
<1>13. PoolTyped(P, A)
  BY <1>2, <1>9, <1>10, <1>11, <1>12 DEF PoolTyped
\* Two agents never share a task, so only the finishing agent loses it.
<1>14. Agree(P, A)
  <2>1. ASSUME NEW a \in Agent, A[a] # None
        PROVE  A[a] \in DOMAIN P /\ P[A[a]].agent_assigned = a
    <3>1. A[a] = asg[a] /\ a \notin done
      BY <2>1
    <3>2. asg[a] \in DOMAIN pool /\ pool[asg[a]].agent_assigned = a
      BY <1>1, <2>1, <3>1 DEF Agree
    <3>3. ASSUME NEW b \in done, asg[b] = asg[a]
          PROVE  FALSE
      <4>1. pool[asg[b]].agent_assigned = b
        BY <1>1, <1>3, <3>3 DEF Agree
      <4> QED
        BY <3>1, <3>2, <3>3, <4>1
    <3>4. asg[a] \in left
      BY <3>2, <3>3
    <3> QED
      BY <1>2, <1>8, <3>1, <3>2, <3>4
  <2>2. ASSUME NEW t \in DOMAIN P, P[t].agent_assigned # None
        PROVE  A[P[t].agent_assigned] = t
    <3>1. P[t].agent_assigned = pool[t].agent_assigned /\ t \in DOMAIN pool
      BY <1>2, <1>8
    <3>2. asg[pool[t].agent_assigned] = t /\ pool[t].agent_assigned \in Agent
      BY <1>1, <1>4, <2>2, <3>1 DEF Agree, TaskRecord
    <3>3. pool[t].agent_assigned \notin done
      BY <1>2, <3>2
    <3> QED
      BY <3>1, <3>2, <3>3
  <2> QED
    BY <2>1, <2>2 DEF Agree
\* A task that moves has an agent.
<1>15. \A t \in moved : t \in DOMAIN pool /\ pool[t].agent_assigned \in Agent
  BY <1>1, <1>3 DEF Agree
<1>16. OwnedWhenOpened(P)
  <2> SUFFICES ASSUME NEW t \in left, Opened(P[t])
               PROVE  P[t].agent_assigned # None
    BY <1>2 DEF OwnedWhenOpened
  <2>1. CASE t \in moved
    BY <1>8, <1>15, <2>1, NoneNotAgent
  <2>2. CASE t \notin moved
    BY <1>2, <1>7, <2>2 DEF PoolInv, OwnedWhenOpened
  <2> QED
    BY <2>1, <2>2
<1>17. \A t \in DOMAIN P : StampOrdered(P[t], now)
  <2> SUFFICES ASSUME NEW t \in left
               PROVE  StampOrdered(P[t], now)
    BY <1>2
  <2>1. StampOrdered(pool[t], now)
    BY <1>2 DEF PoolInv
  <2>2. CASE t \notin moved
    BY <1>7, <2>1, <2>2
  <2>3. CASE t \in moved
    <3>1. pool[t].t_first_assigned \in Nat /\ pool[t].t_first_assigned <= now
      BY <1>4, <1>15, <2>1, <2>3, NoneNotAgent DEF StampOrdered, TaskRecord, None
    <3>2. P[t] = Advanced(pool[t], now)
      BY <1>7, <2>3
    <3> QED
      BY <1>2, <1>4, <1>6, <2>1, <3>1, <3>2 DEF StampOrdered, Opened, TaskRecord, None
  <2> QED
    BY <2>2, <2>3
<1>18. ASSUME NEW a \in done
       PROVE  /\ asg[a] \in DOMAIN pool
              /\ PoolAdvanced(pool, moved, now)[asg[a]].agent_assigned = a
  <2>1. asg[a] \in DOMAIN pool /\ pool[asg[a]].agent_assigned = a
    BY <1>1, <1>3 DEF Agree
  <2> QED
    BY <1>5, <1>6, <2>1
<1>19. ASSUME NEW t \in left
       PROVE  /\ PoolAdvanced(pool, moved, now)[t].idx_next_loc >= pool[t].idx_next_loc
              /\ PoolAdvanced(pool, moved, now)[t].t_first_assigned = pool[t].t_first_assigned
  <2>1. pool[t].idx_next_loc \in Nat
    BY <1>2, <1>4 DEF TaskRecord
  <2> QED
    BY <1>2, <1>5, <1>6, <2>1
<1> QED
  BY <1>13, <1>14, <1>16, <1>17, <1>18, <1>19 DEF PoolInv, P

-----------------------------------------------------------------------------
(* Stage 3: reveal_tasks.                                                  *)

\* Revealing new tasks keeps the pool invariant and fills the pool.
LEMMA RefillStep ==
  ASSUME NEW pool, NEW asg, NEW now \in Nat, NEW left,
         PoolInv(Rest(pool, left), asg, now),
         task_id \in Nat, left \subseteq 0 .. task_id - 1
  PROVE  /\ PoolInv(PoolRefilled(pool, left, now), asg, now)
         /\ left \cap Revealed(left) = {}
         /\ left \cup Revealed(left) \subseteq 0 .. task_id + Missing(left) - 1
         /\ Revealed(left) = task_id .. task_id + Missing(left) - 1
         /\ Missing(left) \in Nat
         /\ Cardinality(left) <= NumTasksReveal =>
              Cardinality(left \cup Revealed(left)) = NumTasksReveal
<1> DEFINE Q == Rest(pool, left)
           P == PoolRefilled(pool, left, now)
           N == Revealed(left)
<1>1. DOMAIN Q = left /\ \A t \in left : Q[t] = pool[t]
  BY DEF Rest
<1>2. IsFiniteSet(left) /\ left \in SUBSET Nat /\ PoolTyped(Q, asg) /\ Agree(Q, asg)
  BY <1>1 DEF PoolInv, PoolTyped
<1>3. Missing(left) \in Nat
  BY <1>2, MissingType
<1>4. N = task_id .. task_id + Missing(left) - 1
  BY DEF Revealed
<1>5. left \cap N = {} /\ N \in SUBSET Nat
        /\ left \cup N \subseteq 0 .. task_id + Missing(left) - 1
  <2>1. \A i \in N : i \in Int /\ i >= task_id /\ i <= task_id + Missing(left) - 1
    BY <1>3, <1>4
  <2>2. \A i \in left : i \in Int /\ i >= 0 /\ i <= task_id - 1
    OBVIOUS
  <2> HIDE DEF N
  <2>3. \A i \in N : i \notin left /\ i \in Nat
    BY <2>1, <2>2
  <2>4. \A i \in left \cup N : i \in 0 .. task_id + Missing(left) - 1
    BY <1>3, <2>1, <2>2
  <2> QED
    BY <2>3, <2>4
<1>6. IsFiniteSet(N) /\ Cardinality(N) = Missing(left)
  <2> DEFINE last == task_id + Missing(left) - 1
  <2>1. last \in Int /\ (IF task_id > last THEN 0 ELSE last - task_id + 1) = Missing(left)
    BY <1>3
  <2>2. N = task_id .. last
    BY <1>4
  <2> HIDE DEF last, N
  <2>3. IsFiniteSet(task_id .. last)
          /\ Cardinality(task_id .. last) = IF task_id > last THEN 0 ELSE last - task_id + 1
    BY <2>1, FS_Interval
  <2> QED
    BY <2>1, <2>2, <2>3
<1> HIDE DEF N
<1>7. IsFiniteSet(left \cup N) /\ Cardinality(left \cup N) = Cardinality(left) + Missing(left)
  <2>1. Cardinality(left \cup N) = Cardinality(left) + Cardinality(N) - Cardinality(left \cap N)
           /\ IsFiniteSet(left \cup N)
    BY <1>2, <1>6, FS_Union
  <2>2. Cardinality(left \cap N) = 0
    BY <1>5, FS_EmptySet
  <2>3. Cardinality(left) \in Nat
    BY <1>2, FS_CardinalityType
  <2> QED
    BY <1>3, <1>6, <2>1, <2>2, <2>3
<1>8. /\ DOMAIN P = left \cup N
      /\ \A t \in left : P[t] = Q[t]
      /\ \A t \in N : P[t] = NewTask(now)
  BY <1>1, <1>5 DEF PoolRefilled, N
<1>9. NewTask(now) \in TaskRecord /\ StampOrdered(NewTask(now), now)
        /\ NewTask(now).agent_assigned = None /\ NewTask(now).idx_next_loc = 0
  BY DEF NewTask, TaskRecord, StampOrdered, Opened, None
<1>10. \A t \in left : Q[t] \in TaskRecord
  BY <1>1, <1>2 DEF PoolTyped
<1>11. P \in [DOMAIN P -> TaskRecord]
  BY <1>1, <1>8, <1>9, <1>10 DEF PoolRefilled, N
<1>12. \A t \in N : 0 < Len(Errands(t))
  BY <1>5, ErrandsType
<1> HIDE DEF P, Q
<1>13. PoolTyped(P, asg)
  BY <1>1, <1>2, <1>5, <1>7, <1>8, <1>9, <1>11, <1>12 DEF PoolTyped
<1>14. Agree(P, asg)
  <2>1. \A a \in Agent : asg[a] # None => asg[a] \in left /\ Q[asg[a]].agent_assigned = a
    BY <1>1, <1>2 DEF Agree
  <2>2. \A t \in left : Q[t].agent_assigned # None => asg[Q[t].agent_assigned] = t
    BY <1>1, <1>2 DEF Agree
  <2> QED
    BY <1>8, <1>9, <2>1, <2>2 DEF Agree
<1>15. OwnedWhenOpened(P)
  <2>1. \A t \in left : Opened(Q[t]) => Q[t].agent_assigned # None
    BY <1>1 DEF PoolInv, OwnedWhenOpened, Q
  <2>2. \A t \in N : ~ Opened(P[t])
    BY <1>8, <1>9 DEF Opened
  <2> QED
    BY <1>8, <2>1, <2>2 DEF OwnedWhenOpened
<1>16. \A t \in DOMAIN P : StampOrdered(P[t], now)
  BY <1>1, <1>8, <1>9 DEF PoolInv, Q
<1>17. Cardinality(left) <= NumTasksReveal => Cardinality(left \cup N) = NumTasksReveal
  BY <1>2, <1>7, MissingType
<1> QED
  BY <1>3, <1>4, <1>5, <1>13, <1>14, <1>15, <1>16, <1>17 DEF PoolInv, P, N

-----------------------------------------------------------------------------
(* One whole call of update_tasks.                                         *)

IInv ==
  /\ TypeOK
  /\ PoolInv(ongoing_tasks, current_assignment, curr_timestep)
  /\ EveryTaskAccounted
  /\ PoolFull
  /\ EventsFresh

\* What a call leaves behind, when the agents in done finish their tasks.
Summary(assignment, asg, pool, done, left, time) ==
  /\ asg = AssignmentSet(assignment) /\ pool = PoolSet(assignment, time)
  /\ done \subseteq Agent /\ \A a \in done : asg[a] # None
  /\ left = DOMAIN ongoing_tasks \ TasksOf(asg, done)
  /\ \A a \in done : asg[a] \in DOMAIN ongoing_tasks
  /\ \A a, b \in Agent :
       /\ asg[a] = asg[b]
       /\ asg[a] # None
       => a = b
  /\ current_assignment' = Released(asg, done)
  /\ finished_tasks' = [a \in Agent |-> finished_tasks[a] \cup
                                         (IF a \in done THEN {asg[a]} ELSE {})]
  /\ num_of_task_finish' = num_of_task_finish + Cardinality(done)
  /\ new_freeagents' = done
  /\ new_tasks' = Revealed(left)
  /\ Missing(left) \in Nat
  /\ task_id' = task_id + Missing(left)
  /\ Revealed(left) = task_id .. task_id + Missing(left) - 1
  /\ DOMAIN ongoing_tasks' = left \cup Revealed(left)
  /\ Cardinality(DOMAIN ongoing_tasks') = NumTasksReveal
  /\ \A t \in left :
       /\ ongoing_tasks'[t].idx_next_loc >= ongoing_tasks[t].idx_next_loc
       /\ ongoing_tasks'[t].t_first_assigned = pool[t].t_first_assigned
  /\ \A t \in Revealed(left) : ongoing_tasks'[t] = NewTask(time)
  /\ schedule_errors' = IF validate_task_assignment(assignment)
                           THEN schedule_errors ELSE schedule_errors + 1
  /\ curr_timestep' = time
  /\ PoolInv(ongoing_tasks', current_assignment', curr_timestep')

\* The three stages put together.
LEMMA UpdateSummary ==
  ASSUME IInv, NEW time \in curr_timestep + 1 .. SimulationTime, NEW s \in States,
         NEW assignment \in Schedules, update_tasks(s, assignment, time)
  PROVE  \E asg, pool, done, left : Summary(assignment, asg, pool, done, left, time)
<1> DEFINE asg     == AssignmentSet(assignment)
           pool    == PoolSet(assignment, time)
           arrived == Arrived(pool, asg, s)
           done    == Finishing(pool, asg, arrived)
           moved   == TasksOf(asg, arrived)
           after   == PoolAdvanced(pool, moved, time)
           left    == DOMAIN pool \ TasksOf(asg, done)
<1>1. /\ curr_timestep' = time
      /\ schedule_errors' = IF validate_task_assignment(assignment)
                               THEN schedule_errors ELSE schedule_errors + 1
      /\ current_assignment' = Released(asg, done)
      /\ finished_tasks' =
           [a \in Agent |-> finished_tasks[a] \cup {t \in TasksOf(asg, done) : after[t].agent_assigned = a}]
      /\ num_of_task_finish' = num_of_task_finish + Cardinality(done)
      /\ new_freeagents' = done
      /\ new_tasks' = Revealed(left)
      /\ task_id' = task_id + Missing(left)
      /\ ongoing_tasks' = PoolRefilled(after, left, time)
  BY DEF update_tasks, Freed
<1>2. time \in Nat /\ curr_timestep \in Nat /\ task_id \in Nat /\ curr_timestep <= time
  BY SimulationTimeAssumption DEF IInv, TypeOK
<1>3. /\ PoolInv(pool, asg, time)
      /\ DOMAIN pool = DOMAIN ongoing_tasks
      /\ \A t \in DOMAIN ongoing_tasks : pool[t].idx_next_loc = ongoing_tasks[t].idx_next_loc
  BY <1>2, SetStep DEF IInv
<1>4. arrived \subseteq Agent /\ (\A a \in arrived : asg[a] # None) /\ done \subseteq arrived
  BY DEF Arrived, Finishing
<1>a. /\ done = Finishing(pool, asg, arrived)
      /\ moved = TasksOf(asg, arrived)
      /\ left = DOMAIN pool \ TasksOf(asg, done)
      /\ after = PoolAdvanced(pool, moved, time)
  OBVIOUS
<1> HIDE DEF asg, pool, arrived, done, moved, left, after
<1>5. /\ PoolInv(Rest(after, left), Released(asg, done), time)
      /\ \A a \in done : asg[a] \in DOMAIN pool /\ after[asg[a]].agent_assigned = a
      /\ \A t \in left : /\ after[t].idx_next_loc >= pool[t].idx_next_loc
                          /\ after[t].t_first_assigned = pool[t].t_first_assigned
  BY <1>2, <1>3, <1>4, <1>a, AdvanceStep
<1>6. left \subseteq 0 .. task_id - 1 /\ Cardinality(left) <= NumTasksReveal
  <2>1. DOMAIN ongoing_tasks \subseteq 0 .. task_id - 1 /\ IsFiniteSet(DOMAIN ongoing_tasks)
          /\ Cardinality(DOMAIN ongoing_tasks) = NumTasksReveal
    BY DEF IInv, EveryTaskAccounted, PoolFull, PoolInv, PoolTyped
  <2>2. left \in SUBSET DOMAIN ongoing_tasks
    BY <1>3, <1>a
  <2> QED
    BY <2>1, <2>2, FS_Subset
<1>7. /\ PoolInv(PoolRefilled(after, left, time), Released(asg, done), time)
      /\ left \cap Revealed(left) = {}
      /\ Revealed(left) = task_id .. task_id + Missing(left) - 1
      /\ Missing(left) \in Nat
      /\ Cardinality(left \cup Revealed(left)) = NumTasksReveal
  BY <1>2, <1>5, <1>6, RefillStep
<1>8. /\ DOMAIN ongoing_tasks' = left \cup Revealed(left)
      /\ \A t \in left : ongoing_tasks'[t] = after[t]
      /\ \A t \in Revealed(left) : ongoing_tasks'[t] = NewTask(time)
  BY <1>1, <1>7 DEF PoolRefilled
<1>9. \A a, b \in Agent : asg[a] = asg[b] /\ asg[a] # None => a = b
  BY <1>3 DEF PoolInv, Agree
<1>10. ASSUME NEW a \in Agent
       PROVE  {t \in TasksOf(asg, done) : after[t].agent_assigned = a} = IF a \in done THEN {asg[a]} ELSE {}
  BY <1>5 DEF TasksOf
<1>11. finished_tasks' =
         [a \in Agent |-> finished_tasks[a] \cup (IF a \in done THEN {asg[a]} ELSE {})]
  BY <1>1, <1>10
<1>12. Summary(assignment, asg, pool, done, left, time)
  <2>1. done \subseteq Agent /\ (\A a \in done : asg[a] # None) /\ left = DOMAIN ongoing_tasks \ TasksOf(asg, done)
    BY <1>3, <1>4, <1>a
  <2>2. \A t \in left : /\ ongoing_tasks'[t].idx_next_loc >= ongoing_tasks[t].idx_next_loc
                        /\ ongoing_tasks'[t].t_first_assigned = pool[t].t_first_assigned
    BY <1>3, <1>5, <1>8, <2>1
  <2>3. \A a \in done : asg[a] \in DOMAIN ongoing_tasks
    BY <1>3, <1>5
  <2>4. PoolInv(ongoing_tasks', current_assignment', curr_timestep')
    BY <1>1, <1>7
  <2>5. Cardinality(DOMAIN ongoing_tasks') = NumTasksReveal
    BY <1>7, <1>8
  <2>6. asg = AssignmentSet(assignment) /\ pool = PoolSet(assignment, time)
    BY DEF asg, pool
  <2> QED
    BY <1>1, <1>7, <1>8, <1>9, <1>11, <2>1, <2>2, <2>3, <2>4, <2>5, <2>6 DEF Summary
<1> QED
  BY <1>12

-----------------------------------------------------------------------------
(* The invariant.                                                          *)

LEMMA InitIInv == Init => IInv
<1> SUFFICES ASSUME Init PROVE IInv
  OBVIOUS
<1> DEFINE ids == 0 .. NumTasksReveal - 1
<1>1. ids \in SUBSET Nat /\ NumTasksReveal - 1 \in Int
  BY NumTasksRevealAssumption
<1>2. IsFiniteSet(ids) /\ Cardinality(ids) = NumTasksReveal
  BY <1>1, FS_Interval, NumTasksRevealAssumption
<1>3. DOMAIN ongoing_tasks = ids /\ \A t \in ids : ongoing_tasks[t] = NewTask(0)
  BY DEF Init
<1>4. /\ NewTask(0) \in TaskRecord
      /\ StampOrdered(NewTask(0), 0)
      /\ NewTask(0).agent_assigned = None
      /\ NewTask(0).idx_next_loc = 0
  BY DEF NewTask, TaskRecord, StampOrdered, Opened, None
<1>5. ongoing_tasks \in [DOMAIN ongoing_tasks -> TaskRecord]
  BY <1>3, <1>4 DEF Init
<1>6. ASSUME NEW t \in ids
      PROVE  ongoing_tasks[t].idx_next_loc < Len(Errands(t))
  <2>1. t \in Nat /\ ongoing_tasks[t].idx_next_loc = 0
    BY <1>1, <1>3, <1>4
  <2> QED
    BY <2>1, ErrandsType
<1>7. \A a \in Agent : current_assignment[a] = None /\ finished_tasks[a] = {}
  BY DEF Init
<1>8. UNION {finished_tasks[a] : a \in Agent} = {}
  BY <1>7
<1> HIDE DEF ids
<1>9. TypeOK
  BY <1>1, <1>3, <1>5, <1>6, NumTasksRevealAssumption DEF Init, TypeOK, ids
<1>10. PoolInv(ongoing_tasks, current_assignment, curr_timestep)
  <2>1. PoolTyped(ongoing_tasks, current_assignment)
    BY <1>1, <1>2, <1>3, <1>5, <1>6 DEF Init, PoolTyped
  <2>2. Agree(ongoing_tasks, current_assignment)
    BY <1>3, <1>4, <1>7 DEF Agree
  <2>3. OwnedWhenOpened(ongoing_tasks)
    BY <1>3, <1>4 DEF OwnedWhenOpened, Opened
  <2>4. \A t \in DOMAIN ongoing_tasks : StampOrdered(ongoing_tasks[t], curr_timestep)
    BY <1>3, <1>4 DEF Init
  <2> QED
    BY <2>1, <2>2, <2>3, <2>4 DEF PoolInv
<1>11. EveryTaskAccounted
  BY <1>3, <1>7, <1>8, FS_EmptySet DEF Init, EveryTaskAccounted, ids
<1>12. PoolFull
  BY <1>2, <1>3 DEF PoolFull
<1>13. EventsFresh
  BY <1>3, <1>4, <1>7 DEF Init, EventsFresh, ids
<1> QED
  BY <1>9, <1>10, <1>11, <1>12, <1>13 DEF IInv

\* A set of agents with different tasks has as many tasks as agents.
LEMMA TasksOfSize ==
  ASSUME NEW asg, NEW S, IsFiniteSet(S),
         \A a, b \in S : asg[a] = asg[b] => a = b
  PROVE  IsFiniteSet(TasksOf(asg, S)) /\ Cardinality(TasksOf(asg, S)) = Cardinality(S)
<1> DEFINE f == [a \in S |-> asg[a]]
<1>1. f \in Bijection(S, TasksOf(asg, S))
  BY DEF Bijection, Injection, Surjection, IsInjective, TasksOf
<1>2. ExistsBijection(S, TasksOf(asg, S))
  BY <1>1 DEF ExistsBijection
<1> QED
  BY <1>2, FS_Bijection

\* Every revealed id stays accounted for, once.
LEMMA StepAccounted ==
  ASSUME IInv, NEW time, NEW assignment, NEW asg, NEW pool, NEW done, NEW left,
         Summary(assignment, asg, pool, done, left, time)
  PROVE  EveryTaskAccounted'
<1> DEFINE old   == UNION {finished_tasks[a] : a \in Agent}
           new   == UNION {finished_tasks'[a] : a \in Agent}
           moved == TasksOf(asg, done)
<1>1. /\ DOMAIN ongoing_tasks \cup old = 0 .. task_id - 1
      /\ \A a \in Agent : finished_tasks[a] \cap DOMAIN ongoing_tasks = {}
      /\ \A a, b \in Agent : a # b => finished_tasks[a] \cap finished_tasks[b] = {}
      /\ num_of_task_finish = Cardinality(old)
      /\ task_id \in Nat
  BY DEF IInv, EveryTaskAccounted, TypeOK
<1>2. /\ done \subseteq Agent
      /\ \A a \in done : asg[a] # None /\ asg[a] \in DOMAIN ongoing_tasks
      /\ \A a, b \in done : asg[a] = asg[b] => a = b
      /\ left = DOMAIN ongoing_tasks \ moved
  BY DEF Summary
<1>3. PICK n \in Nat : n = task_id + Missing(left)
  BY <1>1 DEF Summary
<1>n. /\ DOMAIN ongoing_tasks' = left \cup Revealed(left)
      /\ task_id' = n
      /\ task_id <= n
      /\ \A i : i \in Revealed(left) <=> i \in Int /\ task_id <= i /\ i <= n - 1
  <2>1. Missing(left) \in Nat /\ Revealed(left) = task_id .. task_id + Missing(left) - 1
    BY DEF Summary
  <2>2. Revealed(left) = task_id .. n - 1 /\ task_id <= n
    BY <1>1, <1>3, <2>1
  <2>3. \A i : i \in task_id .. n - 1 <=> i \in Int /\ task_id <= i /\ i <= n - 1
    BY <1>1, <1>3
  <2>4. DOMAIN ongoing_tasks' = left \cup Revealed(left) /\ task_id' = n
    BY <1>3 DEF Summary
  <2> QED
    BY <2>2, <2>3, <2>4
<1>4. \A a \in Agent : finished_tasks'[a] = finished_tasks[a] \cup
                                          (IF a \in done THEN {asg[a]} ELSE {})
  BY DEF Summary
<1>5. new = old \cup moved
  BY <1>2, <1>4 DEF TasksOf
<1>6. moved \subseteq DOMAIN ongoing_tasks
  BY <1>2 DEF TasksOf
<1>7. old \cap DOMAIN ongoing_tasks = {}
  BY <1>1
<1>8. IsFiniteSet(Agent)
  <2>1. NumAgents - 1 \in Int
    BY NumAgentsAssumption
  <2> QED
    BY <2>1, FS_Interval DEF Agent
<1>9. IsFiniteSet(done)
  BY <1>2, <1>8, FS_Subset
<1>10. IsFiniteSet(moved) /\ Cardinality(moved) = Cardinality(done)
  BY <1>2, <1>9, TasksOfSize
<1>11. IsFiniteSet(old)
  <2>1. task_id - 1 \in Int
    BY <1>1
  <2>2. IsFiniteSet(0 .. task_id - 1)
    BY <2>1, FS_Interval
  <2>3. old \in SUBSET (0 .. task_id - 1)
    BY <1>1
  <2> HIDE DEF old
  <2> QED
    BY <2>2, <2>3, FS_Subset
<1> HIDE DEF old, new, moved
<1>12. Cardinality(new) = num_of_task_finish + Cardinality(done)
  <2>1. Cardinality(old \cup moved) = Cardinality(old) + Cardinality(moved) - Cardinality(old \cap moved)
    BY <1>10, <1>11, FS_Union
  <2>2. Cardinality(old \cap moved) = 0
    BY <1>6, <1>7, FS_EmptySet
  <2>3. Cardinality(old) \in Nat /\ Cardinality(moved) \in Nat
    BY <1>10, <1>11, FS_CardinalityType
  <2> QED
    BY <1>1, <1>5, <1>10, <2>1, <2>2, <2>3
<1>13. DOMAIN ongoing_tasks' \cup new = 0 .. n - 1
  <2>1. \A i \in DOMAIN ongoing_tasks \cup old : i \in 0 .. task_id - 1
    BY <1>1
  <2>2. \A i \in 0 .. task_id - 1 : i \in left \/ i \in new
    BY <1>1, <1>2, <1>5
  <2>3. \A i \in left \cup new : i \in 0 .. task_id - 1
    BY <1>2, <1>5, <1>6, <2>1
  <2>4. \A i \in 0 .. n - 1 : i \in 0 .. task_id - 1 \/ i \in Revealed(left)
    BY <1>1, <1>3, <1>n
  <2>5. \A i \in Revealed(left) \cup (0 .. task_id - 1) : i \in 0 .. n - 1
    BY <1>1, <1>3, <1>n
  <2> QED
    BY <1>n, <2>2, <2>3, <2>4, <2>5
<1>14. ASSUME NEW a \in Agent
       PROVE  finished_tasks'[a] \cap DOMAIN ongoing_tasks' = {}
  <2>1. finished_tasks[a] \subseteq old
    BY DEF old
  <2>2. \A i \in finished_tasks'[a] : i \in old \/ i \in moved
    BY <1>4, <2>1 DEF moved, TasksOf
  <2>3. \A i \in old \cup moved : i \in 0 .. task_id - 1 /\ i \notin left
    BY <1>1, <1>2, <1>6, <1>7
  <2>4. \A i \in 0 .. task_id - 1 : i \notin Revealed(left)
    BY <1>1, <1>3, <1>n
  <2> QED
    BY <1>n, <2>2, <2>3, <2>4
<1>15. ASSUME NEW a \in Agent, NEW b \in Agent, a # b
       PROVE  finished_tasks'[a] \cap finished_tasks'[b] = {}
  BY <1>1, <1>2, <1>4, <1>15
<1>16. DOMAIN ongoing_tasks' \cup new = 0 .. task_id' - 1
  BY <1>13, <1>n
<1> QED
  BY <1>12, <1>14, <1>15, <1>16 DEF EveryTaskAccounted, new, Summary

LEMMA StepIInv == IInv /\ [Next]_vars => IInv'
<1>1. ASSUME IInv, Next PROVE IInv'
  <2>1. PICK time \in curr_timestep + 1 .. SimulationTime, s \in States, assignment \in Schedules :
          update_tasks(s, assignment, time)
    BY <1>1 DEF Next, UpdateTasks
  <2>2. PICK asg, pool, done, left : Summary(assignment, asg, pool, done, left, time)
    BY <1>1, <2>1, UpdateSummary
  <2>3. time \in Nat /\ task_id \in Nat
    BY <1>1, <2>1, SimulationTimeAssumption DEF IInv, TypeOK
  <2>4. EveryTaskAccounted'
    BY <1>1, <2>2, StepAccounted
  <2>5. PoolInv(ongoing_tasks, current_assignment, curr_timestep)'
    BY <2>2 DEF Summary
  <2>6. PoolFull'
    BY <2>2 DEF Summary, PoolFull
  <2>7. EventsFresh'
    <3>1. \A a \in new_freeagents' : current_assignment'[a] = None
      BY <2>2 DEF Summary, Released
    <3>2. NewTask(time).agent_assigned = None
      BY DEF NewTask
    <3>3. \A t \in new_tasks' : t \in DOMAIN ongoing_tasks' /\ ongoing_tasks'[t].agent_assigned = None
      BY <2>2, <3>2 DEF Summary
    <3> QED
      BY <3>1, <3>3 DEF EventsFresh
  <2>8. TypeOK'
    <3>1. /\ DOMAIN ongoing_tasks' \in SUBSET Nat
          /\ ongoing_tasks' \in [DOMAIN ongoing_tasks' -> TaskRecord]
          /\ \A t \in DOMAIN ongoing_tasks' : ongoing_tasks'[t].idx_next_loc < Len(Errands(t))
          /\ current_assignment' \in [Agent -> Nat \cup {None}]
      BY <2>5 DEF PoolInv, PoolTyped
    <3>2. finished_tasks' \in [Agent -> SUBSET Nat]
      BY <1>1, <2>2 DEF IInv, TypeOK, Summary
    <3>3. Cardinality(done) \in Nat /\ done \subseteq Agent
      <4>1. NumAgents - 1 \in Int
        BY NumAgentsAssumption
      <4>2. IsFiniteSet(Agent) /\ done \subseteq Agent
        BY <2>2, <4>1, FS_Interval DEF Agent, Summary
      <4> QED
        BY <4>2, FS_Subset, FS_CardinalityType
    <3>4. num_of_task_finish' \in Nat /\ task_id' \in Nat /\ schedule_errors' \in Nat
            /\ curr_timestep' \in Nat
      BY <1>1, <2>2, <2>3, <3>3 DEF IInv, TypeOK, Summary
    <3>5. new_freeagents' \in SUBSET Agent /\ new_tasks' \in SUBSET Nat
      BY <2>2, <3>1, <3>3 DEF Summary
    <3> QED
      BY <3>1, <3>2, <3>4, <3>5 DEF TypeOK
  <2> QED
    BY <2>4, <2>5, <2>6, <2>7, <2>8 DEF IInv
<1>2. ASSUME IInv, UNCHANGED vars PROVE IInv'
  BY <1>2 DEF IInv, vars, TypeOK, PoolInv, EveryTaskAccounted, PoolFull, EventsFresh
<1> QED
  BY <1>1, <1>2

\* The inductive invariant holds in every state of every run.
THEOREM Invariance == Spec => []IInv
  BY InitIInv, StepIInv, PTL DEF Spec

-----------------------------------------------------------------------------
(* The safety properties that the runs check on small instances.           *)

\* Every variable has its type and no task is asked for an errand it does not have.
THEOREM TypeCorrect == Spec => []TypeOK
<1>1. IInv => TypeOK
  BY DEF IInv
<1> QED
  BY <1>1, Invariance, PTL

\* current_assignment and agent_assigned name each other.
THEOREM OwnershipCorrect == Spec => []OwnershipAgrees
<1>1. IInv => OwnershipAgrees
  BY DEF IInv, PoolInv, Agree, OwnershipAgrees
<1> QED
  BY <1>1, Invariance, PTL

\* No schedule leaves an opened task without an agent.
THEOREM OpenedOwned == Spec => []OpenedHasOwner
<1>1. IInv => OpenedHasOwner
  BY DEF IInv, PoolInv, OwnedWhenOpened, OpenedHasOwner
<1> QED
  BY <1>1, Invariance, PTL

\* The stamps that the latency statistics subtract are in order.
THEOREM StampsCorrect == Spec => []StampsOrdered
<1>1. IInv => StampsOrdered
  BY DEF IInv, PoolInv, StampOrdered, StampsOrdered
<1> QED
  BY <1>1, Invariance, PTL

\* No task is lost, finished twice or revealed twice.
THEOREM TasksAccounted == Spec => []EveryTaskAccounted
<1>1. IInv => EveryTaskAccounted
  BY DEF IInv
<1> QED
  BY <1>1, Invariance, PTL

\* The pool has its full size in every state.
THEOREM PoolStaysFull == Spec => []PoolFull
<1>1. IInv => PoolFull
  BY DEF IInv
<1> QED
  BY <1>1, Invariance, PTL

\* The announced agents are free and the announced tasks untouched.
THEOREM EventsCorrect == Spec => []EventsFresh
<1>1. IInv => EventsFresh
  BY DEF IInv
<1> QED
  BY <1>1, Invariance, PTL

-----------------------------------------------------------------------------
(* Action properties.                                                      *)

\* An opened task keeps its agent in the assignment that a call works with.
LEMMA OpenedScheduled ==
  ASSUME NEW assignment, NEW a \in Agent, current_assignment[a] # None,
         Opened(ongoing_tasks[current_assignment[a]])
  PROVE  AssignmentSet(assignment)[a] = current_assignment[a]
  BY DEF AssignmentSet, validate_task_assignment

LEMMA StepKeepsOpened == IInv /\ Next => KeepsOpened
<1> SUFFICES ASSUME IInv, Next, NEW a \in Agent, NEW t \in DOMAIN ongoing_tasks,
                    current_assignment[a] = t, Opened(ongoing_tasks[t])
             PROVE  \/ t \in DOMAIN ongoing_tasks' /\ current_assignment'[a] = t
                    \/ t \in finished_tasks'[a]
  BY DEF KeepsOpened
<1>1. PICK time \in curr_timestep + 1 .. SimulationTime, s \in States, assignment \in Schedules :
        update_tasks(s, assignment, time)
  BY DEF Next, UpdateTasks
<1>2. PICK asg, pool, done, left : Summary(assignment, asg, pool, done, left, time)
  BY <1>1, UpdateSummary
<1>3. t # None
  BY DEF IInv, TypeOK, None
<1>4. asg[a] = t
  BY <1>2, <1>3, OpenedScheduled DEF Summary
<1>5. CASE a \in done
  BY <1>2, <1>4, <1>5 DEF Summary
<1>6. CASE a \notin done
  <2>1. current_assignment'[a] = t
    BY <1>2, <1>4, <1>6 DEF Summary, Released
  <2>2. t \in left
    BY <1>2, <1>3, <1>4, <1>6 DEF Summary, TasksOf
  <2> QED
    BY <1>2, <2>1, <2>2 DEF Summary
<1> QED
  BY <1>5, <1>6

\* An opened task stays with its agent until that agent has finished it.
THEOREM OpenedKept == Spec => OpenedTaskKept
<1>1. IInv /\ [Next]_vars => [KeepsOpened]_vars
  BY StepKeepsOpened
<1> QED
  BY <1>1, Invariance, PTL DEF Spec, OpenedTaskKept

LEMMA StepIgnoresRejected == IInv /\ Next => IgnoresRejected
<1> SUFFICES ASSUME IInv, Next, schedule_errors' > schedule_errors
             PROVE  /\ \A a \in Agent : \/ current_assignment'[a] = current_assignment[a]
                                        \/ current_assignment[a] \in finished_tasks'[a]
                    /\ \A t \in DOMAIN ongoing_tasks \cap DOMAIN ongoing_tasks' :
                         ongoing_tasks'[t].t_first_assigned = ongoing_tasks[t].t_first_assigned
  BY DEF IgnoresRejected
<1>1. PICK time \in curr_timestep + 1 .. SimulationTime, s \in States, assignment \in Schedules :
        update_tasks(s, assignment, time)
  BY DEF Next, UpdateTasks
<1>2. PICK asg, pool, done, left : Summary(assignment, asg, pool, done, left, time)
  BY <1>1, UpdateSummary
<1>3. ~ validate_task_assignment(assignment)
  BY <1>2 DEF Summary, IInv, TypeOK
<1>4. asg = current_assignment /\ pool = ongoing_tasks
  BY <1>2, <1>3 DEF Summary, AssignmentSet, PoolSet
<1>5. ASSUME NEW a \in Agent
      PROVE  \/ current_assignment'[a] = current_assignment[a]
             \/ current_assignment[a] \in finished_tasks'[a]
  BY <1>2, <1>4 DEF Summary, Released
<1>6. ASSUME NEW t \in DOMAIN ongoing_tasks, t \in DOMAIN ongoing_tasks'
      PROVE  ongoing_tasks'[t].t_first_assigned = ongoing_tasks[t].t_first_assigned
  <2>1. t \in 0 .. task_id - 1 /\ task_id \in Nat
    BY DEF IInv, EveryTaskAccounted, TypeOK
  <2>2. t \notin Revealed(left)
    BY <1>2, <2>1 DEF Summary
  <2> QED
    BY <1>2, <1>4, <1>6, <2>2 DEF Summary
<1> QED
  BY <1>5, <1>6

\* A rejected schedule changes nothing, though tasks may advance in the same call.
THEOREM RejectedIgnored == Spec => RejectedScheduleIgnored
<1>1. IInv /\ [Next]_vars => [IgnoresRejected]_vars
  BY StepIgnoresRejected
<1> QED
  BY <1>1, Invariance, PTL DEF Spec, RejectedScheduleIgnored

-----------------------------------------------------------------------------
(* The task manager implements the task life cycle.                        *)

StatusOf(pool, finished, t) ==
  IF t \in DOMAIN pool
  THEN [phase |-> IF pool[t].agent_assigned = None THEN "waiting"
                  ELSE IF Opened(pool[t]) THEN "opened" ELSE "assigned",
        agent |-> pool[t].agent_assigned]
  ELSE IF \E a \in Agent : t \in finished[a]
  THEN [phase |-> "finished", agent |-> CHOOSE a \in Agent : t \in finished[a]]
  ELSE [phase |-> "unrevealed", agent |-> None]

\* The phase and agent of an id, by where the id is.
LEMMA StatusFacts ==
  ASSUME NEW pool, NEW finished, NEW t,
         \A u \in DOMAIN pool : pool[u] \in TaskRecord,
         \A a, b \in Agent : a # b => finished[a] \cap finished[b] = {},
         \A a \in Agent : finished[a] \cap DOMAIN pool = {}
  PROVE  /\ StatusOf(pool, finished, t) \in Lifecycle!Status
         /\ Lifecycle!WellFormed(StatusOf(pool, finished, t))
         /\ t \in DOMAIN pool =>
              /\ StatusOf(pool, finished, t).agent = pool[t].agent_assigned
              /\ StatusOf(pool, finished, t).phase =
                   IF pool[t].agent_assigned = None THEN "waiting"
                   ELSE IF Opened(pool[t]) THEN "opened" ELSE "assigned"
         /\ \A a \in Agent : t \in finished[a] =>
              StatusOf(pool, finished, t) = [phase |-> "finished", agent |-> a]
         /\ t \notin DOMAIN pool /\ (\A a \in Agent : t \notin finished[a]) =>
              StatusOf(pool, finished, t) = [phase |-> "unrevealed", agent |-> None]
<1> USE DEF Lifecycle!Status, Lifecycle!Phase, Lifecycle!WellFormed
<1>1. CASE t \in DOMAIN pool
  <2>1. pool[t].agent_assigned \in Agent \cup {None}
    BY <1>1 DEF TaskRecord
  <2>2. \A a \in Agent : t \notin finished[a]
    BY <1>1
  <2>3. StatusOf(pool, finished, t) =
          [phase |-> IF pool[t].agent_assigned = None THEN "waiting"
                     ELSE IF Opened(pool[t]) THEN "opened" ELSE "assigned",
           agent |-> pool[t].agent_assigned]
    BY <1>1 DEF StatusOf
  <2> QED
    BY <1>1, <2>1, <2>2, <2>3, NoneNotAgent
<1>2. ASSUME t \notin DOMAIN pool, NEW b \in Agent, t \in finished[b]
      PROVE  StatusOf(pool, finished, t) = [phase |-> "finished", agent |-> b]
               /\ \A a \in Agent : t \in finished[a] => a = b
  <2>1. \A a \in Agent : t \in finished[a] => a = b
    BY <1>2
  <2>2. (CHOOSE a \in Agent : t \in finished[a]) = b
    BY <1>2, <2>1
  <2> QED
    BY <1>2, <2>1, <2>2 DEF StatusOf
<1>3. CASE t \notin DOMAIN pool /\ \A a \in Agent : t \notin finished[a]
  BY <1>3, NoneNotAgent DEF StatusOf
<1>4. CASE t \notin DOMAIN pool /\ \E b \in Agent : t \in finished[b]
  <2>1. PICK b \in Agent : t \in finished[b]
    BY <1>4
  <2>2. StatusOf(pool, finished, t) = [phase |-> "finished", agent |-> b]
          /\ \A a \in Agent : t \in finished[a] => a = b
    BY <1>2, <1>4, <2>1
  <2> QED
    BY <1>4, <2>1, <2>2, NoneNotAgent
<1> QED
  BY <1>1, <1>3, <1>4

\* The hypotheses of StatusFacts follow from the invariant.
LEMMA InvForStatus ==
  ASSUME IInv
  PROVE  /\ \A u \in DOMAIN ongoing_tasks : ongoing_tasks[u] \in TaskRecord
         /\ \A a, b \in Agent : a # b => finished_tasks[a] \cap finished_tasks[b] = {}
         /\ \A a \in Agent : finished_tasks[a] \cap DOMAIN ongoing_tasks = {}
         /\ \A t \in TaskId : lifecycle[t] = StatusOf(ongoing_tasks, finished_tasks, t)
  BY DEF IInv, TypeOK, EveryTaskAccounted, lifecycle, StatusOf

LEMMA LifecycleTyped ==
  ASSUME IInv
  PROVE  /\ lifecycle \in [TaskId -> Lifecycle!Status]
         /\ \A t \in TaskId : Lifecycle!WellFormed(lifecycle[t])
         /\ Lifecycle!OneTaskPerAgent(lifecycle)
<1>1. \A t \in TaskId : lifecycle[t] \in Lifecycle!Status /\ Lifecycle!WellFormed(lifecycle[t])
  BY InvForStatus, StatusFacts
<1>2. lifecycle \in [TaskId -> Lifecycle!Status]
  BY <1>1 DEF lifecycle
<1>3. ASSUME NEW t \in TaskId, lifecycle[t].phase \in Lifecycle!Held
      PROVE  t \in DOMAIN ongoing_tasks /\ lifecycle[t].agent = ongoing_tasks[t].agent_assigned
               /\ ongoing_tasks[t].agent_assigned # None
  <2>1. t \in DOMAIN ongoing_tasks
    <3> SUFFICES ASSUME t \notin DOMAIN ongoing_tasks PROVE FALSE
      OBVIOUS
    <3>1. CASE \E a \in Agent : t \in finished_tasks[a]
      BY <1>3, <3>1, InvForStatus, StatusFacts DEF Lifecycle!Held
    <3>2. CASE \A a \in Agent : t \notin finished_tasks[a]
      BY <1>3, <3>2, InvForStatus, StatusFacts DEF Lifecycle!Held
    <3> QED
      BY <3>1, <3>2
  <2> QED
    BY <1>3, <2>1, InvForStatus, StatusFacts DEF Lifecycle!Held
<1>4. Lifecycle!OneTaskPerAgent(lifecycle)
  BY <1>3 DEF Lifecycle!OneTaskPerAgent, IInv, PoolInv, Agree
<1> QED
  BY <1>1, <1>2, <1>4

\* Every task moves along its life cycle in a call of update_tasks.
LEMMA TaskEvolves ==
  ASSUME IInv, IInv', NEW time, NEW assignment, NEW asg, NEW pool, NEW done, NEW left,
         Summary(assignment, asg, pool, done, left, time), NEW t \in TaskId
  PROVE  Lifecycle!Evolves(lifecycle[t], lifecycle'[t])
<1> USE DEF Lifecycle!Evolves
<1>1. /\ lifecycle[t] = StatusOf(ongoing_tasks, finished_tasks, t)
      /\ lifecycle'[t] = StatusOf(ongoing_tasks', finished_tasks', t)
  BY InvForStatus DEF IInv, TypeOK, EveryTaskAccounted, lifecycle, StatusOf
<1>2. /\ \A u \in DOMAIN ongoing_tasks : ongoing_tasks[u] \in TaskRecord
      /\ \A a, b \in Agent : a # b => finished_tasks[a] \cap finished_tasks[b] = {}
      /\ \A a \in Agent : finished_tasks[a] \cap DOMAIN ongoing_tasks = {}
  BY InvForStatus
<1>3. /\ \A u \in DOMAIN ongoing_tasks' : ongoing_tasks'[u] \in TaskRecord
      /\ \A a, b \in Agent : a # b => finished_tasks'[a] \cap finished_tasks'[b] = {}
      /\ \A a \in Agent : finished_tasks'[a] \cap DOMAIN ongoing_tasks' = {}
  BY DEF IInv, TypeOK, EveryTaskAccounted
<1>4. CASE \E a \in Agent : t \in finished_tasks[a]
  <2>1. PICK a \in Agent : t \in finished_tasks[a]
    BY <1>4
  <2>2. t \in finished_tasks'[a]
    BY <2>1 DEF Summary
  <2>3. lifecycle[t] = [phase |-> "finished", agent |-> a]
    BY <1>1, <1>2, <2>1, StatusFacts
  <2>4. lifecycle'[t] = [phase |-> "finished", agent |-> a]
    BY <1>1, <1>3, <2>2, StatusFacts
  <2> QED
    BY <2>3, <2>4
<1>5. CASE t \in DOMAIN ongoing_tasks
  <2>1. /\ lifecycle[t].agent = ongoing_tasks[t].agent_assigned
        /\ lifecycle[t].phase = IF ongoing_tasks[t].agent_assigned = None THEN "waiting"
                                ELSE IF Opened(ongoing_tasks[t]) THEN "opened" ELSE "assigned"
    BY <1>1, <1>2, <1>5, StatusFacts
  <2>2. lifecycle[t].phase = "opened" =>
          /\ Opened(ongoing_tasks[t])
          /\ lifecycle[t].agent \in Agent
          /\ current_assignment[lifecycle[t].agent] = t
          /\ t # None
    BY <1>2, <1>5, <2>1 DEF IInv, PoolInv, Agree, TypeOK, TaskRecord, None
  <2>3. lifecycle[t].phase = "opened" => asg[lifecycle[t].agent] = t
    BY <2>2, OpenedScheduled DEF Summary
  <2>4. CASE t \in left
    <3>1. t \in DOMAIN ongoing_tasks'
      BY <2>4 DEF Summary
    <3>2. /\ lifecycle'[t].agent = ongoing_tasks'[t].agent_assigned
          /\ lifecycle'[t].phase = IF ongoing_tasks'[t].agent_assigned = None THEN "waiting"
                                   ELSE IF Opened(ongoing_tasks'[t]) THEN "opened" ELSE "assigned"
      BY <1>1, <1>3, <3>1, StatusFacts
    <3>3. ASSUME lifecycle[t].phase = "opened"
          PROVE  lifecycle'[t].phase = "opened" /\ lifecycle'[t].agent = lifecycle[t].agent
      <4> DEFINE a == lifecycle[t].agent
      <4>1. a \in Agent /\ asg[a] = t /\ t # None
        BY <2>2, <2>3, <3>3
      <4>2. a \notin done
        BY <2>4, <4>1 DEF Summary, TasksOf
      <4>3. current_assignment'[a] = t
        BY <4>1, <4>2 DEF Summary, Released
      <4>4. ongoing_tasks'[t].agent_assigned = a
        BY <4>1, <4>3 DEF Summary, PoolInv, Agree
      <4>5. Opened(ongoing_tasks'[t])
        <5>1. ongoing_tasks[t].idx_next_loc \in Nat /\ ongoing_tasks'[t].idx_next_loc \in Nat
          BY <1>2, <1>3, <1>5, <3>1 DEF TaskRecord
        <5>2. ongoing_tasks'[t].idx_next_loc >= ongoing_tasks[t].idx_next_loc
          BY <2>4 DEF Summary
        <5> QED
          BY <2>2, <3>3, <5>1, <5>2 DEF Opened
      <4> QED
        BY <3>2, <4>1, <4>4, <4>5, NoneNotAgent
    <3> QED
      BY <2>1, <3>2, <3>3
  <2>5. CASE t \notin left
    <3>1. PICK a \in done : asg[a] = t
      BY <1>5, <2>5 DEF Summary, TasksOf
    <3>2. a \in Agent /\ t \in finished_tasks'[a]
      BY <3>1 DEF Summary
    <3>3. lifecycle'[t] = [phase |-> "finished", agent |-> a]
      BY <1>1, <1>3, <3>2, StatusFacts
    <3>4. lifecycle[t].phase = "opened" => lifecycle[t].agent = a
      BY <2>2, <2>3, <3>1, <3>2 DEF Summary
    <3> QED
      BY <2>1, <3>3, <3>4
  <2> QED
    BY <2>4, <2>5
<1>6. CASE t \notin DOMAIN ongoing_tasks /\ \A a \in Agent : t \notin finished_tasks[a]
  <2>1. lifecycle[t] = [phase |-> "unrevealed", agent |-> None]
    BY <1>1, <1>2, <1>6, StatusFacts
  <2>2. \A a \in Agent : t \notin finished_tasks'[a]
    BY <1>6 DEF Summary
  <2>3. CASE t \in DOMAIN ongoing_tasks'
    <3>1. ongoing_tasks'[t] = NewTask(time)
      BY <1>6, <2>3 DEF Summary
    <3>2. lifecycle'[t].phase = "waiting"
      BY <1>1, <1>3, <2>3, <3>1, StatusFacts DEF NewTask
    <3> QED
      BY <2>1, <3>2
  <2>4. CASE t \notin DOMAIN ongoing_tasks'
    <3>1. lifecycle'[t] = [phase |-> "unrevealed", agent |-> None]
      BY <1>1, <1>3, <2>2, <2>4, StatusFacts
    <3> QED
      BY <2>1, <3>1
  <2> QED
    BY <2>3, <2>4
<1> QED
  BY <1>4, <1>5, <1>6

\* At the start a task is unrevealed or waits.
LEMMA LifecycleInit == Init => Lifecycle!Init
<1> SUFFICES ASSUME Init PROVE Lifecycle!Init
  OBVIOUS
<1>1. IInv
  BY InitIInv
<1>2. ASSUME NEW t \in TaskId
      PROVE  lifecycle[t].phase \in {"unrevealed", "waiting"}
  <2>1. \A a \in Agent : t \notin finished_tasks[a]
    BY DEF Init
  <2>2. CASE t \in DOMAIN ongoing_tasks
    <3>1. ongoing_tasks[t].agent_assigned = None
      BY <2>2 DEF Init, NewTask
    <3> QED
      BY <1>1, <2>2, <3>1, InvForStatus, StatusFacts
  <2>3. CASE t \notin DOMAIN ongoing_tasks
    BY <1>1, <2>1, <2>3, InvForStatus, StatusFacts
  <2> QED
    BY <2>2, <2>3
<1> QED
  BY <1>1, <1>2, LifecycleTyped DEF Lifecycle!Init

LEMMA LifecycleStep == IInv /\ IInv' /\ [Next]_vars => [Lifecycle!Next]_lifecycle
<1>1. ASSUME IInv, IInv', Next PROVE Lifecycle!Next
  <2>1. PICK time \in curr_timestep + 1 .. SimulationTime, s \in States, assignment \in Schedules :
          update_tasks(s, assignment, time)
    BY <1>1 DEF Next, UpdateTasks
  <2>2. PICK asg, pool, done, left : Summary(assignment, asg, pool, done, left, time)
    BY <1>1, <2>1, UpdateSummary
  <2>3. \A t \in TaskId : Lifecycle!Evolves(lifecycle[t], lifecycle'[t])
    BY <1>1, <2>2, TaskEvolves
  <2>4. (lifecycle \in [TaskId -> Lifecycle!Status]
           /\ (\A t \in TaskId : Lifecycle!WellFormed(lifecycle[t]))
           /\ Lifecycle!OneTaskPerAgent(lifecycle))'
    BY <1>1, LifecycleTyped, PTL
  <2> QED
    BY <2>3, <2>4 DEF Lifecycle!Next
<1>2. UNCHANGED vars => UNCHANGED lifecycle
  BY DEF vars, lifecycle
<1> QED
  BY <1>1, <1>2

\* The task manager implements TaskLifecycle under the mapping lifecycle.
THEOREM LifecycleImplemented == Spec => LifecycleSpec
<1>1. Init => Lifecycle!Init
  BY LifecycleInit
<1>2. IInv /\ IInv' /\ [Next]_vars => [Lifecycle!Next]_lifecycle
  BY LifecycleStep
<1> QED
  BY <1>1, <1>2, Invariance, PTL DEF Spec, LifecycleSpec, Lifecycle!Spec

-----------------------------------------------------------------------------
(* A schedule that repeats the assignment, as within a commit window.      *)

\* The assignment is itself a schedule of revealed tasks.
LEMMA AssignmentIsSchedule ==
  ASSUME IInv
  PROVE  current_assignment \in Schedules
<1>1. task_id \in Nat /\ DOMAIN ongoing_tasks \subseteq 0 .. task_id - 1
  BY DEF IInv, TypeOK, EveryTaskAccounted
<1>2. current_assignment \in [Agent -> Nat \cup {None}]
        /\ \A a \in Agent : current_assignment[a] # None => current_assignment[a] \in DOMAIN ongoing_tasks
  BY DEF IInv, TypeOK, PoolInv, Agree
<1> QED
  BY <1>1, <1>2 DEF Schedules

\* It is never refused, and every agent keeps its task or finishes it.
LEMMA RepeatedSchedule ==
  ASSUME IInv, NEW time \in curr_timestep + 1 .. SimulationTime, NEW s \in States,
         update_tasks(s, current_assignment, time)
  PROVE  /\ schedule_errors' = schedule_errors
         /\ \A a \in Agent : \/ current_assignment'[a] = current_assignment[a]
                             \/ current_assignment[a] \in finished_tasks'[a]
<1>1. PICK asg, pool, done, left : Summary(current_assignment, asg, pool, done, left, time)
  BY AssignmentIsSchedule, UpdateSummary
<1>2. asg = current_assignment
  BY <1>1 DEF Summary, AssignmentSet
<1>3. validate_task_assignment(current_assignment)
  <2>1. Agree(ongoing_tasks, current_assignment) /\ DOMAIN current_assignment = Agent
    BY DEF IInv, PoolInv, TypeOK
  <2>2. Scheduled(current_assignment) \subseteq DOMAIN ongoing_tasks
    BY <2>1 DEF Scheduled, Agree
  <2> QED
    BY <2>1, <2>2 DEF validate_task_assignment, Agree
<1>4. schedule_errors' = schedule_errors
  BY <1>3 DEF update_tasks
<1>5. ASSUME NEW a \in Agent
      PROVE  \/ current_assignment'[a] = current_assignment[a]
             \/ current_assignment[a] \in finished_tasks'[a]
  BY <1>1, <1>2 DEF Summary, Released
<1> QED
  BY <1>4, <1>5

-----------------------------------------------------------------------------
(* The errands that are done.                                              *)

\* After a call no agent stands in the cell of its task's next errand, but where the errand
\* that it has just done was in that cell too.
LEMMA ArrivalsDone ==
  ASSUME IInv, NEW time \in curr_timestep + 1 .. SimulationTime, NEW s \in States,
         NEW assignment \in Schedules, update_tasks(s, assignment, time),
         NEW a \in Agent, current_assignment'[a] # None,
         Errands(current_assignment'[a])[ongoing_tasks'[current_assignment'[a]].idx_next_loc + 1] = s[a]
  PROVE  /\ ongoing_tasks'[current_assignment'[a]].idx_next_loc > 0
         /\ Errands(current_assignment'[a])[ongoing_tasks'[current_assignment'[a]].idx_next_loc] = s[a]
<1> DEFINE asg     == AssignmentSet(assignment)
           pool    == PoolSet(assignment, time)
           arrived == Arrived(pool, asg, s)
           done    == Finishing(pool, asg, arrived)
           moved   == TasksOf(asg, arrived)
           after   == PoolAdvanced(pool, moved, time)
           left    == DOMAIN pool \ TasksOf(asg, done)
           t       == asg[a]
<1>1. /\ current_assignment' = Released(asg, done)
      /\ ongoing_tasks' = PoolRefilled(after, left, time)
  BY DEF update_tasks
<1>2. time \in Nat /\ curr_timestep \in Nat /\ task_id \in Nat /\ curr_timestep <= time
  BY SimulationTimeAssumption DEF IInv, TypeOK
<1>3. /\ PoolInv(pool, asg, time)
      /\ DOMAIN pool = DOMAIN ongoing_tasks
      /\ \A id \in DOMAIN ongoing_tasks : pool[id].idx_next_loc = ongoing_tasks[id].idx_next_loc
  BY <1>2, SetStep DEF IInv
<1>4. a \notin done /\ t # None /\ current_assignment'[a] = t
  BY <1>1 DEF Released
<1>5. /\ \A b, c \in Agent : asg[b] = asg[c] /\ asg[b] # None => b = c
      /\ t \in DOMAIN pool
  BY <1>3, <1>4 DEF PoolInv, Agree
<1>6. pool[t].idx_next_loc \in Nat /\ pool[t] \in TaskRecord
  BY <1>3, <1>5 DEF PoolInv, PoolTyped, TaskRecord
<1>7. done \subseteq Agent /\ arrived \subseteq Agent
  BY DEF Finishing, Arrived
<1>8. t \in left
  BY <1>4, <1>5, <1>7 DEF TasksOf
<1>9. ongoing_tasks'[t] = after[t] /\ after[t] = IF t \in moved THEN Advanced(pool[t], time) ELSE pool[t]
  BY <1>1, <1>5, <1>8 DEF PoolRefilled, PoolAdvanced
<1>10. t \in moved <=> a \in arrived
  BY <1>4, <1>5, <1>7 DEF TasksOf
<1>11. a \in arrived <=> s[a] = Errands(t)[pool[t].idx_next_loc + 1]
  BY <1>4 DEF Arrived, get_next_loc
<1> HIDE DEF asg, pool, arrived, done, moved, after, left, t
<1>12. CASE a \in arrived
  <2>1. ongoing_tasks'[t].idx_next_loc = pool[t].idx_next_loc + 1
    BY <1>6, <1>9, <1>10, <1>12 DEF Advanced, TaskRecord
  <2> QED
    BY <1>4, <1>6, <1>11, <1>12, <2>1
<1>13. CASE a \notin arrived
  BY <1>4, <1>9, <1>10, <1>11, <1>13
<1> QED
  BY <1>12, <1>13

=============================================================================
