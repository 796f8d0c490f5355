--------------------------- MODULE PlannerProofs ---------------------------
(***************************************************************************)
(* Proofs about what is done with paths and flows on the map: by the       *)
(* planner, for every map, team, sequence of goals and deadline, and by    *)
(* the flow schedulers, for every load of tasks and traffic.               *)
(*                                                                         *)
(* Priorities never meet: what is added to an agent's first priority, a    *)
(* fraction of 1, is whole. So the order in which the agents were sorted   *)
(* is strict, and adding the same to all that keep waiting keeps it.       *)
(*                                                                         *)
(* The planner's flow counts the guide paths of all agents but the one     *)
(* that is being searched for. Removing and adding a path change the sums  *)
(* by one path, whoever calls them and wherever the deadline ends the      *)
(* loop.                                                                   *)
(*                                                                         *)
(* A distance table tells the cells how they lie to a path, or to a goal,  *)
(* which is a path without a step.  Whoever stops the search that fills it *)
(* and whoever takes it up again: what it tells is right, the queue is in  *)
(* the order of the distances, and a cell that is not queued has told its  *)
(* neighbours.  So the table may be asked for any cell at any time, and    *)
(* nothing it has told is ever taken back.  What is asked is told, if it   *)
(* is connected: every round of the loop finishes a cell.  So PIBT finds   *)
(* the cells around an agent in the table of its path, and one of them is  *)
(* nearer to the goal.                                                     *)
(*                                                                         *)
(* A* keeps its promise by the usual argument, with what the code adds to  *)
(* it: the traffic makes no move cheaper, so the guess, which no move      *)
(* improves by more than one, stays consistent. Closed nodes have told     *)
(* their neighbours and are never dearer in total than open ones, so none  *)
(* is improved; when the goal comes first, any way to it still passes an   *)
(* open node, or has been told along.                                      *)
(*                                                                         *)
(* The schedulers' flow that is left over balances in every cell with the  *)
(* workers who still wait there and the tasks taken there. So nobody finds *)
(* himself without flow to follow, and what the workers have walked and    *)
(* what is left over cost no more together than any matching.              *)
(***************************************************************************)
EXTENDS Planner, FlowPaths, Lemmas, SequenceTheorems

\* The agents and their first priorities.
Numbered ==
  /\ p_copy \in [Agent -> 1 .. NumAgents]
  /\ \A a, b \in Agent : p_copy[a] = p_copy[b] => a = b
  /\ ids \in Bijection(1 .. NumAgents, Agent)

\* The priority of a is its first one and a number of whole ones.
Above(a) == \E m \in Nat : p[a] = p_copy[a] + m * One

\* The agents are sorted since Sort, and plan and plan_pibt disturb that order as KeepPlace says.
Sorted ==
  \A j, k \in 1 .. NumAgents : j < k => p[ids[j]] > p[ids[k]]

Kept ==
  \A j, k \in 1 .. NumAgents :
    (/\ j < k
     /\ goal_locations[ids[j]] # NoGoals
     /\ ~ require_guide_path[ids[j]]
     /\ \A b \in Agent : ~ Dead(curr_states[b]))
    => p[ids[j]] > p[ids[k]]

IInv ==
  /\ Numbered
  /\ p \in [Agent -> Nat] /\ \A a \in Agent : Above(a)
  /\ stage \in {"idle", "initial", "refine", "sort", "planned", "exited"}
  /\ stage \in {"idle", "planned"} => Sorted
  /\ stage \in {"initial", "refine", "sort"} => Kept

-----------------------------------------------------------------------------
\* NumAgents is a number, and the ids name agents.
LEMMA Agents ==
  ASSUME ids \in Bijection(1 .. NumAgents, Agent)
  PROVE  /\ NumAgents \in Nat \ {0} /\ One = NumAgents + 1 /\ One \in Nat \ {0}
         /\ \A j \in 1 .. NumAgents : ids[j] \in Agent
         /\ \A j, k \in 1 .. NumAgents : ids[j] = ids[k] => j = k
  BY TeamAssumption DEF One, Bijection, Injection, IsInjective

\* Whole ones add up.
LEMMA Multiples ==
  ASSUME NEW x \in Nat, NEW m \in Nat, NEW n \in Nat, NEW o \in Nat
  PROVE  (x + m * o) + n * o = x + (m + n) * o
<1> DEFINE M == m * o
           N == n * o
<1>1. M \in Nat /\ N \in Nat
  OBVIOUS
<1>2. (m + n) * o = M + N
  OBVIOUS
<1> HIDE DEF M, N
<1>3. (x + M) + N = x + (M + N)
  BY <1>1
<1> QED
  BY <1>2, <1>3 DEF M, N

\* Priorities of two agents are never equal.
LEMMA Distinct ==
  ASSUME Numbered, \A a \in Agent : Above(a), NEW a \in Agent, NEW b \in Agent, p[a] = p[b]
  PROVE  a = b
<1>1. NumAgents \in Nat \ {0} /\ One = NumAgents + 1 /\ One \in Nat
  BY Agents DEF Numbered
<1>2. /\ p_copy[a] \in 1 .. NumAgents /\ p_copy[b] \in 1 .. NumAgents
      /\ p_copy[a] = p_copy[b] => a = b
  BY DEF Numbered
<1>3. PICK m \in Nat : p[a] = p_copy[a] + m * One
  BY DEF Above
<1>4. PICK n \in Nat : p[b] = p_copy[b] + n * One
  BY DEF Above
<1>5. ASSUME NEW x \in Nat, NEW y \in Nat, x < y
      PROVE  x * One + One <= y * One
  <2>1. PICK d \in Nat : y = x + 1 + d
    <3>1. y - x - 1 \in Nat /\ y = x + 1 + (y - x - 1)
      BY <1>5
    <3> QED
      BY <3>1
  <2>2. y * One = x * One + One + d * One
    BY <1>1, <2>1
  <2>3. d * One \in Nat /\ x * One \in Nat
    BY <1>1
  <2> QED
    BY <1>1, <2>2, <2>3
<1> DEFINE M == m * One
           N == n * One
<1>6. M \in Nat /\ N \in Nat
  BY <1>1
<1>7. M = N \/ M + One <= N \/ N + One <= M
  <2>1. m < n \/ n < m \/ m = n
    OBVIOUS
  <2> QED
    BY <1>5, <2>1
<1>8. p[a] = p_copy[a] + M /\ p[b] = p_copy[b] + N
  BY <1>3, <1>4
<1> HIDE DEF M, N
<1>9. M = N
  <2>1. p_copy[a] + M = p_copy[b] + N
    BY <1>8
  <2> QED
    BY <1>1, <1>2, <1>6, <1>7, <2>1
<1> QED
  <2>1. p_copy[a] + M = p_copy[b] + M
    BY <1>8, <1>9
  <2> QED
    BY <1>2, <1>6, <2>1

\* What the loop over the agents does to the priorities, in plan and in plan_pibt.
LEMMA LoopKeeps ==
  ASSUME IInv, stage = "idle", UNCHANGED << p_copy, ids, curr_states >>,
         stage' \in {"initial", "sort"},
         NEW goals, NEW anew,
         p' = [a \in Agent |-> Waited(a, goals, anew)],
         \A a \in Agent : goal_locations'[a] = goals[a],
         \A a \in Agent : anew[a] => require_guide_path'[a]
  PROVE  IInv'
<1> DEFINE Bonus(a) == IF goals[a] # NoGoals /\ Dead(curr_states[a]) THEN 10 * One ELSE 0
           Base(a)  == IF goals[a] = NoGoals \/ anew[a] THEN p_copy[a] ELSE p[a] + One
<1>1. /\ NumAgents \in Nat \ {0} /\ One = NumAgents + 1 /\ One \in Nat \ {0}
      /\ \A j \in 1 .. NumAgents : ids[j] \in Agent
  BY Agents DEF IInv, Numbered
<1>2. /\ p_copy \in [Agent -> 1 .. NumAgents] /\ p \in [Agent -> Nat]
      /\ \A a \in Agent : Above(a)
  BY DEF IInv, Numbered
<1>3. \A a \in Agent : p'[a] = Base(a) + Bonus(a)
  BY DEF Waited
<1>4. ASSUME NEW a \in Agent
      PROVE  p'[a] \in Nat /\ \E m \in Nat : p'[a] = p_copy[a] + m * One
  <2>1. PICK m \in Nat : p[a] = p_copy[a] + m * One
    BY <1>2 DEF Above
  <2>2. PICK n \in Nat : Base(a) = p_copy[a] + n * One
    <3>1. p_copy[a] \in Nat /\ p[a] \in Nat
      BY <1>1, <1>2
    <3>2. CASE goals[a] = NoGoals \/ anew[a]
      BY <1>1, <3>1, <3>2
    <3>3. CASE ~ (goals[a] = NoGoals \/ anew[a])
      <4>1. p[a] + One = p_copy[a] + (m + 1) * One
        BY <1>1, <2>1, <3>1
      <4> QED
        BY <2>1, <3>3, <4>1
    <3> QED
      BY <3>2, <3>3
  <2>3. PICK k \in Nat : Bonus(a) = k * One
    <3>1. Bonus(a) = 10 * One \/ Bonus(a) = 0 * One
      BY <1>1
    <3> HIDE DEF Bonus
    <3> QED
      BY <3>1
  <2>4. p'[a] = p_copy[a] + (n + k) * One
    <3>1. p_copy[a] \in Nat
      BY <1>1, <1>2
    <3>2. (p_copy[a] + n * One) + k * One = p_copy[a] + (n + k) * One
      BY <1>1, <3>1, Multiples
    <3> HIDE DEF Base, Bonus
    <3> QED
      BY <1>3, <2>2, <2>3, <3>2
  <2>5. n + k \in Nat /\ p_copy[a] \in Nat /\ (n + k) * One \in Nat
    BY <1>1, <1>2
  <2>6. \E i \in Nat : p'[a] = p_copy[a] + i * One
    <3> DEFINE i == n + k
    <3>1. i \in Nat /\ p'[a] = p_copy[a] + i * One
      BY <2>4, <2>5
    <3> HIDE DEF i
    <3> QED
      BY <3>1
  <2> HIDE DEF Bonus, Base
  <2> QED
    BY <2>4, <2>5, <2>6
<1>5. Kept'
  <2> SUFFICES ASSUME NEW j \in 1 .. NumAgents, NEW k \in 1 .. NumAgents, j < k,
                      goals[ids[j]] # NoGoals, ~ anew[ids[j]],
                      \A b \in Agent : ~ Dead(curr_states[b])
               PROVE  p'[ids[j]] > p'[ids[k]]
    BY <1>1 DEF Kept
  <2>1. /\ ids[j] \in Agent /\ ids[k] \in Agent /\ p[ids[j]] \in Nat /\ p[ids[k]] \in Nat
        /\ p_copy[ids[k]] \in 1 .. NumAgents
    BY <1>1, <1>2
  <2>2. p[ids[j]] > p[ids[k]]
    BY DEF IInv, Sorted
  <2>3. p'[ids[j]] = p[ids[j]] + One
    BY <1>1, <1>3, <2>1
  <2>4. p'[ids[k]] = p_copy[ids[k]] \/ p'[ids[k]] = p[ids[k]] + One
    BY <1>1, <1>3, <2>1
  <2> QED
    BY <1>1, <2>1, <2>2, <2>3, <2>4
<1>6. p' \in [Agent -> Nat] /\ \A a \in Agent : Above(a)'
  BY <1>4 DEF Above, One
<1> QED
  BY <1>5, <1>6 DEF IInv, Numbered

-----------------------------------------------------------------------------
\* First come, first served: an agent on its way to a goal is sorted before all it was sorted
\* before, in plan and in plan_pibt, unless an agent gets out of a dead end.
THEOREM PlaceKept == Spec => []KeepPlace
<1>1. Init => IInv
  <2> SUFFICES ASSUME Init PROVE IInv
    OBVIOUS
  <2>1. ids \in Bijection(1 .. NumAgents, Agent)
    BY PrioritiesAssumption DEF Init
  <2>2. /\ NumAgents \in Nat \ {0} /\ One \in Nat /\ \A j \in 1 .. NumAgents : ids[j] \in Agent
        /\ \A j, k \in 1 .. NumAgents : ids[j] = ids[k] => j = k
        /\ \A a \in Agent : \E j \in 1 .. NumAgents : ids[j] = a
    BY <2>1, Agents DEF Bijection, Surjection
  <2>3. p = p_copy /\ stage = "idle"
          /\ p_copy = [a \in Agent |-> NumAgents + 1 - CHOOSE k \in 1 .. NumAgents : ids[k] = a]
    BY DEF Init
  <2>4. \A j \in 1 .. NumAgents : p_copy[ids[j]] = NumAgents + 1 - j
    <3> SUFFICES ASSUME NEW j \in 1 .. NumAgents
                 PROVE  p_copy[ids[j]] = NumAgents + 1 - j
      OBVIOUS
    <3>1. (CHOOSE k \in 1 .. NumAgents : ids[k] = ids[j]) = j
      BY <2>2
    <3> QED
      BY <2>2, <2>3, <3>1
  <2>5. p_copy \in [Agent -> 1 .. NumAgents]
    <3>1. ASSUME NEW a \in Agent PROVE p_copy[a] \in 1 .. NumAgents
      <4>1. PICK j \in 1 .. NumAgents : ids[j] = a
        BY <2>2
      <4> QED
        BY <2>2, <2>4, <4>1
    <3> QED
      BY <2>3, <3>1
  <2>6. ASSUME NEW a \in Agent, NEW b \in Agent, p_copy[a] = p_copy[b]
        PROVE  a = b
    <3>1. PICK j \in 1 .. NumAgents : ids[j] = a
      BY <2>2
    <3>2. PICK k \in 1 .. NumAgents : ids[k] = b
      BY <2>2
    <3>3. NumAgents + 1 - j = NumAgents + 1 - k
      BY <2>4, <2>6, <3>1, <3>2
    <3> QED
      BY <2>2, <3>1, <3>2, <3>3
  <2>7. \A a \in Agent : p[a] \in Nat /\ p[a] = p_copy[a] + 0 * One
    BY <2>2, <2>3, <2>5
  <2>8. Sorted
    BY <2>2, <2>3, <2>4 DEF Sorted
  <2> QED
    BY <2>1, <2>3, <2>5, <2>6, <2>7, <2>8 DEF IInv, Numbered, Above
<1>2. IInv /\ [Next]_vars => IInv'
  <2> SUFFICES ASSUME IInv, [Next]_vars
               PROVE  IInv'
    OBVIOUS
  <2>1. CASE plan
    <3>1. p' = [a \in Agent |-> Waited(a, goal_locations', require_guide_path')]
            /\ stage = "idle" /\ stage' = "initial" /\ UNCHANGED << p_copy, ids, curr_states >>
      BY <2>1 DEF plan, env
    <3> QED
      BY <3>1, LoopKeeps
  <2>2. CASE plan_pibt
    <3>1. p' = [a \in Agent |-> Waited(a, goal_locations', [b \in Agent |-> FALSE])]
            /\ stage = "idle" /\ stage' = "sort" /\ UNCHANGED << p_copy, ids, curr_states >>
      BY <2>2 DEF plan_pibt, env
    <3> QED
      BY <3>1, LoopKeeps
  <2>3. CASE Sort
    <3>1. /\ ids' \in Bijection(1 .. NumAgents, Agent)
          /\ \A j, k \in 1 .. NumAgents : p[ids'[j]] > p[ids'[k]] => j < k
          /\ stage' = "planned" /\ UNCHANGED << p, p_copy >>
      BY <2>3 DEF Sort, input
    <3>2. \A j \in 1 .. NumAgents : ids'[j] \in Agent
      BY <3>1 DEF Bijection, Injection
    <3>3. \A j, k \in 1 .. NumAgents : ids'[j] = ids'[k] => j = k
      BY <3>1 DEF Bijection, Injection, IsInjective
    <3>4. NumAgents \in Nat /\ Numbered /\ p \in [Agent -> Nat] /\ \A a \in Agent : Above(a)
      BY Agents DEF IInv, Numbered
    <3>5. Sorted'
      <4> SUFFICES ASSUME NEW j \in 1 .. NumAgents, NEW k \in 1 .. NumAgents, j < k
                   PROVE  p[ids'[j]] > p[ids'[k]]
        BY <3>1 DEF Sorted
      <4>1. p[ids'[j]] # p[ids'[k]]
        BY <3>2, <3>3, <3>4, Distinct
      <4>2. ~ p[ids'[k]] > p[ids'[j]]
        BY <3>1, <3>4
      <4> QED
        BY <3>2, <3>4, <4>1, <4>2
    <3> QED
      BY <3>1, <3>4, <3>5 DEF IInv, Numbered, Above, One
  <2>4. CASE get_h \/ InitialPath \/ StartRefinement \/ frank_wolfe \/ Search \/ Found \/ Stop
    <3>1. /\ UNCHANGED << p, p_copy, ids, goal_locations, require_guide_path, curr_states >>
          /\ \/ stage' = stage
             \/ stage \in {"initial", "refine"} /\ stage' \in {"refine", "sort"}
             \/ stage' = "exited"
      <4>1. CASE get_h
        BY <4>1 DEF get_h, input, env
      <4>2. CASE InitialPath
        BY <4>2 DEF InitialPath, input, env
      <4>3. CASE StartRefinement
        BY <4>3 DEF StartRefinement, input, env
      <4>4. CASE frank_wolfe
        BY <4>4 DEF frank_wolfe, input, env
      <4>5. CASE Search
        BY <4>5 DEF Search, input, env
      <4>6. CASE Found
        BY <4>6 DEF Found, input, env
      <4>7. CASE Stop
        BY <4>7 DEF Stop, input, env
      <4> QED
        BY <2>4, <4>1, <4>2, <4>3, <4>4, <4>5, <4>6, <4>7
    <3>2. Numbered' /\ (\A a \in Agent : Above(a))'
      BY <3>1 DEF IInv, Numbered, Above, One
    <3>3. Sorted => Sorted'
      BY <3>1 DEF Sorted
    <3>4. Kept => Kept'
      BY <3>1 DEF Kept, Dead
    <3> QED
      BY <3>1, <3>2, <3>3, <3>4 DEF IInv
  <2>5. CASE Execute
    <3>1. UNCHANGED << p, p_copy, ids >> /\ stage = "planned" /\ stage' = "idle"
      BY <2>5 DEF Execute
    <3> QED
      BY <3>1 DEF IInv, Numbered, Above, One, Sorted
  <2>6. CASE UNCHANGED vars
    <3>1. UNCHANGED << p, p_copy, ids, stage, goal_locations, require_guide_path, curr_states >>
      BY <2>6 DEF vars, input, env
    <3> QED
      BY <3>1 DEF IInv, Numbered, Above, One, Sorted, Kept, Dead
  <2> QED
    BY <2>1, <2>2, <2>3, <2>4, <2>5, <2>6 DEF Next
<1>3. IInv => KeepPlace
  BY DEF IInv, Kept, KeepPlace
<1> QED
  BY <1>1, <1>2, <1>3, PTL DEF Spec

-----------------------------------------------------------------------------
(* The traffic.                                                            *)

\* How often a path goes on from a cell in a direction.
Along(path, c, d) ==
  Cardinality({k \in 1 .. Length(path) : path[k] = c /\ get_d(path[k + 1] - c) = d})

Lengths(ts)    == [a \in Agent |-> Length(ts[a])]
Uses(ts, c, d) == [a \in Agent |-> Along(ts[a], c, d)]
Counted(s)     == {a \in Agent : a # s}

\* The paths ts of all agents but s are in the flow.
Balanced(so, fl, ts, s) ==
  /\ so = SumOn(Lengths(ts), Counted(s))
  /\ \A c \in Free, d \in 0 .. 3 : fl[c][d] = SumOn(Uses(ts, c, d), Counted(s))

Walks(ts) == DOMAIN ts = Agent /\ \A a \in Agent : Len(ts[a]) \in Nat

\* What the search hands over is a path of as many steps as its last node says.
Depths == \A c \in DOMAIN nodes : "g" \in DOMAIN nodes[c] /\ nodes[c].g \in Nat

TrafficInv ==
  /\ searching \in Agent \cup {None}
  /\ count \in Nat
  /\ replan_order \in [1 .. NumAgents -> Agent]
  /\ Walks(trajs)
  /\ Depths
  /\ Balanced(soc, flow, trajs, searching)

-----------------------------------------------------------------------------
LEMMA BalancedIsFlowBalances == FlowBalances <=> Balanced(soc, flow, trajs, searching)
  BY DEF FlowBalances, Balanced, SumOn, Lengths, Uses, Along, Counted

LEMMA AgentsFinite == IsFiniteSet(Agent) /\ None \notin Agent /\ Counted(None) = Agent
<1>1. 0 \in Int /\ NumAgents - 1 \in Int
  BY TeamAssumption
<1> QED
  BY <1>1, FS_Interval DEF Agent, None, Counted

LEMMA SameSteps ==
  ASSUME NEW path, Len(path) \in Nat
  PROVE  Length(path) \in Int /\ 1 .. Length(path) = 1 .. Len(path) - 1
<1>1. CASE path = << >>
  <2>1. Len(path) = 0 /\ Length(path) = 0
    BY <1>1 DEF Length, NoPath
  <2> QED
    BY <2>1
<1>2. CASE path # << >>
  BY <1>2 DEF Length, NoPath
<1> QED
  BY <1>1, <1>2

LEMMA PathCounts ==
  ASSUME NEW path, Len(path) \in Nat, NEW c, NEW d
  PROVE  Length(path) \in Int /\ Along(path, c, d) \in Nat
<1> DEFINE n == Length(path)
           I == 1 .. n
           H == {k \in I : path[k] = c /\ get_d(path[k + 1] - c) = d}
<1>1. n \in Int
  BY SameSteps
<1>2. IsFiniteSet(I)
  <2>1. 1 \in Int /\ n \in Int
    BY <1>1
  <2> HIDE DEF n
  <2> QED
    BY <2>1, FS_Interval
<1>3. Cardinality(H) \in Nat
  <2>1. H \subseteq I
    OBVIOUS
  <2> HIDE DEF H, I
  <2> QED
    BY <1>2, <2>1, FS_Subset, FS_CardinalityType
<1> QED
  BY <1>1, <1>3 DEF Along

LEMMA PathTypes ==
  ASSUME NEW path, Len(path) \in Nat
  PROVE  Length(path) \in Int /\ \A c, d : Along(path, c, d) \in Int
<1>1. ASSUME NEW c, NEW d PROVE Length(path) \in Int /\ Along(path, c, d) \in Nat
  BY PathCounts
<1> QED
  BY <1>1

\* The sum without an agent, when its path changes and when it does not.
LEMMA LeftOut ==
  ASSUME NEW a \in Agent, NEW h, NEW k,
         \A x \in Agent : h[x] \in Int /\ k[x] \in Int,
         \A x \in Agent : x # a => h[x] = k[x]
  PROVE  /\ SumOn(h, Agent) = h[a] + SumOn(h, Counted(a))
         /\ SumOn(k, Agent) = k[a] + SumOn(h, Counted(a))
         /\ SumOn(h, Counted(a)) \in Int
<1>1. Counted(a) = Agent \ {a}
  BY DEF Counted
<1>2. IsFiniteSet(Agent) /\ IsFiniteSet(Agent \ {a})
  BY AgentsFinite, FS_Subset
<1>3. SumOn(h, Agent) = h[a] + SumOn(h, Agent \ {a})
  BY <1>2, SumRemove
<1>4. SumOn(k, Agent) = k[a] + SumOn(k, Agent \ {a})
  BY <1>2, SumRemove
<1>5. SumOn(k, Agent \ {a}) = SumOn(h, Agent \ {a})
  BY <1>2, SumCongruent
<1>6. SumOn(h, Agent \ {a}) \in Int
  BY <1>2, SumType
<1> QED
  BY <1>1, <1>3, <1>4, <1>5, <1>6

\* The same of the lengths and the traffic, for two sets of paths that differ in that of a.
LEMMA OnePath ==
  ASSUME NEW ts, NEW us, Walks(ts), Walks(us), NEW a \in Agent,
         \A x \in Agent : x # a => ts[x] = us[x]
  PROVE  /\ SumOn(Lengths(ts), Agent) = Length(ts[a]) + SumOn(Lengths(ts), Counted(a))
         /\ SumOn(Lengths(us), Agent) = Length(us[a]) + SumOn(Lengths(ts), Counted(a))
         /\ SumOn(Lengths(ts), Counted(a)) \in Int /\ Length(ts[a]) \in Int /\ Length(us[a]) \in Int
         /\ \A c, d :
              /\ SumOn(Uses(ts, c, d), Agent) = Along(ts[a], c, d) + SumOn(Uses(ts, c, d), Counted(a))
              /\ SumOn(Uses(us, c, d), Agent) = Along(us[a], c, d) + SumOn(Uses(ts, c, d), Counted(a))
              /\ SumOn(Uses(ts, c, d), Counted(a)) \in Int
              /\ Along(ts[a], c, d) \in Int /\ Along(us[a], c, d) \in Int
<1>1. ASSUME NEW x \in Agent
      PROVE  /\ Length(ts[x]) \in Int /\ Length(us[x]) \in Int
             /\ \A c, d : Along(ts[x], c, d) \in Int /\ Along(us[x], c, d) \in Int
  <2>1. Len(ts[x]) \in Nat /\ Len(us[x]) \in Nat
    BY DEF Walks
  <2> QED
    BY <2>1, PathTypes
<1>2. /\ \A x \in Agent : Lengths(ts)[x] = Length(ts[x]) /\ Lengths(us)[x] = Length(us[x])
      /\ \A x \in Agent : x # a => Lengths(ts)[x] = Lengths(us)[x]
  BY DEF Lengths
<1>3. /\ SumOn(Lengths(ts), Agent) = Lengths(ts)[a] + SumOn(Lengths(ts), Counted(a))
      /\ SumOn(Lengths(us), Agent) = Lengths(us)[a] + SumOn(Lengths(ts), Counted(a))
      /\ SumOn(Lengths(ts), Counted(a)) \in Int
  BY <1>1, <1>2, LeftOut
<1>4. ASSUME NEW c, NEW d
      PROVE  /\ SumOn(Uses(ts, c, d), Agent) = Along(ts[a], c, d) + SumOn(Uses(ts, c, d), Counted(a))
             /\ SumOn(Uses(us, c, d), Agent) = Along(us[a], c, d) + SumOn(Uses(ts, c, d), Counted(a))
             /\ SumOn(Uses(ts, c, d), Counted(a)) \in Int
  <2> DEFINE h == Uses(ts, c, d)
             k == Uses(us, c, d)
  <2>1. /\ \A x \in Agent : h[x] = Along(ts[x], c, d) /\ k[x] = Along(us[x], c, d)
        /\ \A x \in Agent : x # a => h[x] = k[x]
    BY DEF Uses
  <2>2. \A x \in Agent : h[x] \in Int /\ k[x] \in Int
    BY <1>1, <2>1
  <2> HIDE DEF h, k
  <2>3. /\ SumOn(h, Agent) = h[a] + SumOn(h, Counted(a))
        /\ SumOn(k, Agent) = k[a] + SumOn(h, Counted(a))
        /\ SumOn(h, Counted(a)) \in Int
    BY <2>1, <2>2, LeftOut
  <2>4. h[a] = Along(ts[a], c, d) /\ k[a] = Along(us[a], c, d)
    BY <2>1
  <2> QED
    BY <2>3, <2>4 DEF h, k
<1> QED
  BY <1>1, <1>2, <1>3, <1>4

LEMMA OwnPath ==
  ASSUME NEW ts, Walks(ts), NEW a \in Agent
  PROVE  /\ SumOn(Lengths(ts), Agent) = Length(ts[a]) + SumOn(Lengths(ts), Counted(a))
         /\ SumOn(Lengths(ts), Counted(a)) \in Int /\ Length(ts[a]) \in Int
         /\ \A c, d :
              /\ SumOn(Uses(ts, c, d), Agent) = Along(ts[a], c, d) + SumOn(Uses(ts, c, d), Counted(a))
              /\ SumOn(Uses(ts, c, d), Counted(a)) \in Int
              /\ Along(ts[a], c, d) \in Int
<1>1. \A x \in Agent : Len(ts[x]) \in Nat
  BY DEF Walks
<1>2. \A h, k :
        /\ \A x \in Agent : h[x] \in Int /\ k[x] \in Int
        /\ \A x \in Agent : x # a => h[x] = k[x]
        => SumOn(h, Agent) = h[a] + SumOn(h, Counted(a)) /\ SumOn(h, Counted(a)) \in Int
  BY LeftOut
<1>3. \A h : (\A x \in Agent : h[x] \in Int)
             => SumOn(h, Agent) = h[a] + SumOn(h, Counted(a)) /\ SumOn(h, Counted(a)) \in Int
  BY <1>2
<1>4. /\ SumOn(Lengths(ts), Agent) = Length(ts[a]) + SumOn(Lengths(ts), Counted(a))
      /\ SumOn(Lengths(ts), Counted(a)) \in Int /\ Length(ts[a]) \in Int
  <2>1. \A x \in Agent : Lengths(ts)[x] = Length(ts[x]) /\ Lengths(ts)[x] \in Int
    BY <1>1, PathTypes DEF Lengths
  <2> QED
    BY <1>3, <2>1
<1>5. ASSUME NEW c, NEW d
      PROVE  /\ SumOn(Uses(ts, c, d), Agent) = Along(ts[a], c, d) + SumOn(Uses(ts, c, d), Counted(a))
             /\ SumOn(Uses(ts, c, d), Counted(a)) \in Int
             /\ Along(ts[a], c, d) \in Int
  <2>1. \A x \in Agent : Uses(ts, c, d)[x] = Along(ts[x], c, d) /\ Uses(ts, c, d)[x] \in Int
    BY <1>1, PathTypes DEF Uses
  <2> QED
    BY <1>3, <2>1
<1> QED
  BY <1>4, <1>5

\* What a path adds to the flow and takes from it.
LEMMA FlowChange ==
  ASSUME NEW path, Len(path) \in Nat, NEW c \in Free, NEW d \in 0 .. 3, flow[c][d] \in Int
  PROVE  /\ Added(path)[c][d] = flow[c][d] + Along(path, c, d)
         /\ Removed(path)[c][d] = flow[c][d] - Along(path, c, d)
<1> DEFINE N == Cardinality({k \in 1 .. Len(path) - 1 : path[k] = c /\ get_d(path[k + 1] - c) = d})
<1>1. Along(path, c, d) = N /\ N \in Nat
  <2>1. 1 .. Length(path) = 1 .. Len(path) - 1
    BY SameSteps
  <2>2. Along(path, c, d) \in Nat
    BY PathCounts, Zenon
  <2> QED
    BY <2>1, <2>2 DEF Along
<1>2. Added(path)[c][d] = flow[c][d] + 1 * N /\ Removed(path)[c][d] = flow[c][d] + (-1) * N
  BY DEF Added, Removed, AlongPath
<1> HIDE DEF N
<1> QED
  BY <1>1, <1>2

LEMMA FlowIsInt ==
  ASSUME NEW ts, NEW fl, NEW so, NEW s, Walks(ts), Balanced(so, fl, ts, s)
  PROVE  so \in Int /\ \A c \in Free, d \in 0 .. 3 : fl[c][d] \in Int
<1>1. IsFiniteSet(Counted(s)) /\ Counted(s) \subseteq Agent
  BY AgentsFinite, FS_Subset DEF Counted
<1>2. \A x \in Agent : Len(ts[x]) \in Nat
  BY DEF Walks
<1>3. SumOn(Lengths(ts), Counted(s)) \in Int
  <2>1. \A x \in Counted(s) : Lengths(ts)[x] \in Int
    BY <1>1, <1>2, PathTypes DEF Lengths
  <2> QED
    BY <1>1, <2>1, SumType
<1>4. ASSUME NEW c, NEW d PROVE SumOn(Uses(ts, c, d), Counted(s)) \in Int
  <2>1. \A x \in Counted(s) : Uses(ts, c, d)[x] \in Int
    BY <1>1, <1>2, PathTypes DEF Uses
  <2> QED
    BY <1>1, <2>1, SumType
<1> QED
  BY <1>3, <1>4 DEF Balanced

LEMMA TrajectoryWalks ==
  ASSUME NEW goal, nodes[goal].g \in Nat
  PROVE  Len(Trajectory(goal)) \in Nat
  BY DEF Trajectory

\* remove_traj: the agent's path leaves the flow.
LEMMA RemovedKeeps ==
  ASSUME Walks(trajs), Balanced(soc, flow, trajs, None), NEW a \in Agent
  PROVE  Balanced(soc - Length(trajs[a]), Removed(trajs[a]), trajs, a)
<1>1. Len(trajs[a]) \in Nat
  BY DEF Walks
<1>2. soc \in Int /\ \A c \in Free, d \in 0 .. 3 : flow[c][d] \in Int
  BY FlowIsInt, Zenon
<1>3. \A c \in Free, d \in 0 .. 3 : Removed(trajs[a])[c][d] = flow[c][d] - Along(trajs[a], c, d)
  BY <1>1, <1>2, FlowChange
<1>4. /\ soc = SumOn(Lengths(trajs), Agent)
      /\ \A c \in Free, d \in 0 .. 3 : flow[c][d] = SumOn(Uses(trajs, c, d), Agent)
  BY AgentsFinite DEF Balanced
<1>5. /\ SumOn(Lengths(trajs), Agent) = Length(trajs[a]) + SumOn(Lengths(trajs), Counted(a))
      /\ SumOn(Lengths(trajs), Counted(a)) \in Int /\ Length(trajs[a]) \in Int
      /\ \A c, d :
           /\ SumOn(Uses(trajs, c, d), Agent) = Along(trajs[a], c, d) + SumOn(Uses(trajs, c, d), Counted(a))
           /\ SumOn(Uses(trajs, c, d), Counted(a)) \in Int /\ Along(trajs[a], c, d) \in Int
  BY OwnPath
<1>6. soc - Length(trajs[a]) = SumOn(Lengths(trajs), Counted(a))
  BY <1>4, <1>5
<1>7. ASSUME NEW c \in Free, NEW d \in 0 .. 3
      PROVE  Removed(trajs[a])[c][d] = SumOn(Uses(trajs, c, d), Counted(a))
  BY <1>3, <1>4, <1>5
<1> QED
  BY <1>6, <1>7 DEF Balanced

LEMMA SearchForKeeps ==
  ASSUME TrafficInv, searching = None, NEW a \in Agent, SearchFor(a), UNCHANGED replan_order
  PROVE  TrafficInv'
<1>1. /\ searching' = a /\ UNCHANGED << trajs, count >>
      /\ flow' = Removed(trajs[a]) /\ soc' = soc - Length(trajs[a])
  BY DEF SearchFor, remove_traj
<1>2. Depths'
  <2>1. nodes' = [c \in {curr_states[a]} |->
                    Node(0, Heuristic(heuristics'[tasks[a]], tasks[a], curr_states[a]), 0, FALSE, None)]
    BY DEF SearchFor, StartSearch
  <2> QED
    BY <2>1 DEF Depths, Node
<1>3. Walks(trajs) /\ Balanced(soc, flow, trajs, None)
  BY DEF TrafficInv
<1>4. Balanced(soc', flow', trajs, a)
  <2>1. Balanced(soc - Length(trajs[a]), Removed(trajs[a]), trajs, a)
    BY <1>3, RemovedKeeps
  <2> QED
    BY <1>1, <2>1
<1> QED
  BY <1>1, <1>2, <1>4 DEF TrafficInv, Walks

\* A path for a is added that the flow does not have yet.
LEMMA AddedKeeps ==
  ASSUME NEW ts, NEW us, Walks(ts), Walks(us), NEW a \in Agent,
         \A x \in Agent : x # a => ts[x] = us[x],
         NEW so, NEW fl, NEW so2, NEW fl2, Balanced(so, fl, ts, a),
         so2 = so + Length(us[a]),
         \A c \in Free, d \in 0 .. 3 : fl2[c][d] = fl[c][d] + Along(us[a], c, d)
  PROVE  Balanced(so2, fl2, us, None)
<1>1. /\ SumOn(Lengths(us), Agent) = Length(us[a]) + SumOn(Lengths(ts), Counted(a))
      /\ SumOn(Lengths(ts), Counted(a)) \in Int /\ Length(us[a]) \in Int
      /\ \A c, d :
           /\ SumOn(Uses(us, c, d), Agent) = Along(us[a], c, d) + SumOn(Uses(ts, c, d), Counted(a))
           /\ SumOn(Uses(ts, c, d), Counted(a)) \in Int /\ Along(us[a], c, d) \in Int
  BY OnePath
<1>2. so2 = SumOn(Lengths(us), Agent)
  BY <1>1 DEF Balanced
<1>3. ASSUME NEW c \in Free, NEW d \in 0 .. 3
      PROVE  fl2[c][d] = SumOn(Uses(us, c, d), Agent)
  BY <1>1 DEF Balanced
<1> QED
  BY <1>2, <1>3, AgentsFinite DEF Balanced

LEMMA HandedOverKeeps ==
  ASSUME TrafficInv, searching = None, NEW a \in Agent, NEW path \in HandedOver(a),
         trajs' = [trajs EXCEPT ![a] = path],
         flow' = [c \in Free |-> [d \in 0 .. 3 |->
                    Removed(trajs[a])[c][d] + Added(path)[c][d] - flow[c][d]]],
         soc' = soc - Length(trajs[a]) + Length(path),
         count' \in Nat, UNCHANGED << nodes, searching, replan_order >>
  PROVE  TrafficInv'
<1>1. Len(path) \in Nat
  <2>1. path \in Seq(Free)
    BY GuidePathsAssumption DEF HandedOver
  <2> QED
    BY <2>1
<1>2. Walks(trajs) /\ Balanced(soc, flow, trajs, None)
  BY DEF TrafficInv
<1>3. Walks(trajs')
  BY <1>1, <1>2 DEF Walks
<1>4. \A x \in Agent : x # a => trajs[x] = trajs'[x]
  BY <1>2 DEF Walks
<1>5. trajs'[a] = path
  BY <1>2 DEF Walks
<1> DEFINE so == soc - Length(trajs[a])
           fl == Removed(trajs[a])
<1>6. Balanced(so, fl, trajs, a)
  BY <1>2, RemovedKeeps
<1>7. \A c \in Free, d \in 0 .. 3 : flow[c][d] \in Int /\ fl[c][d] \in Int
  <2>1. \A c \in Free, d \in 0 .. 3 : flow[c][d] \in Int
    BY <1>2, FlowIsInt, Zenon
  <2> HIDE DEF so, fl
  <2>2. \A c \in Free, d \in 0 .. 3 : fl[c][d] \in Int
    BY <1>2, <1>6, FlowIsInt, Zenon
  <2> QED
    BY <2>1, <2>2
<1>8. ASSUME NEW c \in Free, NEW d \in 0 .. 3
      PROVE  flow'[c][d] = fl[c][d] + Along(path, c, d)
  <2>1. Added(path)[c][d] = flow[c][d] + Along(path, c, d)
    BY <1>1, <1>7, FlowChange
  <2>2. Along(path, c, d) \in Int /\ flow[c][d] \in Int /\ fl[c][d] \in Int
    BY <1>1, <1>7, PathTypes
  <2>3. flow'[c][d] = fl[c][d] + Added(path)[c][d] - flow[c][d]
    OBVIOUS
  <2> HIDE DEF fl
  <2> QED
    BY <2>1, <2>2, <2>3
<1>9. soc' = so + Length(trajs'[a])
  BY <1>5
<1>10. \A c \in Free, d \in 0 .. 3 : flow'[c][d] = fl[c][d] + Along(trajs'[a], c, d)
  BY <1>5, <1>8
<1>11. Balanced(soc', flow', trajs', None)
  <2> HIDE DEF so, fl
  <2> DEFINE us == trajs'
             so2 == soc'
             fl2 == flow'
  <2>1. /\ Walks(us) /\ Balanced(so, fl, trajs, a) /\ so2 = so + Length(us[a])
        /\ \A x \in Agent : x # a => trajs[x] = us[x]
        /\ \A c \in Free, d \in 0 .. 3 : fl2[c][d] = fl[c][d] + Along(us[a], c, d)
    BY <1>3, <1>4, <1>6, <1>9, <1>10
  <2> HIDE DEF us, so2, fl2
  <2>2. Balanced(so2, fl2, us, None)
    BY <1>2, <2>1, AddedKeeps
  <2> QED
    BY <2>2 DEF us, so2, fl2
<1> QED
  BY <1>3, <1>11 DEF TrafficInv, Depths, Walks

LEMMA FoundKeeps ==
  ASSUME TrafficInv, Found
  PROVE  TrafficInv'
<1> DEFINE goal == tasks[searching]
           path == Trajectory(goal)
<1>1. /\ searching \in Agent /\ goal \in First /\ goal \in DOMAIN nodes
      /\ trajs' = [trajs EXCEPT ![searching] = path]
      /\ flow' = Added(path) /\ soc' = soc + Length(path)
      /\ nodes' = << >> /\ searching' = None /\ count' = count + 1 /\ UNCHANGED replan_order
  BY DEF Found, add_traj, TrafficInv, First, Open
<1>2. Len(path) \in Nat
  <2>1. nodes[goal].g \in Nat
    BY <1>1 DEF TrafficInv, Depths
  <2> QED
    BY <2>1, TrajectoryWalks
<1> HIDE DEF path, goal
<1>3. Walks(trajs) /\ Balanced(soc, flow, trajs, searching)
  BY DEF TrafficInv
<1>4. Walks(trajs') /\ (\A x \in Agent : x # searching => trajs[x] = trajs'[x]) /\ trajs'[searching] = path
  BY <1>1, <1>2, <1>3 DEF Walks
<1>5. \A c \in Free, d \in 0 .. 3 : flow[c][d] \in Int
  BY <1>3, FlowIsInt, Zenon
<1>6. \A c \in Free, d \in 0 .. 3 : flow'[c][d] = flow[c][d] + Along(trajs'[searching], c, d)
  <2>1. \A c \in Free, d \in 0 .. 3 : Added(path)[c][d] = flow[c][d] + Along(path, c, d)
    BY <1>2, <1>5, FlowChange
  <2> QED
    BY <1>1, <1>4, <2>1
<1>7. Balanced(soc', flow', trajs', None)
  <2> DEFINE us == trajs'
             so2 == soc'
             fl2 == flow'
  <2>1. /\ Walks(us) /\ so2 = soc + Length(us[searching])
        /\ \A x \in Agent : x # searching => trajs[x] = us[x]
        /\ \A c \in Free, d \in 0 .. 3 : fl2[c][d] = flow[c][d] + Along(us[searching], c, d)
    BY <1>1, <1>4, <1>6
  <2> HIDE DEF us, so2, fl2
  <2>2. Balanced(so2, fl2, us, None)
    BY <1>1, <1>3, <2>1, AddedKeeps
  <2> QED
    BY <2>2 DEF us, so2, fl2
<1>8. Depths'
  BY <1>1 DEF Depths
<1> QED
  BY <1>1, <1>4, <1>7, <1>8 DEF TrafficInv

LEMMA ExpandKeeps ==
  ASSUME Depths, NEW curr \in First, NEW goal, Expand(curr, goal)
  PROVE  Depths'
<1>1. curr \in DOMAIN nodes /\ "g" \in DOMAIN nodes[curr] /\ nodes[curr].g \in Nat
  BY DEF First, Open, Depths
<1>2. nodes' = [c \in DOMAIN nodes \cup Improved(curr, goal) |->
                  IF c \in Improved(curr, goal) THEN Reached(curr, c, goal)
                  ELSE IF c = curr THEN [nodes[c] EXCEPT !.closed = TRUE]
                  ELSE nodes[c]]
  BY DEF Expand
<1>3. \A c : "g" \in DOMAIN Reached(curr, c, goal) /\ Reached(curr, c, goal).g \in Nat
  BY <1>1 DEF Reached, Node
<1>4. "g" \in DOMAIN [nodes[curr] EXCEPT !.closed = TRUE] /\ [nodes[curr] EXCEPT !.closed = TRUE].g \in Nat
  BY <1>1
<1> SUFFICES ASSUME NEW c \in DOMAIN nodes'
             PROVE  "g" \in DOMAIN nodes'[c] /\ nodes'[c].g \in Nat
  BY DEF Depths
<1>5. CASE c \in Improved(curr, goal)
  BY <1>2, <1>3, <1>5
<1>6. CASE c \notin Improved(curr, goal) /\ c = curr
  BY <1>2, <1>4, <1>6
<1>7. CASE c \notin Improved(curr, goal) /\ c # curr
  BY <1>2, <1>7 DEF Depths
<1> QED
  BY <1>5, <1>6, <1>7

\* The steps that leave the paths alone.
LEMMA QuietKeeps ==
  ASSUME TrafficInv, UNCHANGED << trajs, flow, soc, searching >>, Depths',
         count' \in Nat, replan_order' \in [1 .. NumAgents -> Agent]
  PROVE  TrafficInv'
  BY DEF TrafficInv, Walks

LEMMA TrafficInit ==
  ASSUME Init
  PROVE  TrafficInv
<1> DEFINE len == Lengths(trajs)
<1>1. /\ flow = [c \in Free |-> [d \in 0 .. 3 |-> 0]] /\ trajs = [a \in Agent |-> NoPath] /\ soc = 0
      /\ nodes = << >> /\ count = 0 /\ searching = None /\ replan_order = ids
      /\ ids \in Bijection(1 .. NumAgents, Agent)
  BY PrioritiesAssumption DEF Init
<1>2. /\ \A a \in Agent : trajs[a] = << >> /\ Len(trajs[a]) = 0
      /\ Walks(trajs) /\ Depths /\ replan_order \in [1 .. NumAgents -> Agent]
  BY <1>1 DEF Walks, Depths, NoPath, Bijection, Injection
<1>3. IsFiniteSet(Agent) /\ Counted(None) = Agent
  BY AgentsFinite
<1>4. ASSUME NEW h, \A a \in Agent : h[a] = 0
      PROVE  SumOn(h, Agent) = 0
  <2>1. SumOn(h, Agent) = SumOn(h, Agent) + SumOn(h, Agent)
    <3>1. \A a \in Agent : h[a] \in Int /\ h[a] = h[a] + h[a]
      BY <1>4
    <3> QED
      BY <1>3, <3>1, SumPlus
  <2>2. SumOn(h, Agent) \in Int
    <3>1. \A a \in Agent : h[a] \in Int
      BY <1>4
    <3> QED
      BY <1>3, <3>1, SumType
  <2> QED
    BY <2>1, <2>2
<1>5. SumOn(Lengths(trajs), Agent) = 0
  <2>1. \A a \in Agent : Lengths(trajs)[a] = 0
    BY <1>2 DEF Lengths, Length, NoPath
  <2> QED
    BY <1>4, <2>1
<1>6. ASSUME NEW c \in Free, NEW d \in 0 .. 3
      PROVE  SumOn(Uses(trajs, c, d), Agent) = 0
  <2>1. Along(<< >>, c, d) = 0
    <3>1. Length(<< >>) = 0
      BY DEF Length, NoPath
    <3>2. {k \in 1 .. 0 : << >>[k] = c /\ get_d(<< >>[k + 1] - c) = d} = {}
      OBVIOUS
    <3> QED
      BY <3>1, <3>2, FS_EmptySet DEF Along
  <2>2. \A a \in Agent : Uses(trajs, c, d)[a] = 0
    BY <1>2, <2>1 DEF Uses
  <2> QED
    BY <1>4, <2>2
<1>7. Balanced(soc, flow, trajs, None)
  BY <1>1, <1>3, <1>5, <1>6 DEF Balanced
<1> QED
  BY <1>1, <1>2, <1>7 DEF TrafficInv

LEMMA TrafficNext ==
  ASSUME TrafficInv, [Next]_vars
  PROVE  TrafficInv'
<1>1. /\ count \in Nat /\ NumAgents \in Nat \ {0} /\ replan_order \in [1 .. NumAgents -> Agent]
      /\ Depths
  BY TeamAssumption DEF TrafficInv
<1>2. CASE InitialPath
  <2>1. searching = None /\ count \in Agent /\ UNCHANGED replan_order
    BY <1>1, <1>2 DEF InitialPath, Agent
  <2>2. CASE count' = count + 1 /\ UNCHANGED << paths, nodes, searching >>
    <3>1. UNCHANGED << trajs, flow, soc, searching, nodes >> /\ count' \in Nat
      BY <1>1, <2>2 DEF paths
    <3> QED
      BY <1>1, <2>1, <3>1, QuietKeeps DEF Depths
  <2>3. CASE SearchFor(count)
    BY <2>1, <2>3, SearchForKeeps
  <2>4. CASE /\ \E path \in HandedOver(count) :
                  /\ add_traj(count, path)
                  /\ flow' = [c \in Free |-> [d \in 0 .. 3 |->
                                Removed(trajs[count])[c][d] + Added(path)[c][d] - flow[c][d]]]
                  /\ soc' = soc - Length(trajs[count]) + Length(path)
             /\ count' = count + 1 /\ UNCHANGED << heuristics, nodes, searching >>
    <3>1. PICK path \in HandedOver(count) :
            /\ trajs' = [trajs EXCEPT ![count] = path]
            /\ flow' = [c \in Free |-> [d \in 0 .. 3 |->
                          Removed(trajs[count])[c][d] + Added(path)[c][d] - flow[c][d]]]
            /\ soc' = soc - Length(trajs[count]) + Length(path)
      BY <2>4 DEF add_traj
    <3>2. count' \in Nat /\ UNCHANGED << nodes, searching, replan_order >>
      BY <1>1, <2>1, <2>4
    <3> QED
      BY <2>1, <3>1, <3>2, HandedOverKeeps
  <2> QED
    BY <1>2, <2>2, <2>3, <2>4 DEF InitialPath
<1>3. CASE frank_wolfe
  <2> DEFINE a == replan_order[(count % NumAgents) + 1]
  <2>1. searching = None /\ a \in Agent /\ UNCHANGED replan_order
    <3>1. (count % NumAgents) + 1 \in 1 .. NumAgents
      BY <1>1
    <3> QED
      BY <1>1, <1>3, <3>1 DEF frank_wolfe
  <2>2. CASE trajs[a] = NoPath
    <3>1. UNCHANGED << trajs, flow, soc, searching, nodes >> /\ count' \in Nat
      BY <1>1, <1>3, <2>2 DEF frank_wolfe, paths
    <3> QED
      BY <1>1, <2>1, <3>1, QuietKeeps DEF Depths
  <2>3. CASE trajs[a] # NoPath
    <3>1. SearchFor(a)
      BY <1>3, <2>3 DEF frank_wolfe
    <3> HIDE DEF a
    <3> QED
      BY <2>1, <3>1, SearchForKeeps
  <2> QED
    BY <2>2, <2>3
<1>4. CASE Found
  BY <1>4, FoundKeeps
<1>5. CASE Search
  <2>1. UNCHANGED << trajs, flow, soc, searching, count, replan_order >>
    BY <1>5 DEF Search, paths
  <2>2. PICK curr \in First : Expand(curr, tasks[searching])
    BY <1>5 DEF Search
  <2>3. Depths'
    BY <1>1, <2>2, ExpandKeeps
  <2> QED
    BY <1>1, <2>1, <2>3, QuietKeeps
<1>6. CASE StartRefinement
  <2>1. /\ UNCHANGED << trajs, flow, soc, searching, nodes >> /\ count' = 0
        /\ replan_order' \in [1 .. NumAgents -> Agent]
    BY <1>6 DEF StartRefinement, Bijection, Injection
  <2> QED
    BY <1>1, <2>1, QuietKeeps DEF Depths
<1>7. CASE get_h \/ plan \/ plan_pibt \/ Stop \/ Sort \/ Execute \/ UNCHANGED vars
  <2>1. /\ UNCHANGED << trajs, flow, soc, searching, nodes, replan_order >>
        /\ count' = count \/ count' = 0
    <3>1. CASE get_h
      BY <3>1 DEF get_h, paths
    <3>2. CASE plan
      BY <3>2 DEF plan, paths
    <3>3. CASE plan_pibt
      BY <3>3 DEF plan_pibt, paths
    <3>4. CASE Stop
      BY <3>4 DEF Stop, paths
    <3>5. CASE Sort
      BY <3>5 DEF Sort, paths
    <3>6. CASE Execute
      BY <3>6 DEF Execute, paths
    <3>7. CASE UNCHANGED vars
      BY <3>7 DEF vars, paths
    <3> QED
      BY <1>7, <3>1, <3>2, <3>3, <3>4, <3>5, <3>6, <3>7
  <2> QED
    BY <1>1, <2>1, QuietKeeps DEF Depths
<1> QED
  BY <1>2, <1>3, <1>4, <1>5, <1>6, <1>7 DEF Next

\* The flow holds the guide paths as they are, each of them once, whoever is replanned and
\* whenever the deadline interrupts; only the path of the agent that is replanned is out.
THEOREM FlowBalanced == Spec => []FlowBalances
<1>1. Init => TrafficInv
  BY TrafficInit
<1>2. TrafficInv /\ [Next]_vars => TrafficInv'
  BY TrafficNext
<1>3. TrafficInv => FlowBalances
  BY BalancedIsFlowBalances DEF TrafficInv
<1> QED
  BY <1>1, <1>2, <1>3, PTL DEF Spec

-----------------------------------------------------------------------------
(* Paths that visit no cell twice: those of the recursion are all of them. *)

SimplePath(path) ==
  /\ path \in Seq(Free)
  /\ Len(path) >= 1
  /\ \A j, k \in 1 .. Len(path) : path[j] = path[k] => j = k
  /\ \A k \in 1 .. Len(path) - 1 : << path[k], path[k + 1] >> \in Arcs

UpTo(hops) == {path \in Seq(Free) : SimplePath(path) /\ Len(path) <= hops + 1}

LEMMA InUpTo ==
  ASSUME NEW path, NEW hops \in Nat
  PROVE  /\ path \in UpTo(hops) <=> SimplePath(path) /\ Len(path) <= hops + 1
         /\ SimplePath(path) => path \in Seq(Free) /\ Len(path) \in Nat
<1>1. SimplePath(path) => path \in Seq(Free) /\ Len(path) \in Nat
  BY DEF SimplePath
<1> QED
  BY <1>1 DEF UpTo

Start(path, j) == [k \in 1 .. j |-> path[k]]

LEMMA FreeFinite == IsFiniteSet(Free) /\ Cardinality(Free) \in Nat /\ Free \subseteq Nat
<1> DEFINE N == Rows * Cols - 1
<1>1. N \in Int
  BY GridAssumption
<1>2. Cell = 0 .. N
  BY DEF Cell
<1> HIDE DEF N
<1>3. IsFiniteSet(Cell) /\ Free \subseteq Cell /\ Cell \subseteq Nat
  <2>1. IsFiniteSet(Cell)
    BY <1>1, <1>2, FS_Interval
  <2> QED
    BY <1>1, <1>2, <2>1 DEF Free
<1> QED
  BY <1>3, FS_Subset, FS_CardinalityType

LEMMA ArcsFinite ==
  /\ IsFiniteSet(Arcs)
  /\ \A arc \in Arcs : arc = << arc[1], arc[2] >> /\ arc[1] \in Free /\ arc[2] \in Free
<1>1. IsFiniteSet(Free \X Free)
  BY FreeFinite, FS_Product
<1>2. Arcs \subseteq Free \X Free
  BY DEF Arcs
<1> QED
  BY <1>1, <1>2, FS_Subset

\* No path is longer than there are cells.
LEMMA PathsAreShort ==
  ASSUME NEW path, SimplePath(path)
  PROVE  Len(path) \in 1 .. Cardinality(Free)
<1>1. path \in Seq(Free) /\ Len(path) \in Nat /\ Len(path) >= 1
  BY DEF SimplePath
<1>2. path \in Injection(1 .. Len(path), Free)
  BY <1>1 DEF SimplePath, Injection, IsInjective
<1>3. Cardinality(1 .. Len(path)) <= Cardinality(Free)
  BY <1>2, FreeFinite, FS_Injection
<1>4. Cardinality(1 .. Len(path)) = Len(path)
  <2>1. 1 \in Int /\ Len(path) \in Int
    BY <1>1
  <2>2. Cardinality(1 .. Len(path)) = IF 1 > Len(path) THEN 0 ELSE Len(path) - 1 + 1
    BY <2>1, FS_Interval
  <2> QED
    BY <1>1, <2>2
<1> QED
  BY <1>1, <1>3, <1>4, FreeFinite

LEMMA StartIsPath ==
  ASSUME NEW path, SimplePath(path), NEW j \in 1 .. Len(path)
  PROVE  /\ SimplePath(Start(path, j)) /\ Len(Start(path, j)) = j
         /\ \A k \in 1 .. j : Start(path, j)[k] = path[k]
<1>1. path \in Seq(Free) /\ Len(path) \in Nat /\ j \in Nat /\ j >= 1 /\ j <= Len(path)
  BY DEF SimplePath
<1>2. \A k \in 1 .. j : path[k] \in Free /\ k \in 1 .. Len(path)
  BY <1>1
<1>3. Start(path, j) \in Seq(Free) /\ Len(Start(path, j)) = j
  BY <1>1, <1>2 DEF Start
<1>4. \A k \in 1 .. j : Start(path, j)[k] = path[k]
  BY DEF Start
<1>5. \A k \in 1 .. j - 1 : k \in 1 .. j /\ k + 1 \in 1 .. j /\ k \in 1 .. Len(path) - 1
  BY <1>1
<1> QED
  BY <1>1, <1>2, <1>3, <1>4, <1>5 DEF SimplePath

LEMMA LongerIsPath ==
  ASSUME NEW path, SimplePath(path), NEW d \in Free, << path[Len(path)], d >> \in Arcs,
         \A k \in 1 .. Len(path) : path[k] # d
  PROVE  /\ SimplePath(Append(path, d)) /\ Len(Append(path, d)) = Len(path) + 1
         /\ \A k \in 1 .. Len(path) : Append(path, d)[k] = path[k]
         /\ Append(path, d)[Len(path) + 1] = d
<1> DEFINE longer == Append(path, d)
<1>1. path \in Seq(Free) /\ Len(path) \in Nat /\ Len(path) >= 1
  BY DEF SimplePath
<1>2. /\ longer \in Seq(Free) /\ Len(longer) = Len(path) + 1
      /\ \A k \in 1 .. Len(path) : longer[k] = path[k]
      /\ longer[Len(path) + 1] = d
  BY <1>1
<1> HIDE DEF longer
<1>3. \A k \in 1 .. Len(longer) : k \in 1 .. Len(path) \/ k = Len(path) + 1
  BY <1>1, <1>2
<1>4. \A j, k \in 1 .. Len(longer) : longer[j] = longer[k] => j = k
  BY <1>2, <1>3 DEF SimplePath
<1>5. \A k \in 1 .. Len(longer) - 1 : << longer[k], longer[k + 1] >> \in Arcs
  <2>1. \A k \in 1 .. Len(longer) - 1 :
          \/ k = Len(path)
          \/ k \in 1 .. Len(path) - 1 /\ k \in 1 .. Len(path) /\ k + 1 \in 1 .. Len(path)
    BY <1>1, <1>2
  <2>2. Len(path) \in 1 .. Len(path)
    BY <1>1
  <2>3. \A k \in 1 .. Len(path) - 1 : << path[k], path[k + 1] >> \in Arcs
    BY DEF SimplePath
  <2> QED
    BY <1>2, <2>1, <2>2, <2>3
<1>6. SimplePath(longer)
  BY <1>1, <1>2, <1>4, <1>5 DEF SimplePath
<1> QED
  BY <1>2, <1>6 DEF longer

Onward(path) == (NeighborsAnywhere(path[Len(path)]) \cap Free) \ {path[k] : k \in 1 .. Len(path)}

LEMMA OneHopMore ==
  ASSUME NEW hops \in Nat \ {0}
  PROVE  UpTo(hops) = UpTo(hops - 1) \cup
                      UNION {{Append(path, d) : d \in Onward(path)} : path \in UpTo(hops - 1)}
<1>1. ASSUME NEW path \in UpTo(hops), path \notin UpTo(hops - 1)
      PROVE  \E front \in UpTo(hops - 1) : \E d \in Onward(front) : path = Append(front, d)
  <2>1. /\ SimplePath(path) /\ path \in Seq(Free) /\ Len(path) \in Nat
        /\ Len(path) = hops + 1 /\ hops \in 1 .. Len(path)
    BY <1>1 DEF UpTo, SimplePath
  <2> DEFINE front == Start(path, hops)
             d == path[hops + 1]
  <2>2. /\ SimplePath(front) /\ Len(front) = hops
        /\ \A k \in 1 .. hops : front[k] = path[k]
    BY <2>1, StartIsPath
  <2>3. front \in UpTo(hops - 1)
    BY <2>2 DEF UpTo, SimplePath
  <2>4. d \in Free /\ hops + 1 \in 1 .. Len(path)
    BY <2>1
  <2>5. << path[hops], d >> \in Arcs
    <3>1. hops \in 1 .. Len(path) - 1
      BY <2>1
    <3> QED
      BY <2>1, <3>1 DEF SimplePath
  <2>6. d \in NeighborsAnywhere(path[hops])
    <3> DEFINE arc == << path[hops], d >>
    <3>1. arc \in Arcs /\ arc[1] = path[hops] /\ arc[2] = d
      BY <2>5
    <3> HIDE DEF arc, d
    <3> QED
      BY <3>1 DEF Arcs
  <2>7. \A k \in 1 .. hops : front[k] # d
    <3>1. \A k \in 1 .. hops : k \in 1 .. Len(path) /\ k # hops + 1
      BY <2>1
    <3> QED
      BY <2>1, <2>2, <2>4, <3>1 DEF SimplePath
  <2>8. d \in Onward(front)
    BY <2>2, <2>4, <2>6, <2>7 DEF Onward
  <2>9. path = Append(front, d)
    <3>1. front \in Seq(Free)
      BY <2>2 DEF SimplePath
    <3>2. Len(path) = Len(Append(front, d)) /\ Append(front, d) \in Seq(Free)
      BY <2>1, <2>2, <2>4, <3>1
    <3>3. \A k \in 1 .. Len(path) : path[k] = Append(front, d)[k]
      BY <2>1, <2>2, <3>1
    <3> HIDE DEF front, d
    <3> QED
      BY <2>1, <3>2, <3>3
  <2> QED
    BY <2>3, <2>8, <2>9
<1>2. ASSUME NEW front \in UpTo(hops - 1), NEW d \in Onward(front)
      PROVE  Append(front, d) \in UpTo(hops)
  <2>1. SimplePath(front) /\ Len(front) \in Nat /\ Len(front) <= hops
    BY DEF UpTo, SimplePath
  <2>2. d \in Free /\ d \in NeighborsAnywhere(front[Len(front)]) /\ \A k \in 1 .. Len(front) : front[k] # d
    BY DEF Onward
  <2>3. << front[Len(front)], d >> \in Arcs
    <3>1. front[Len(front)] \in Free
      BY <2>1 DEF SimplePath
    <3> QED
      BY <2>2, <3>1 DEF Arcs
  <2>4. SimplePath(Append(front, d)) /\ Len(Append(front, d)) = Len(front) + 1
    BY <2>1, <2>2, <2>3, LongerIsPath
  <2>5. Len(front) + 1 <= hops + 1
    BY <2>1
  <2> QED
    BY <2>4, <2>5, InUpTo
<1>3. UpTo(hops - 1) \subseteq UpTo(hops)
  BY InUpTo
<1> DEFINE Longer == UNION {{Append(front, d) : d \in Onward(front)} : front \in UpTo(hops - 1)}
<1>4. \A path : path \in Longer <=>
                 \E front \in UpTo(hops - 1) : \E d \in Onward(front) : path = Append(front, d)
  OBVIOUS
<1>5. \A path : path \in UpTo(hops) <=> path \in UpTo(hops - 1) \/ path \in Longer
  <2> HIDE DEF Longer
  <2>1. \A path \in UpTo(hops) : path \notin UpTo(hops - 1) => path \in Longer
    BY <1>1, <1>4
  <2>2. \A path \in Longer : path \in UpTo(hops)
    <3> SUFFICES ASSUME NEW path \in Longer PROVE path \in UpTo(hops)
      OBVIOUS
    <3>1. PICK front \in UpTo(hops - 1) : \E d \in Onward(front) : path = Append(front, d)
      BY <1>4
    <3>2. PICK d \in Onward(front) : path = Append(front, d)
      BY <3>1
    <3>3. Append(front, d) \in UpTo(hops)
      BY <1>2
    <3> QED
      BY <3>2, <3>3
  <2> QED
    BY <1>3, <2>1, <2>2
<1>6. UpTo(hops) = UpTo(hops - 1) \cup Longer
  <2> HIDE DEF Longer
  <2> QED
    BY <1>5
<1> QED
  BY <1>6

LEMMA NoHops ==
  ASSUME NEW none \in Nat, none = 0
  PROVE  UpTo(none) = {<< c >> : c \in Free}
<1>1. ASSUME NEW path \in UpTo(none)
      PROVE  path[1] \in Free /\ path = << path[1] >>
  <2>1. path \in Seq(Free) /\ Len(path) = 1
    <3>1. SimplePath(path) /\ path \in Seq(Free) /\ Len(path) \in Nat /\ Len(path) <= none + 1
      BY DEF UpTo
    <3>2. Len(path) >= 1
      BY <3>1 DEF SimplePath
    <3> DEFINE n == Len(path)
    <3>3. n \in Nat /\ n <= 0 + 1 /\ n >= 1
      BY <3>1, <3>2
    <3> HIDE DEF n
    <3>4. n = 1
      BY <3>3
    <3> QED
      BY <3>1, <3>4 DEF n
  <2> QED
    BY <2>1
<1>2. ASSUME NEW c \in Free
      PROVE  << c >> \in UpTo(none)
  <2> DEFINE path == << c >>
  <2>1. path \in Seq(Free) /\ Len(path) = 1
    OBVIOUS
  <2> HIDE DEF path
  <2>2. SimplePath(path)
    <3>1. \A j \in 1 .. Len(path) : j = 1
      BY <2>1
    <3>2. \A j \in 1 .. Len(path) - 1 : FALSE
      BY <2>1
    <3> QED
      BY <2>1, <3>1, <3>2 DEF SimplePath
  <2>3. path \in UpTo(none)
    BY <2>1, <2>2 DEF UpTo
  <2> QED
    BY <2>3 DEF path
<1> QED
  BY <1>1, <1>2

Recurses(P) ==
  P = [hops \in 0 .. Cardinality(Free) - 1 |->
         IF hops = 0 THEN {<< c >> : c \in Free}
         ELSE P[hops - 1] \cup
              UNION {{Append(path, d) : d \in Onward(path)} : path \in P[hops - 1]}]

LEMMA PathsRecurse == Recurses(Paths)
<1>1. Paths = CHOOSE P : Recurses(P)
  BY DEF Paths, Recurses, Onward
<1> DEFINE P == [hops \in 0 .. Cardinality(Free) - 1 |-> UpTo(hops)]
<1>2. \A hops \in 0 .. Cardinality(Free) - 1 :
        hops # 0 => hops \in Nat \ {0} /\ hops - 1 \in 0 .. Cardinality(Free) - 1
  BY FreeFinite
<1>3. \A hops \in 0 .. Cardinality(Free) - 1 :
        P[hops] = IF hops = 0 THEN {<< c >> : c \in Free}
                  ELSE P[hops - 1] \cup UNION {{Append(path, d) : d \in Onward(path)} : path \in P[hops - 1]}
  BY <1>2, NoHops, OneHopMore
<1>4. Recurses(P)
  <2> DEFINE G == [hops \in 0 .. Cardinality(Free) - 1 |->
                     IF hops = 0 THEN {<< c >> : c \in Free}
                     ELSE P[hops - 1] \cup UNION {{Append(path, d) : d \in Onward(path)} : path \in P[hops - 1]}]
  <2>1. P = G
    BY <1>3
  <2> HIDE DEF P
  <2> QED
    BY <2>1 DEF Recurses
<1> HIDE DEF P
<1>5. Recurses(CHOOSE Q : Recurses(Q))
  BY <1>4
<1> QED
  BY <1>1, <1>5

LEMMA PathsAre ==
  ASSUME NEW hops \in 0 .. Cardinality(Free) - 1
  PROVE  Paths[hops] = UpTo(hops)
<1> DEFINE Bad == {n \in 0 .. Cardinality(Free) - 1 : Paths[n] # UpTo(n)}
<1>1. SUFFICES ASSUME Bad # {} PROVE FALSE
  OBVIOUS
<1>2. PICK n \in Bad : \A k \in Bad : n <= k
  <2>1. Bad \in SUBSET Nat
    OBVIOUS
  <2> HIDE DEF Bad
  <2> QED
    BY <1>1, <2>1, LeastNat
<1>3. n \in 0 .. Cardinality(Free) - 1 /\ Paths[n] # UpTo(n)
  BY <1>2
<1>4. Paths[n] = IF n = 0 THEN {<< c >> : c \in Free}
                 ELSE Paths[n - 1] \cup UNION {{Append(path, d) : d \in Onward(path)} : path \in Paths[n - 1]}
  BY <1>3, PathsRecurse DEF Recurses
<1>5. n # 0
  BY <1>3, <1>4, NoHops
<1>6. n - 1 \in 0 .. Cardinality(Free) - 1 /\ n \in Nat \ {0} /\ n - 1 \notin Bad
  <2>1. n - 1 \in 0 .. Cardinality(Free) - 1 /\ n \in Nat \ {0} /\ ~ (n <= n - 1)
    BY <1>3, <1>5, FreeFinite
  <2> HIDE DEF Bad
  <2> QED
    BY <1>2, <2>1
<1>7. Paths[n - 1] = UpTo(n - 1)
  BY <1>6
<1> QED
  BY <1>3, <1>4, <1>5, <1>6, <1>7, OneHopMore

LEMMA AllPathsBetween ==
  ASSUME NEW c \in Free, NEW d \in Free
  PROVE  PathsBetween[c][d] = {path \in Seq(Free) : SimplePath(path) /\ path[1] = c /\ path[Len(path)] = d}
<1>1. Cardinality(Free) - 1 \in 0 .. Cardinality(Free) - 1
  <2>1. Cardinality(Free) # 0
    BY FreeFinite, FS_EmptySet
  <2> QED
    BY <2>1, FreeFinite
<1>2. Paths[Cardinality(Free) - 1] = UpTo(Cardinality(Free) - 1)
  BY <1>1, PathsAre
<1>3. \A path : SimplePath(path) => Len(path) <= (Cardinality(Free) - 1) + 1
  BY PathsAreShort, FreeFinite
<1>4. PathsBetween[c][d] = {path \in UpTo(Cardinality(Free) - 1) : path[1] = c /\ path[Len(path)] = d}
  BY <1>2 DEF PathsBetween
<1> QED
  BY <1>3, <1>4 DEF UpTo

-----------------------------------------------------------------------------
(* How far cells are from each other.                                      *)

Cells == Cardinality(Free)

\* What is next to a cell has that cell next to it, and is another one.
LEMMA NeighborsMutual ==
  ASSUME NEW c \in Free, NEW d \in Neighbors(c)
  PROVE  d \in Free /\ c \in Neighbors(d) /\ d # c
<1>1. c \in Nat /\ d \in Free /\ d \in Nat /\ Cols \in Nat \ {0}
  BY FreeFinite, GridAssumption DEF Neighbors
<1>2. \/ d = c - Cols
      \/ d = c + Cols
      \/ d = c - 1 /\ c % Cols > 0
      \/ d = c + 1 /\ c % Cols < Cols - 1
  BY DEF Neighbors
<1>3. CASE d = c - Cols
  BY <1>1, <1>3 DEF Neighbors
<1>4. CASE d = c + Cols
  BY <1>1, <1>4 DEF Neighbors
<1>5. CASE d = c - 1 /\ c % Cols > 0
  <2>1. d % Cols < Cols - 1
    BY <1>1, <1>5, StepBack
  <2> QED
    BY <1>1, <1>5, <2>1 DEF Neighbors
<1>6. CASE d = c + 1 /\ c % Cols < Cols - 1
  <2>1. d % Cols > 0
    <3> DEFINE q == c \div Cols
               r == c % Cols
               t == r + 1
    <3>1. q \in Nat /\ r \in 0 .. Cols - 1 /\ c = Cols * q + r
      BY <1>1, DivMod
    <3>2. d = Cols * q + t
      BY <1>1, <1>6, <3>1
    <3>3. q \in Int /\ t \in 0 .. Cols - 1 /\ t > 0
      BY <1>1, <1>6, <3>1
    <3> HIDE DEF q, r, t
    <3>4. d % Cols = t
      BY <1>1, <3>2, <3>3, DivModUnique
    <3> QED
      BY <3>3, <3>4
  <2> QED
    BY <1>1, <1>6, <2>1 DEF Neighbors
<1> QED
  BY <1>2, <1>3, <1>4, <1>5, <1>6

\* All that is next to one of some cells.
Nearby(D) == UNION {Neighbors(d) : d \in D}

\* Its members.
LEMMA InNearby ==
  ASSUME NEW D \in SUBSET Free
  PROVE  /\ \A e : e \in Nearby(D) <=> \E d \in D : e \in Neighbors(d)
         /\ Nearby(D) \in SUBSET Free
<1>1. \A e : e \in Nearby(D) <=> \E d \in D : e \in Neighbors(d)
  BY DEF Nearby
<1> QED
  BY <1>1 DEF Neighbors

\* What the recursion of Within says.
Widens(w) ==
  w = [k \in 0 .. Cells |-> [c \in Free |-> IF k = 0 THEN {c} ELSE w[k - 1][c] \cup Nearby(w[k - 1][c])]]

\* That recursion has a solution.
LEMMA WithinWidens == Widens(Within)
<1>1. Within = CHOOSE w : Widens(w)
  BY DEF Within, Widens, Cells, Nearby
<1> DEFINE S == [Free -> SUBSET Free]
           b == [c \in Free |-> {c}]
           wide == [w \in S |-> [c \in Free |-> w[c] \cup Nearby(w[c])]]
           F == [k \in 1 .. Cells |-> wide]
<1>2. b \in S /\ Cells \in Nat
  BY FreeFinite DEF Cells
<1>3. Continues(F, Cells, S)
  <2>1. \A w \in S, c \in Free : w[c] \in SUBSET Free /\ Nearby(w[c]) \in SUBSET Free
    BY InNearby
  <2> QED
    BY <2>1 DEF Continues
<1> HIDE DEF F, b, S, wide
<1>4. PICK f : Unfolds(f, Cells, S, b, F)
  BY <1>2, <1>3, Recursion
<1>5. \A k \in 0 .. Cells : f[k] = [c \in Free |-> IF k = 0 THEN {c} ELSE f[k - 1][c] \cup Nearby(f[k - 1][c])]
  <2> SUFFICES ASSUME NEW k \in 0 .. Cells
               PROVE  f[k] = [c \in Free |-> IF k = 0 THEN {c} ELSE f[k - 1][c] \cup Nearby(f[k - 1][c])]
    OBVIOUS
  <2>1. CASE k = 0
    BY <1>4, <2>1 DEF b, Unfolds
  <2>2. CASE k # 0
    <3>1. k \in 1 .. Cells /\ k - 1 \in 0 .. Cells /\ f[k - 1] \in S
      BY <1>2, <1>4, <2>2 DEF Unfolds
    <3>2. f[k] = wide[f[k - 1]]
      BY <1>4, <3>1 DEF F, Unfolds
    <3> QED
      BY <2>2, <3>1, <3>2 DEF wide
  <2> QED
    BY <2>1, <2>2
<1>6. Widens(f)
  <2> DEFINE v == [k \in 0 .. Cells |->
                     [c \in Free |-> IF k = 0 THEN {c} ELSE f[k - 1][c] \cup Nearby(f[k - 1][c])]]
  <2>1. f = v
    BY <1>4, <1>5 DEF Unfolds
  <2> QED
    BY <2>1 DEF Widens
<1>7. Widens(CHOOSE w : Widens(w))
  BY <1>6
<1> QED
  BY <1>1, <1>7

\* The cells within so many moves, set by set.
LEMMA WithinIs ==
  /\ Cells \in Nat
  /\ \A k \in 0 .. Cells, c \in Free : Within[k][c] \in SUBSET Free
  /\ \A c \in Free : Within[0][c] = {c}
  /\ \A k \in 1 .. Cells, c \in Free :
       \A e : e \in Within[k][c] <=> e \in Within[k - 1][c] \/ \E d \in Within[k - 1][c] : e \in Neighbors(d)
<1>1. Cells \in Nat
  BY FreeFinite DEF Cells
<1>2. /\ \A c \in Free : Within[0][c] = {c}
      /\ \A k \in 1 .. Cells, c \in Free : Within[k][c] = Within[k - 1][c] \cup Nearby(Within[k - 1][c])
  <2>1. \A k \in 0 .. Cells : Within[k] =
          [c \in Free |-> IF k = 0 THEN {c} ELSE Within[k - 1][c] \cup Nearby(Within[k - 1][c])]
    BY WithinWidens DEF Widens
  <2>2. \A c \in Free : Within[0][c] = {c}
    <3>1. 0 \in 0 .. Cells
      BY <1>1
    <3>2. Within[0] = [c \in Free |-> IF 0 = 0 THEN {c} ELSE Within[0 - 1][c] \cup Nearby(Within[0 - 1][c])]
      BY <2>1, <3>1
    <3> QED
      BY <3>2
  <2>3. ASSUME NEW k \in 1 .. Cells
        PROVE  \A c \in Free : Within[k][c] = Within[k - 1][c] \cup Nearby(Within[k - 1][c])
    <3>1. k \in 0 .. Cells /\ k # 0
      OBVIOUS
    <3>2. Within[k] = [c \in Free |-> Within[k - 1][c] \cup Nearby(Within[k - 1][c])]
      BY <2>1, <3>1
    <3> QED
      BY <3>2
  <2> QED
    BY <2>2, <2>3
<1> DEFINE Q == {k \in 0 .. Cells : \A c \in Free : Within[k][c] \in SUBSET Free}
<1>3. 0 \in Q
  BY <1>1, <1>2
<1>4. ASSUME NEW k \in 1 .. Cells, k - 1 \in Q
      PROVE  k \in Q
  <2>1. \A c \in Free : Within[k - 1][c] \in SUBSET Free
    BY <1>4
  <2>2. \A c \in Free : Nearby(Within[k - 1][c]) \in SUBSET Free
    BY <2>1, InNearby
  <2> QED
    BY <1>2, <2>1, <2>2
<1> HIDE DEF Q
<1>5. \A k \in 0 .. Cells : k \in Q
  BY <1>1, <1>3, <1>4, NatUpTo
<1>6. \A k \in 0 .. Cells, c \in Free : Within[k][c] \in SUBSET Free
  BY <1>5 DEF Q
<1>7. \A k \in 1 .. Cells, c \in Free :
        \A e : e \in Within[k][c] <=> e \in Within[k - 1][c] \/ \E d \in Within[k - 1][c] : e \in Neighbors(d)
  <2> SUFFICES ASSUME NEW k \in 1 .. Cells, NEW c \in Free
               PROVE  \A e : e \in Within[k][c] <=> e \in Within[k - 1][c] \/ \E d \in Within[k - 1][c] : e \in Neighbors(d)
    OBVIOUS
  <2>1. Within[k - 1][c] \in SUBSET Free
    BY <1>1, <1>6
  <2>2. \A e : e \in Nearby(Within[k - 1][c]) <=> \E d \in Within[k - 1][c] : e \in Neighbors(d)
    BY <2>1, InNearby
  <2> QED
    BY <1>2, <2>2
<1> QED
  BY <1>1, <1>2, <1>6, <1>7

\* With more moves no cell is lost.
LEMMA WithinGrows ==
  ASSUME NEW c \in Free, NEW j \in 0 .. Cells, NEW k \in 0 .. Cells, j <= k
  PROVE  Within[j][c] \subseteq Within[k][c]
<1>1. Cells \in Nat
  BY WithinIs
<1> DEFINE Q == {i \in 0 .. Cells : j <= i => Within[j][c] \subseteq Within[i][c]}
<1>2. 0 \in Q
  <2>1. j <= 0 => j = 0
    OBVIOUS
  <2> QED
    BY <1>1, <2>1
<1>3. ASSUME NEW i \in 1 .. Cells, i - 1 \in Q
      PROVE  i \in Q
  <2>1. Within[i - 1][c] \subseteq Within[i][c]
    BY WithinIs
  <2>2. j <= i => j = i \/ j <= i - 1
    OBVIOUS
  <2> QED
    BY <1>3, <2>1, <2>2
<1> HIDE DEF Q
<1>4. \A i \in 0 .. Cells : i \in Q
  BY <1>1, <1>2, <1>3, NatUpTo
<1> QED
  BY <1>4 DEF Q

\* What is near a neighbour is not much further away.
LEMMA WithinFurther ==
  ASSUME NEW d \in Free, NEW e \in Neighbors(d), NEW k \in 1 .. Cells
  PROVE  Within[k - 1][e] \subseteq Within[k][d]
<1>1. Cells \in Nat /\ e \in Free /\ d \in Free
  BY WithinIs DEF Neighbors
<1> DEFINE Q == {i \in 0 .. Cells : i >= 1 => Within[i - 1][e] \subseteq Within[i][d]}
<1>2. 0 \in Q
  BY <1>1
<1>3. ASSUME NEW i \in 1 .. Cells, i - 1 \in Q
      PROVE  i \in Q
  <2>1. CASE i = 1
    <3>1. 1 \in 1 .. Cells /\ Within[0][d] = {d} /\ Within[0][e] = {e} /\ 1 - 1 = 0
      BY <1>1, <2>1, WithinIs
    <3>2. \A q : q \in Within[1][d] <=> q \in Within[0][d] \/ \E z \in Within[0][d] : q \in Neighbors(z)
      BY <1>1, <3>1, WithinIs
    <3>3. e \in Within[1][d]
      BY <3>1, <3>2
    <3> QED
      BY <2>1, <3>1, <3>3
  <2>2. CASE i # 1
    <3>1. i - 1 \in 1 .. Cells
      BY <1>1, <2>2
    <3>2. Within[(i - 1) - 1][e] \subseteq Within[i - 1][d]
      BY <1>3, <3>1
    <3>3. \A q : q \in Within[i - 1][e] <=>
                   q \in Within[(i - 1) - 1][e] \/ \E z \in Within[(i - 1) - 1][e] : q \in Neighbors(z)
      BY <1>1, <3>1, WithinIs
    <3>4. \A q : q \in Within[i][d] <=> q \in Within[i - 1][d] \/ \E z \in Within[i - 1][d] : q \in Neighbors(z)
      BY <1>1, WithinIs
    <3> QED
      BY <3>2, <3>3, <3>4
  <2> QED
    BY <2>1, <2>2
<1> HIDE DEF Q
<1>4. \A i \in 0 .. Cells : i \in Q
  BY <1>1, <1>2, <1>3, NatUpTo
<1> QED
  BY <1>4 DEF Q

\* What is some moves away is nearer to a neighbour.
LEMMA WithinNearer ==
  ASSUME NEW d \in Free, NEW k \in 1 .. Cells, NEW q \in Within[k][d], q \notin Within[k - 1][d]
  PROVE  \E e \in Neighbors(d) : q \in Within[k - 1][e]
<1>1. Cells \in Nat /\ d \in Free
  BY WithinIs
<1> DEFINE Near(i, z) == z \in Within[i - 1][d] \/ \E e \in Neighbors(d) : z \in Within[i - 1][e]
           Q == {i \in 0 .. Cells : i >= 1 => \A z \in Within[i][d] : Near(i, z)}
<1>2. 0 \in Q
  BY <1>1
<1>3. ASSUME NEW i \in 1 .. Cells, i - 1 \in Q
      PROVE  i \in Q
  <2>1. CASE i = 1
    <3>1. 1 \in 1 .. Cells /\ Within[0][d] = {d} /\ 1 - 1 = 0 /\ \A z \in Free : Within[0][z] = {z}
      BY <1>1, <2>1, WithinIs
    <3>2. \A z : z \in Within[1][d] <=> z \in Within[0][d] \/ \E y \in Within[0][d] : z \in Neighbors(y)
      BY <1>1, <3>1, WithinIs
    <3>3. \A z \in Neighbors(d) : z \in Free
      BY DEF Neighbors
    <3> QED
      BY <2>1, <3>1, <3>2, <3>3
  <2>2. CASE i # 1
    <3>1. i - 1 \in 1 .. Cells
      BY <1>1, <2>2
    <3>2. \A z \in Within[i - 1][d] : Near(i - 1, z)
      BY <1>3, <3>1
    <3>3. \A y \in Free : \A z : z \in Within[i - 1][y] <=>
            z \in Within[(i - 1) - 1][y] \/ \E x \in Within[(i - 1) - 1][y] : z \in Neighbors(x)
      BY <3>1, WithinIs
    <3>4. \A z : z \in Within[i][d] <=> z \in Within[i - 1][d] \/ \E y \in Within[i - 1][d] : z \in Neighbors(y)
      BY <1>1, WithinIs
    <3>5. ASSUME NEW z \in Within[i][d] PROVE Near(i, z)
      <4>1. CASE z \in Within[i - 1][d]
        BY <4>1
      <4>2. CASE \E y \in Within[i - 1][d] : z \in Neighbors(y)
        <5>1. PICK y \in Within[i - 1][d] : z \in Neighbors(y)
          BY <4>2
        <5>2. CASE y \in Within[(i - 1) - 1][d]
          BY <3>3, <5>1, <5>2
        <5>3. CASE \E e \in Neighbors(d) : y \in Within[(i - 1) - 1][e]
          <6>1. PICK e \in Neighbors(d) : y \in Within[(i - 1) - 1][e]
            BY <5>3
          <6>2. e \in Free
            BY DEF Neighbors
          <6>3. z \in Within[i - 1][e]
            BY <3>3, <5>1, <6>1, <6>2
          <6> QED
            BY <6>3
        <5> QED
          BY <3>2, <5>1, <5>2, <5>3
      <4> QED
        BY <3>4, <4>1, <4>2
    <3> HIDE DEF Near
    <3> QED
      BY <3>5
  <2> QED
    BY <2>1, <2>2
<1> HIDE DEF Q
<1>4. \A i \in 0 .. Cells : i \in Q
  BY <1>1, <1>2, <1>3, NatUpTo
<1> QED
  BY <1>4 DEF Q

\* The cells that can be reached are reached before there are as many moves as cells.
LEMMA WithinAll ==
  ASSUME NEW c \in Free
  PROVE  Cells >= 1 /\ Within[Cells][c] = Within[Cells - 1][c]
<1>1. Cells \in Nat /\ \A k \in 0 .. Cells : Within[k][c] \in SUBSET Free
  BY WithinIs
<1>2. \A k \in 0 .. Cells : IsFiniteSet(Within[k][c]) /\ Cardinality(Within[k][c]) \in Nat
                              /\ Cardinality(Within[k][c]) <= Cells
  <2> SUFFICES ASSUME NEW k \in 0 .. Cells
               PROVE  IsFiniteSet(Within[k][c]) /\ Cardinality(Within[k][c]) \in Nat
                        /\ Cardinality(Within[k][c]) <= Cells
    OBVIOUS
  <2> QED
    BY <1>1, FreeFinite, FS_Subset, FS_CardinalityType DEF Cells
<1>3. Cells >= 1
  <2>1. Free # {} /\ IsFiniteSet(Free)
    BY FreeFinite
  <2> QED
    BY <1>1, <2>1, FS_EmptySet DEF Cells
<1> DEFINE Same(k) == Within[k][c] = Within[k - 1][c]
           Q == {k \in 0 .. Cells : k >= 1 => Same(k) \/ Cardinality(Within[k][c]) >= k + 1}
<1>4. ASSUME NEW k \in 1 .. Cells, ~ Same(k)
      PROVE  Cardinality(Within[k][c]) >= Cardinality(Within[k - 1][c]) + 1
  <2>1. k - 1 \in 0 .. Cells /\ k \in 0 .. Cells
    BY <1>1
  <2>2. Within[k - 1][c] \subseteq Within[k][c]
    BY <2>1, WithinGrows
  <2>3. Cardinality(Within[k - 1][c]) <= Cardinality(Within[k][c])
        /\ (Cardinality(Within[k][c]) = Cardinality(Within[k - 1][c]) => Within[k][c] = Within[k - 1][c])
    BY <1>2, <2>1, <2>2, FS_Subset
  <2> QED
    BY <1>2, <1>4, <2>1, <2>3
<1>5. 0 \in Q
  BY <1>1
<1>6. ASSUME NEW k \in 1 .. Cells, k - 1 \in Q
      PROVE  k \in Q
  <2>0. k - 1 \in 0 .. Cells /\ k \in 0 .. Cells
    BY <1>1
  <2>1. CASE k = 1
    <3>1. Within[0][c] = {c}
      BY WithinIs
    <3>2. Cardinality(Within[0][c]) = 1
      BY <3>1, FS_Singleton
    <3>3. Same(k) \/ Cardinality(Within[k][c]) >= k + 1
      <4> HIDE DEF Same
      <4> QED
        BY <1>4, <2>1, <3>2
    <3> QED
      BY <2>0, <3>3
  <2>2. CASE k # 1 /\ Same(k - 1)
    <3>1. k - 1 \in 1 .. Cells /\ Within[k - 1][c] = Within[(k - 1) - 1][c]
      BY <1>1, <2>2
    <3>2. /\ \A z : z \in Within[k][c] <=> z \in Within[k - 1][c] \/ \E y \in Within[k - 1][c] : z \in Neighbors(y)
          /\ \A z : z \in Within[k - 1][c] <=>
               z \in Within[(k - 1) - 1][c] \/ \E y \in Within[(k - 1) - 1][c] : z \in Neighbors(y)
      BY <3>1, WithinIs
    <3>3. Same(k)
      BY <3>1, <3>2
    <3> QED
      BY <2>0, <3>3
  <2>3. CASE k # 1 /\ ~ Same(k - 1)
    <3>1. Cardinality(Within[k - 1][c]) >= k
      BY <1>6, <2>3
    <3>2. Same(k) \/ Cardinality(Within[k][c]) >= Cardinality(Within[k - 1][c]) + 1
      <4> HIDE DEF Same
      <4> QED
        BY <1>4
    <3>3. Same(k) \/ Cardinality(Within[k][c]) >= k + 1
      <4> HIDE DEF Same
      <4> QED
        BY <1>2, <2>0, <3>1, <3>2
    <3> QED
      BY <2>0, <3>3
  <2> QED
    BY <2>1, <2>2, <2>3
<1> HIDE DEF Q
<1>7. \A k \in 0 .. Cells : k \in Q
  BY <1>1, <1>5, <1>6, NatUpTo
<1>8. Cells \in 0 .. Cells
  BY <1>1
<1> QED
  BY <1>1, <1>2, <1>3, <1>7, <1>8 DEF Q

\* The distance of two cells: the least number of moves.
LEMMA StepsAre ==
  ASSUME NEW c \in Free
  PROVE  /\ DOMAIN Steps[c] = Within[Cells][c]
         /\ \A q \in DOMAIN Steps[c] :
              /\ q \in Free
              /\ Steps[c][q] \in 0 .. Cells
              /\ q \in Within[Steps[c][q]][c]
              /\ \A k \in 0 .. Cells : q \in Within[k][c] => Steps[c][q] <= k
<1>1. Cells \in Nat /\ Within[Cells][c] \in SUBSET Free
  BY WithinIs
<1> DEFINE Ks(q) == {k \in 0 .. Cells : q \in Within[k][c]}
<1>2. DOMAIN Steps[c] = Within[Cells][c] /\ \A q \in Within[Cells][c] : Steps[c][q] = Min(Ks(q))
  BY DEF Steps, Cells
<1>3. ASSUME NEW q \in Within[Cells][c]
      PROVE  Steps[c][q] \in Ks(q) /\ \A k \in Ks(q) : Steps[c][q] <= k
  <2>1. Ks(q) \in SUBSET Nat /\ Cells \in Ks(q)
    BY <1>1
  <2>2. Steps[c][q] = CHOOSE x \in Ks(q) : \A y \in Ks(q) : x <= y
    BY <1>2 DEF Min
  <2> HIDE DEF Ks
  <2>3. \E x \in Ks(q) : \A y \in Ks(q) : x <= y
    BY <2>1, LeastNat
  <2> QED
    BY <2>2, <2>3
<1> QED
  BY <1>1, <1>2, <1>3

\* No moves to oneself, and more to others.
LEMMA NoSteps ==
  ASSUME NEW c \in Free
  PROVE  /\ c \in DOMAIN Steps[c] /\ Steps[c][c] = 0
         /\ \A q \in DOMAIN Steps[c] : Steps[c][q] \in Nat /\ (Steps[c][q] = 0 => q = c)
<1>1. Cells \in Nat /\ Within[0][c] = {c}
  BY WithinIs
<1>2. c \in Within[Cells][c]
  <2>1. 0 \in 0 .. Cells /\ Cells \in 0 .. Cells /\ 0 <= Cells
    BY <1>1
  <2> QED
    BY <1>1, <2>1, WithinGrows
<1>3. 0 \in 0 .. Cells
  BY <1>1
<1> QED
  BY <1>1, <1>2, <1>3, StepsAre

\* A move more, at most, from a cell next to it.
LEMMA StepMore ==
  ASSUME NEW d \in Free, NEW e \in Neighbors(d), NEW q \in DOMAIN Steps[e]
  PROVE  q \in DOMAIN Steps[d] /\ Steps[d][q] <= Steps[e][q] + 1
<1>1. e \in Free /\ Cells \in Nat
  BY WithinIs DEF Neighbors
<1>2. Cells >= 1 /\ q \in Within[Cells - 1][e]
  BY <1>1, StepsAre, WithinAll
<1>3. Steps[e][q] \in 0 .. Cells - 1 /\ q \in Within[Steps[e][q]][e]
  <2>1. Cells - 1 \in 0 .. Cells
    BY <1>1, <1>2
  <2> QED
    BY <1>1, <1>2, <2>1, StepsAre
<1> DEFINE k == Steps[e][q] + 1
<1>4. k \in 1 .. Cells /\ k - 1 = Steps[e][q] /\ k \in 0 .. Cells /\ Cells \in 0 .. Cells
  BY <1>1, <1>3
<1> HIDE DEF k
<1>5. q \in Within[k][d]
  BY <1>3, <1>4, WithinFurther
<1>6. q \in Within[Cells][d]
  <2>1. k <= Cells
    BY <1>4
  <2> QED
    BY <1>4, <1>5, <2>1, WithinGrows
<1>7. q \in DOMAIN Steps[d] /\ Steps[d][q] <= k
  BY <1>4, <1>5, <1>6, StepsAre
<1> QED
  BY <1>7 DEF k

\* The first move brings one nearer.
LEMMA StepLess ==
  ASSUME NEW d \in Free, NEW q \in DOMAIN Steps[d], q # d
  PROVE  \E e \in Neighbors(d) : q \in DOMAIN Steps[e] /\ Steps[d][q] = Steps[e][q] + 1
<1>1. Cells \in Nat /\ \A e \in Neighbors(d) : e \in Free
  BY WithinIs DEF Neighbors
<1> DEFINE k == Steps[d][q]
<1>2. k \in 1 .. Cells /\ q \in Within[k][d] /\ k - 1 \in 0 .. Cells /\ ~ (k <= k - 1)
  BY <1>1, StepsAre, NoSteps
<1>3. q \notin Within[k - 1][d]
  BY <1>2, StepsAre
<1>4. PICK e \in Neighbors(d) : q \in Within[k - 1][e]
  <2> HIDE DEF k
  <2> QED
    BY <1>2, <1>3, WithinNearer
<1>5. q \in Within[Cells][e]
  <2>1. k - 1 \in 0 .. Cells /\ Cells \in 0 .. Cells /\ k - 1 <= Cells /\ e \in Free
    BY <1>1, <1>2
  <2> HIDE DEF k
  <2> QED
    BY <1>4, <2>1, WithinGrows
<1>6. q \in DOMAIN Steps[e] /\ Steps[e][q] <= k - 1 /\ Steps[e][q] \in Nat
  <2>1. e \in Free /\ k - 1 \in 0 .. Cells
    BY <1>1, <1>2
  <2> HIDE DEF k
  <2> QED
    BY <1>4, <1>5, <2>1, StepsAre
<1>7. Steps[d][q] <= Steps[e][q] + 1
  BY <1>6, StepMore
<1>8. Steps[d][q] = Steps[e][q] + 1
  BY <1>2, <1>6, <1>7
<1> QED
  BY <1>6, <1>8

\* An entry of a table that is at (m, i) comes before one at (n, j), or with it.
NotAfter(m, i, n, j) == m < n \/ (m = n /\ i <= j)

\* The entry says how the cell lies to the path.
Nearest(path, c, entry) ==
  /\ \E k \in 1 .. Len(path) :
       path[k] \in DOMAIN Steps[c] /\ entry = Entry(c, Steps[c][path[k]], Len(path) - k)
  /\ \A k \in 1 .. Len(path) : path[k] \in DOMAIN Steps[c] =>
       NotAfter(entry.cost, entry.togo, Steps[c][path[k]], Len(path) - k)

\* What the cells are told is how they lie to the path.
Told(path, dist) == \A c \in DOMAIN dist : Nearest(path, c, dist[c])

\* The queue holds entries of the table, ...
Queued(dist, open) ==
  \A k \in 1 .. Len(open) : open[k].location \in DOMAIN dist /\ open[k] = dist[open[k].location]

\* ... in their order, and none that is further than what follows from the first.
InTurn(open) ==
  \A k \in 1 .. Len(open) :
    /\ \A j \in 1 .. k : NotAfter(open[j].cost, open[j].togo, open[k].cost, open[k].togo)
    /\ NotAfter(open[k].cost, open[k].togo, open[1].cost + 1, open[1].togo)

\* A cell that is not in the queue has been expanded.
Waits(c, open) == \E k \in 1 .. Len(open) : open[k].location = c

WaitsOrDone(dist, open) ==
  \A c \in DOMAIN dist : Waits(c, open) \/ Neighbors(c) \subseteq DOMAIN dist

\* No cell is queued twice.
QueuedOnce(open) == \A j, k \in 1 .. Len(open) : open[j].location = open[k].location => j = k

\* The path itself is in the table.
Covers(path, dist) == \A k \in 1 .. Len(path) : path[k] \in DOMAIN dist

Item == [location : Free, cost : Nat, togo : Nat]

Exact(path, dist, open) ==
  /\ DOMAIN dist \subseteq Free
  /\ Told(path, dist)
  /\ open \in Seq(Item)
  /\ Queued(dist, open)
  /\ InTurn(open)
  /\ WaitsOrDone(dist, open)
  /\ QueuedOnce(open)
  /\ Covers(path, dist)

\* What lies nearest is an item for the queue.
LEMMA NearestItem ==
  ASSUME NEW path \in Seq(Free), NEW c \in Free, NEW entry, Nearest(path, c, entry)
  PROVE  entry \in Item /\ entry.location = c /\ entry.cost \in Nat /\ entry.togo \in Nat
<1>1. PICK k \in 1 .. Len(path) :
        path[k] \in DOMAIN Steps[c] /\ entry = Entry(c, Steps[c][path[k]], Len(path) - k)
  BY DEF Nearest
<1>2. Steps[c][path[k]] \in Nat /\ Len(path) - k \in Nat
  BY <1>1, NoSteps
<1> QED
  BY <1>1, <1>2 DEF Entry, Item

\* A queue that is not empty has a first item.
LEMMA FirstItem ==
  ASSUME NEW open \in Seq(Item), open # << >>
  PROVE  /\ 1 \in 1 .. Len(open) /\ open[1] \in Item
         /\ open[1].location \in Free /\ open[1].cost \in Nat /\ open[1].togo \in Nat
<1>1. Len(open) \in Nat \ {0}
  BY EmptySeq
<1>2. 1 \in 1 .. Len(open)
  BY <1>1
<1>3. open[1] \in Item
  BY <1>2, ElementOfSeq
<1> QED
  BY <1>2, <1>3 DEF Item

\* What is nearer to the path than the first of the queue is in the table and not in the queue.
LEMMA NearerDone ==
  ASSUME NEW path \in Seq(Free), NEW dist, NEW open, Exact(path, dist, open), open # << >>,
         NEW i \in 1 .. Len(path), NEW c \in Free, path[i] \in DOMAIN Steps[c],
         ~ NotAfter(open[1].cost, open[1].togo, Steps[c][path[i]], Len(path) - i)
  PROVE  c \in DOMAIN dist /\ Neighbors(c) \subseteq DOMAIN dist
<1> DEFINE q == path[i]
           t == Len(path) - i
           s == open[1].cost
           g == open[1].togo
<1>1. q \in Free /\ t \in Nat /\ Len(path) \in Nat
  OBVIOUS
<1>2. 1 \in 1 .. Len(open) /\ open[1] \in Item /\ s \in Nat /\ g \in Nat
  BY FirstItem DEF Exact
<1>3. Cells \in Nat
  BY WithinIs
<1> DEFINE Q == {k \in 0 .. Cells : \A e \in Free :
                   q \in DOMAIN Steps[e] /\ Steps[e][q] = k /\ ~ NotAfter(s, g, k, t)
                     => e \in DOMAIN dist /\ Neighbors(e) \subseteq DOMAIN dist}
<1>4. ASSUME NEW e \in DOMAIN dist, q \in DOMAIN Steps[e], ~ NotAfter(s, g, Steps[e][q], t)
      PROVE  Neighbors(e) \subseteq DOMAIN dist
  <2>1. e \in Free /\ Nearest(path, e, dist[e])
    BY DEF Exact, Told
  <2>2. /\ NotAfter(dist[e].cost, dist[e].togo, Steps[e][q], t)
        /\ dist[e].cost \in Nat /\ dist[e].togo \in Nat /\ Steps[e][q] \in Nat
    <3>1. NotAfter(dist[e].cost, dist[e].togo, Steps[e][q], t)
      BY <1>4, <2>1 DEF Nearest
    <3>2. dist[e].cost \in Nat /\ dist[e].togo \in Nat
      BY <2>1, NearestItem
    <3> QED
      BY <1>4, <2>1, <3>1, <3>2, NoSteps
  <2>3. ~ NotAfter(s, g, dist[e].cost, dist[e].togo)
    <3> HIDE DEF s, g, t, q
    <3> QED
      BY <1>1, <1>2, <1>4, <2>2 DEF NotAfter
  <2>4. ~ Waits(e, open)
    <3> SUFFICES ASSUME NEW k \in 1 .. Len(open), open[k].location = e PROVE FALSE
      BY DEF Waits
    <3>1. open[k] = dist[e]
      BY DEF Exact, Queued
    <3>2. 1 \in 1 .. k
      OBVIOUS
    <3>3. NotAfter(s, g, open[k].cost, open[k].togo)
      BY <3>2 DEF Exact, InTurn
    <3> QED
      BY <2>3, <3>1, <3>3
  <2> QED
    BY <2>4 DEF Exact, WaitsOrDone
<1>5. 0 \in Q
  <2> SUFFICES ASSUME NEW e \in Free, q \in DOMAIN Steps[e], Steps[e][q] = 0, ~ NotAfter(s, g, 0, t)
               PROVE  e \in DOMAIN dist /\ Neighbors(e) \subseteq DOMAIN dist
    BY <1>3
  <2>1. e = q
    BY NoSteps
  <2>2. e \in DOMAIN dist
    BY <2>1 DEF Exact, Covers
  <2> QED
    BY <1>4, <2>2
<1>6. ASSUME NEW k \in 1 .. Cells, k - 1 \in Q
      PROVE  k \in Q
  <2> SUFFICES ASSUME NEW e \in Free, q \in DOMAIN Steps[e], Steps[e][q] = k, ~ NotAfter(s, g, k, t)
               PROVE  e \in DOMAIN dist /\ Neighbors(e) \subseteq DOMAIN dist
    BY <1>3
  <2>1. q # e
    BY NoSteps
  <2>2. PICK z \in Neighbors(e) : q \in DOMAIN Steps[z] /\ Steps[e][q] = Steps[z][q] + 1
    BY <2>1, StepLess
  <2>3. z \in Free /\ e \in Neighbors(z) /\ Steps[z][q] \in Nat
    BY <2>2, NeighborsMutual, NoSteps
  <2>4. Steps[z][q] = k - 1 /\ ~ NotAfter(s, g, k - 1, t)
    <3>1. Steps[z][q] = k - 1
      BY <2>2, <2>3
    <3>2. ~ NotAfter(s, g, k - 1, t)
      <4> HIDE DEF s, g, t, q
      <4> QED
        BY <1>1, <1>2 DEF NotAfter
    <3> QED
      BY <3>1, <3>2
  <2>5. Neighbors(z) \subseteq DOMAIN dist
    BY <1>6, <2>2, <2>3, <2>4
  <2>6. e \in DOMAIN dist
    BY <2>3, <2>5
  <2> QED
    BY <1>4, <2>6
<1> HIDE DEF Q
<1>7. \A k \in 0 .. Cells : k \in Q
  BY <1>3, <1>5, <1>6, NatUpTo
<1>8. Steps[c][q] \in 0 .. Cells
  BY StepsAre
<1> QED
  BY <1>7, <1>8 DEF Q

\* The neighbours of the first of the queue: those that are told something are told no more
\* than a step more, and for the others a step more is right.
LEMMA FrontTells ==
  ASSUME NEW path \in Seq(Free), NEW dist, NEW open, Exact(path, dist, open), open # << >>,
         NEW d \in Neighbors(open[1].location)
  PROVE  /\ d \in DOMAIN dist => dist[d].cost <= open[1].cost + 1
         /\ d \notin DOMAIN dist => Nearest(path, d, Entry(d, open[1].cost + 1, open[1].togo))
<1> DEFINE c == open[1].location
           s == open[1].cost
           g == open[1].togo
<1>1. 1 \in 1 .. Len(open) /\ open[1] \in Item /\ c \in Free /\ s \in Nat /\ g \in Nat
  BY FirstItem DEF Exact
<1>2. c \in DOMAIN dist /\ open[1] = dist[c] /\ Nearest(path, c, open[1])
  BY <1>1 DEF Exact, Queued, Told
<1>3. PICK k \in 1 .. Len(path) :
        path[k] \in DOMAIN Steps[c] /\ open[1] = Entry(c, Steps[c][path[k]], Len(path) - k)
  BY <1>2 DEF Nearest
<1>4. s = Steps[c][path[k]] /\ g = Len(path) - k
  BY <1>3 DEF Entry
<1>5. d \in Free /\ c \in Neighbors(d)
  BY <1>1, NeighborsMutual
<1>6. path[k] \in DOMAIN Steps[d] /\ Steps[d][path[k]] <= s + 1 /\ Steps[d][path[k]] \in Nat
  BY <1>3, <1>4, <1>5, StepMore, NoSteps
<1>7. ASSUME d \in DOMAIN dist
      PROVE  dist[d].cost <= s + 1
  <2>1. Nearest(path, d, dist[d])
    BY <1>7 DEF Exact, Told
  <2>2. NotAfter(dist[d].cost, dist[d].togo, Steps[d][path[k]], Len(path) - k) /\ dist[d].cost \in Nat
    BY <1>3, <1>5, <1>6, <2>1, NearestItem DEF Nearest
  <2> HIDE DEF s
  <2> QED
    BY <1>1, <1>6, <2>2 DEF NotAfter
<1>8. ASSUME d \notin DOMAIN dist
      PROVE  Nearest(path, d, Entry(d, s + 1, g))
  <2>1. ASSUME NEW i \in 1 .. Len(path), path[i] \in DOMAIN Steps[d]
        PROVE  NotAfter(s + 1, g, Steps[d][path[i]], Len(path) - i)
    <3>1. SUFFICES ASSUME ~ NotAfter(s + 1, g, Steps[d][path[i]], Len(path) - i) PROVE FALSE
      OBVIOUS
    <3>2. path[i] # d
      BY <1>8 DEF Exact, Covers
    <3>3. PICK e \in Neighbors(d) : path[i] \in DOMAIN Steps[e] /\ Steps[d][path[i]] = Steps[e][path[i]] + 1
      BY <1>5, <2>1, <3>2, StepLess
    <3>4. e \in Free /\ d \in Neighbors(e) /\ Steps[e][path[i]] \in Nat /\ Steps[d][path[i]] \in Nat
      BY <1>5, <2>1, <3>3, NeighborsMutual, NoSteps
    <3>5. ~ NotAfter(s, g, Steps[e][path[i]], Len(path) - i)
      <4>1. Len(path) - i \in Nat
        OBVIOUS
      <4> HIDE DEF s, g
      <4> QED
        BY <1>1, <3>1, <3>3, <3>4, <4>1 DEF NotAfter
    <3>6. Neighbors(e) \subseteq DOMAIN dist
      BY <3>3, <3>4, <3>5, NearerDone
    <3> QED
      BY <1>8, <3>4, <3>6
  <2>2. Steps[d][path[k]] = s + 1
    <3>1. NotAfter(s + 1, g, Steps[d][path[k]], g)
      BY <1>4, <1>6, <2>1
    <3> HIDE DEF s, g
    <3> QED
      BY <1>1, <1>6, <3>1 DEF NotAfter
  <2>3. Entry(d, s + 1, g) = Entry(d, Steps[d][path[k]], Len(path) - k)
    BY <1>4, <2>2
  <2>4. Entry(d, s + 1, g).cost = s + 1 /\ Entry(d, s + 1, g).togo = g
    BY DEF Entry
  <2> QED
    BY <1>6, <2>1, <2>3, <2>4 DEF Nearest
<1> QED
  BY <1>7, <1>8

\* The neighbours in their order are the neighbours, each of them once.
LEMMA InOrderIs ==
  ASSUME NEW c \in Free, NEW cells \in SUBSET Neighbors(c)
  PROVE  InOrder(c, cells) \in Seq(cells) /\ Range(InOrder(c, cells)) = cells
<1> DEFINE listed(d) == IF d \in cells THEN << d >> ELSE << >>
           n == listed(c - Cols)
           s == listed(c + Cols)
           w == listed(c - 1)
           e == listed(c + 1)
           sides == IF Cols = 1 THEN << >> ELSE w \o e
<1>1. InOrder(c, cells) = (n \o s) \o sides
  BY DEF InOrder
<1>2. ASSUME NEW d
      PROVE  listed(d) \in Seq(cells) /\ Range(listed(d)) = cells \cap {d}
  <2>1. CASE d \in cells
    <3>1. << d >> \in Seq(cells) /\ Range(<< d >>) = {d}
      BY <2>1 DEF Range
    <3> QED
      BY <2>1, <3>1
  <2>2. CASE d \notin cells
    <3>1. << >> \in Seq(cells) /\ Range(<< >>) = {}
      BY DEF Range
    <3> QED
      BY <2>2, <3>1
  <2> QED
    BY <2>1, <2>2
<1> HIDE DEF listed
<1>3. n \o s \in Seq(cells) /\ Range(n \o s) = cells \cap {c - Cols, c + Cols}
  <2>1. n \in Seq(cells) /\ s \in Seq(cells) /\ Range(n) = cells \cap {c - Cols} /\ Range(s) = cells \cap {c + Cols}
    BY <1>2
  <2> HIDE DEF n, s
  <2>2. n \o s \in Seq(cells) /\ Range(n \o s) = Range(n) \cup Range(s)
    BY <2>1, ConcatProperties, RangeConcatenation
  <2> QED
    BY <2>1, <2>2
<1>4. w \o e \in Seq(cells) /\ Range(w \o e) = cells \cap {c - 1, c + 1}
  <2>1. w \in Seq(cells) /\ e \in Seq(cells) /\ Range(w) = cells \cap {c - 1} /\ Range(e) = cells \cap {c + 1}
    BY <1>2
  <2> HIDE DEF w, e
  <2>2. w \o e \in Seq(cells) /\ Range(w \o e) = Range(w) \cup Range(e)
    BY <2>1, ConcatProperties, RangeConcatenation
  <2> QED
    BY <2>1, <2>2
<1>5. sides \in Seq(cells) /\ cells \subseteq {c - Cols, c + Cols} \cup Range(sides) /\ Range(sides) \subseteq cells
  <2>1. c \in Nat /\ Cols \in Nat \ {0}
    BY FreeFinite, GridAssumption
  <2>2. \A d \in cells : \/ d = c - Cols \/ d = c + Cols
                         \/ d = c - 1 /\ c % Cols > 0
                         \/ d = c + 1 /\ c % Cols < Cols - 1
    BY DEF Neighbors
  <2>3. CASE Cols = 1
    <3>1. << >> \in Seq(cells) /\ Range(<< >>) = {}
      BY DEF Range
    <3>2. c - 1 = c - Cols /\ c + 1 = c + Cols
      BY <2>3
    <3>3. cells \subseteq {c - Cols, c + Cols}
      BY <2>2, <3>2
    <3> QED
      BY <2>3, <3>1, <3>3
  <2>4. CASE Cols # 1
    <3>1. sides = w \o e
      BY <2>4
    <3>2. cells \subseteq {c - Cols, c + Cols} \cup (cells \cap {c - 1, c + 1})
      BY <2>2
    <3> HIDE DEF sides, w, e
    <3> QED
      BY <1>4, <3>1, <3>2
  <2> QED
    BY <2>3, <2>4
<1> DEFINE v == n \o s
<1> HIDE DEF sides, n, s, w, e
<1>6. v \in Seq(cells) /\ Range(v) = cells \cap {c - Cols, c + Cols}
  BY <1>3
<1> HIDE DEF v
<1>7. v \o sides \in Seq(cells) /\ Range(v \o sides) = Range(v) \cup Range(sides)
  BY <1>5, <1>6, ConcatProperties, RangeConcatenation
<1>8. Range(v \o sides) = cells
  BY <1>5, <1>6, <1>7
<1> QED
  BY <1>1, <1>7, <1>8 DEF v

\* Nothing is listed twice.
Differ(seq) == \A j, k \in 1 .. Len(seq) : seq[j] = seq[k] => j = k

LEMMA ConcatDiffer ==
  ASSUME NEW S, NEW l \in Seq(S), NEW m \in Seq(S), Differ(l), Differ(m), Range(l) \cap Range(m) = {}
  PROVE  Differ(l \o m)
<1>1. /\ Len(l) \in Nat /\ Len(m) \in Nat /\ Len(l \o m) = Len(l) + Len(m)
      /\ \A k \in 1 .. Len(l) + Len(m) : (l \o m)[k] = IF k <= Len(l) THEN l[k] ELSE m[k - Len(l)]
  BY ConcatProperties
<1>2. \A j \in 1 .. Len(l), k \in 1 .. Len(m) : l[j] # m[k]
  <2>1. DOMAIN l = 1 .. Len(l) /\ DOMAIN m = 1 .. Len(m)
    OBVIOUS
  <2> QED
    BY <2>1 DEF Range
<1> SUFFICES ASSUME NEW j \in 1 .. Len(l \o m), NEW k \in 1 .. Len(l \o m), (l \o m)[j] = (l \o m)[k]
             PROVE  j = k
  BY DEF Differ
<1>3. j \in 1 .. Len(l) + Len(m) /\ k \in 1 .. Len(l) + Len(m)
  BY <1>1
<1>4. CASE j <= Len(l) /\ k <= Len(l)
  <2>1. j \in 1 .. Len(l) /\ k \in 1 .. Len(l) /\ l[j] = l[k]
    BY <1>1, <1>3, <1>4
  <2> QED
    BY <2>1 DEF Differ
<1>5. CASE ~ (j <= Len(l)) /\ ~ (k <= Len(l))
  <2>1. j - Len(l) \in 1 .. Len(m) /\ k - Len(l) \in 1 .. Len(m) /\ m[j - Len(l)] = m[k - Len(l)]
    BY <1>1, <1>3, <1>5
  <2>2. j - Len(l) = k - Len(l)
    BY <2>1 DEF Differ
  <2> QED
    BY <1>1, <1>3, <2>2
<1>6. CASE j <= Len(l) /\ ~ (k <= Len(l))
  <2>1. j \in 1 .. Len(l) /\ k - Len(l) \in 1 .. Len(m) /\ l[j] = m[k - Len(l)]
    BY <1>1, <1>3, <1>6
  <2> QED
    BY <1>2, <2>1
<1>7. CASE ~ (j <= Len(l)) /\ k <= Len(l)
  <2>1. k \in 1 .. Len(l) /\ j - Len(l) \in 1 .. Len(m) /\ l[k] = m[j - Len(l)]
    BY <1>1, <1>3, <1>7
  <2> QED
    BY <1>2, <2>1
<1> QED
  BY <1>4, <1>5, <1>6, <1>7

\* Each neighbour is listed once, on maps of one column, too.
LEMMA InOrderDiffers ==
  ASSUME NEW c \in Free, NEW cells \in SUBSET Neighbors(c)
  PROVE  Differ(InOrder(c, cells))
<1> DEFINE listed(d) == IF d \in cells THEN << d >> ELSE << >>
           n == listed(c - Cols)
           s == listed(c + Cols)
           w == listed(c - 1)
           e == listed(c + 1)
           sides == IF Cols = 1 THEN << >> ELSE w \o e
<1>1. InOrder(c, cells) = (n \o s) \o sides
  BY DEF InOrder
<1>2. c \in Nat /\ Cols \in Nat \ {0}
  BY FreeFinite, GridAssumption
<1>3. ASSUME NEW d
      PROVE  listed(d) \in Seq(cells) /\ Range(listed(d)) \subseteq {d} /\ Differ(listed(d))
  <2>1. CASE d \in cells
    <3>1. << d >> \in Seq(cells) /\ Range(<< d >>) = {d} /\ Len(<< d >>) = 1
      BY <2>1 DEF Range
    <3> QED
      BY <2>1, <3>1 DEF Differ
  <2>2. CASE d \notin cells
    <3>1. << >> \in Seq(cells) /\ Range(<< >>) = {} /\ Len(<< >>) = 0
      BY DEF Range
    <3> QED
      BY <2>2, <3>1 DEF Differ
  <2> QED
    BY <2>1, <2>2
<1> HIDE DEF listed
<1>4. ASSUME NEW d, NEW d2, d # d2
      PROVE  /\ listed(d) \o listed(d2) \in Seq(cells) /\ Differ(listed(d) \o listed(d2))
             /\ Range(listed(d) \o listed(d2)) \subseteq {d, d2}
  <2> DEFINE l == listed(d)
             m == listed(d2)
  <2>1. /\ l \in Seq(cells) /\ m \in Seq(cells) /\ Differ(l) /\ Differ(m)
        /\ Range(l) \subseteq {d} /\ Range(m) \subseteq {d2}
    BY <1>3
  <2> HIDE DEF l, m
  <2>2. Range(l) \cap Range(m) = {}
    BY <1>4, <2>1
  <2>3. l \o m \in Seq(cells) /\ Range(l \o m) = Range(l) \cup Range(m)
    BY <2>1, ConcatProperties, RangeConcatenation
  <2>4. Differ(l \o m)
    BY <2>1, <2>2, ConcatDiffer
  <2> QED
    BY <2>1, <2>3, <2>4 DEF l, m
<1>5. n \o s \in Seq(cells) /\ Differ(n \o s) /\ Range(n \o s) \subseteq {c - Cols, c + Cols}
  <2>1. c - Cols # c + Cols
    BY <1>2
  <2> QED
    BY <1>4, <2>1
<1>6. sides \in Seq(cells) /\ Differ(sides) /\ Range(sides) \cap {c - Cols, c + Cols} = {}
  <2>1. CASE Cols = 1
    <3>1. << >> \in Seq(cells) /\ Range(<< >>) = {} /\ Len(<< >>) = 0
      BY DEF Range
    <3> QED
      BY <2>1, <3>1 DEF Differ
  <2>2. CASE Cols # 1
    <3>1. /\ c - 1 # c + 1
          /\ c - 1 # c - Cols /\ c - 1 # c + Cols /\ c + 1 # c - Cols /\ c + 1 # c + Cols
      BY <1>2, <2>2
    <3>2. w \o e \in Seq(cells) /\ Differ(w \o e) /\ Range(w \o e) \subseteq {c - 1, c + 1}
      BY <1>4, <3>1
    <3>3. sides = w \o e
      BY <2>2
    <3> HIDE DEF sides, w, e
    <3> QED
      BY <3>1, <3>2, <3>3
  <2> QED
    BY <2>1, <2>2
<1> DEFINE v == n \o s
<1> HIDE DEF sides, n, s, w, e
<1>7. v \in Seq(cells) /\ Differ(v) /\ Range(v) \subseteq {c - Cols, c + Cols}
  BY <1>5
<1> HIDE DEF v
<1>8. Range(v) \cap Range(sides) = {}
  BY <1>6, <1>7
<1>9. Differ(v \o sides)
  BY <1>6, <1>7, <1>8, ConcatDiffer
<1> QED
  BY <1>1, <1>9 DEF v

\* An entry for a cell of the map is an item for the queue.
LEMMA EntryIsItem ==
  ASSUME NEW c \in Free, NEW m \in Nat, NEW i \in Nat
  PROVE  /\ Entry(c, m, i) \in Item
         /\ Entry(c, m, i).location = c /\ Entry(c, m, i).cost = m /\ Entry(c, m, i).togo = i
  BY DEF Entry, Item

\* What is added to a table: the neighbours that nothing was known of.
LEMMA BetteredIs ==
  ASSUME NEW path \in Seq(Free), NEW table, Exact(path, table.dist, table.open), table.open # << >>
  PROVE  LET curr  == table.open[1]
             added == Bettered(table, curr)
             fresh == Neighbors(curr.location) \ DOMAIN table.dist
         IN  /\ added \in Seq(Item)
             /\ \A k \in 1 .. Len(added) :
                  added[k].location \in fresh /\ added[k] = Entry(added[k].location, curr.cost + 1, curr.togo)
             /\ \A d \in fresh : \E k \in 1 .. Len(added) : added[k].location = d
             /\ QueuedOnce(added)
<1> DEFINE curr == table.open[1]
           dist == table.dist
           open == table.open
           c == curr.location
           fresh == Neighbors(c) \ DOMAIN dist
           better == InOrder(c, {d \in Neighbors(c) : d \in DOMAIN dist => curr.cost + 1 < dist[d].cost})
           added == [k \in DOMAIN better |-> Entry(better[k], curr.cost + 1, curr.togo)]
<1>1. /\ 1 \in 1 .. Len(open) /\ open[1] \in Item
      /\ c \in Free /\ curr.cost \in Nat /\ curr.togo \in Nat
  BY FirstItem DEF Exact
<1>2. {d \in Neighbors(c) : d \in DOMAIN dist => curr.cost + 1 < dist[d].cost} = fresh
  <2>1. ASSUME NEW d \in Neighbors(c), d \in DOMAIN dist
        PROVE  ~ (curr.cost + 1 < dist[d].cost)
    <3>1. dist[d].cost <= open[1].cost + 1
      BY <2>1, FrontTells
    <3>2. d \in Free /\ Nearest(path, d, dist[d])
      BY <2>1 DEF Exact, Told
    <3>3. dist[d].cost \in Nat
      BY <3>2, NearestItem
    <3> QED
      BY <1>1, <3>1, <3>3
  <2> QED
    BY <2>1
<1>3. better \in Seq(fresh) /\ Range(better) = fresh /\ Differ(better)
  <2>1. fresh \in SUBSET Neighbors(c)
    OBVIOUS
  <2> HIDE DEF fresh, c
  <2> QED
    BY <1>1, <1>2, <2>1, InOrderIs, InOrderDiffers
<1>4. Bettered(table, curr) = added
  BY DEF Bettered
<1> HIDE DEF better
<1>5. DOMAIN better = 1 .. Len(better) /\ Len(better) \in Nat
      /\ \A k \in 1 .. Len(better) : better[k] \in fresh
  BY <1>3, LenProperties, ElementOfSeq
<1>6. /\ \A k \in 1 .. Len(better) : added[k] = Entry(better[k], curr.cost + 1, curr.togo)
      /\ \A k \in 1 .. Len(better) : added[k].location = better[k]
  BY <1>5 DEF Entry
<1>7. \A k \in 1 .. Len(better) : added[k] \in Item
  <2>1. \A d \in fresh : d \in Free
    BY DEF Neighbors
  <2>2. curr.cost + 1 \in Nat /\ curr.togo \in Nat
    BY <1>1
  <2>3. \A d \in Free : Entry(d, curr.cost + 1, curr.togo) \in Item
    <3> DEFINE m == curr.cost + 1
               i == curr.togo
    <3>1. m \in Nat /\ i \in Nat
      BY <2>2
    <3> HIDE DEF m, i
    <3>2. \A d \in Free : Entry(d, m, i) \in Item
      BY <3>1, EntryIsItem
    <3> QED
      BY <3>2 DEF m, i
  <2> HIDE DEF curr, added, fresh
  <2> QED
    BY <1>5, <1>6, <2>1, <2>3
<1>8. added \in Seq(Item) /\ Len(added) = Len(better)
  <2>1. DOMAIN added = 1 .. Len(better)
    BY <1>5
  <2>2. added = [k \in 1 .. Len(better) |-> added[k]]
    BY <1>5
  <2> HIDE DEF added
  <2>3. added \in [1 .. Len(better) -> Item]
    BY <1>7, <2>2
  <2> QED
    BY <1>5, <2>3
<1>9. \A d \in fresh : \E k \in 1 .. Len(better) : better[k] = d
  <2>1. \A d \in Range(better) : \E k \in DOMAIN better : better[k] = d
    BY DEF Range
  <2> QED
    BY <1>3, <1>5, <2>1
<1> HIDE DEF added, fresh
<1>10. /\ added \in Seq(Item)
       /\ \A k \in 1 .. Len(added) :
            added[k].location \in fresh /\ added[k] = Entry(added[k].location, curr.cost + 1, curr.togo)
       /\ \A d \in fresh : \E k \in 1 .. Len(added) : added[k].location = d
  BY <1>5, <1>6, <1>8, <1>9
<1>11. QueuedOnce(added)
  BY <1>3, <1>6, <1>8 DEF QueuedOnce, Differ
<1> QED
  BY <1>4, <1>10, <1>11 DEF fresh, c

\* The cells that are new to a table are told the same.
Tells(added, fresh, m, i) ==
  /\ \A k \in 1 .. Len(added) :
       added[k].location \in fresh /\ added[k] = Entry(added[k].location, m, i)
  /\ \A d \in fresh : \E k \in 1 .. Len(added) : added[k].location = d

\* A table with these cells, too.
Grown(grown, dist, fresh, m, i) ==
  /\ DOMAIN grown = DOMAIN dist \cup fresh
  /\ \A d \in DOMAIN dist : grown[d] = dist[d]
  /\ \A d \in fresh : grown[d] = Entry(d, m, i)

\* What With adds is added.
LEMMA WithAdded ==
  ASSUME NEW dist, NEW added \in Seq(Item), NEW fresh, NEW m, NEW i, Tells(added, fresh, m, i),
         \A d \in fresh : d \notin DOMAIN dist
  PROVE  Grown(With(dist, added), dist, fresh, m, i)
<1>1. DOMAIN added = 1 .. Len(added)
  BY LenProperties
<1> DEFINE L == {added[k].location : k \in DOMAIN added}
<1>2. L = fresh
  BY <1>1 DEF Tells
<1> DEFINE w == [d \in DOMAIN dist \cup L |->
                   IF \E k \in DOMAIN added : added[k].location = d
                   THEN added[CHOOSE k \in DOMAIN added : added[k].location = d] ELSE dist[d]]
<1>3. With(dist, added) = w
  BY DEF With
<1>4. DOMAIN w = DOMAIN dist \cup fresh
  BY <1>2
<1>5. ASSUME NEW d \in DOMAIN dist
      PROVE  w[d] = dist[d]
  <2>1. ~ \E k \in DOMAIN added : added[k].location = d
    BY <1>1 DEF Tells
  <2> HIDE DEF L
  <2> QED
    BY <2>1
<1>6. ASSUME NEW d \in fresh
      PROVE  w[d] = Entry(d, m, i)
  <2> DEFINE k == CHOOSE k \in DOMAIN added : added[k].location = d
  <2>1. \E j \in DOMAIN added : added[j].location = d
    BY <1>1 DEF Tells
  <2>2. k \in DOMAIN added /\ added[k].location = d
    BY <2>1
  <2>3. w[d] = added[k]
    BY <1>2, <2>1
  <2> HIDE DEF k, w
  <2> QED
    BY <1>1, <2>2, <2>3 DEF Tells
<1> QED
  BY <1>3, <1>4, <1>5, <1>6 DEF Grown

\* Expanding the front of the queue keeps a table exact.
LEMMA ExpandedExact ==
  ASSUME NEW path \in Seq(Free), NEW table, Exact(path, table.dist, table.open), table.open # << >>
  PROVE  Exact(path, Expanded(table).dist, Expanded(table).open)
<1> DEFINE open  == table.open
           dist  == table.dist
           curr  == open[1]
           c     == curr.location
           s     == curr.cost
           g     == curr.togo
           fresh == Neighbors(c) \ DOMAIN dist
           added == Bettered(table, curr)
           dist2 == With(dist, added)
           open2 == Tail(open) \o added
           n     == Len(open) - 1
<1>1. /\ DOMAIN dist \subseteq Free /\ Told(path, dist) /\ open \in Seq(Item)
      /\ Queued(dist, open) /\ InTurn(open) /\ WaitsOrDone(dist, open) /\ Covers(path, dist)
      /\ QueuedOnce(open)
  BY DEF Exact
<1>2. /\ 1 \in 1 .. Len(open) /\ curr \in Item
      /\ c \in Free /\ s \in Nat /\ g \in Nat /\ Len(open) \in Nat
  BY <1>1, FirstItem
<1>3. Expanded(table) = [dist |-> dist2, open |-> open2]
  <2>1. Head(open) = open[1]
    OBVIOUS
  <2> QED
    BY <2>1 DEF Expanded
<1>4. /\ added \in Seq(Item)
      /\ \A k \in 1 .. Len(added) :
           added[k].location \in fresh /\ added[k] = Entry(added[k].location, s + 1, g)
      /\ \A d \in fresh : \E k \in 1 .. Len(added) : added[k].location = d
      /\ QueuedOnce(added)
  BY BetteredIs
<1>5. \A d \in fresh : d \in Free /\ Nearest(path, d, Entry(d, s + 1, g))
  BY FrontTells DEF Neighbors
<1> HIDE DEF added
<1>6. /\ DOMAIN dist2 = DOMAIN dist \cup fresh
      /\ \A d \in DOMAIN dist : dist2[d] = dist[d]
      /\ \A d \in fresh : dist2[d] = Entry(d, s + 1, g)
  <2> DEFINE m == s + 1
  <2>1. Tells(added, fresh, m, g)
    BY <1>4 DEF Tells
  <2>2. \A d \in fresh : d \notin DOMAIN dist
    OBVIOUS
  <2>3. added \in Seq(Item)
    BY <1>4
  <2> HIDE DEF m, fresh, g, dist
  <2>4. Grown(With(dist, added), dist, fresh, m, g)
    BY <2>1, <2>2, <2>3, WithAdded
  <2> QED
    BY <2>4 DEF m, Grown
<1> DEFINE rest == Tail(open)
<1>7. /\ n \in Nat /\ rest \in Seq(Item) /\ Len(rest) = n /\ Len(added) \in Nat
      /\ \A k \in 1 .. n : rest[k] = open[k + 1]
  BY <1>1, <1>2, <1>4, HeadTailProperties
<1> HIDE DEF dist2, rest, n
<1>8. /\ open2 \in Seq(Item) /\ Len(open2) = n + Len(added)
      /\ \A k \in 1 .. n + Len(added) : open2[k] = IF k <= n THEN rest[k] ELSE added[k - n]
  <2>1. open2 = rest \o added
    BY DEF rest
  <2>2. \A k \in 1 .. n + Len(added) : k <= Len(rest) <=> k <= n
    BY <1>7
  <2> HIDE DEF open2
  <2> QED
    BY <1>4, <1>7, <2>1, ConcatProperties
<1> HIDE DEF open2
<1>9. ASSUME NEW k \in 1 .. Len(open2)
      PROVE  \/ k \in 1 .. n /\ k + 1 \in 1 .. Len(open) /\ open2[k] = open[k + 1]
             \/ /\ k > n /\ k - n \in 1 .. Len(added) /\ open2[k] = added[k - n]
                /\ open2[k].location \in fresh
                /\ open2[k] = Entry(open2[k].location, s + 1, g)
                /\ open2[k].cost = s + 1 /\ open2[k].togo = g
  <2>1. k \in Nat /\ k \in 1 .. n + Len(added)
    BY <1>7, <1>8
  <2>2. CASE k <= n
    <3>1. k \in 1 .. n /\ k + 1 \in 1 .. Len(open)
      BY <1>2, <1>7, <2>1, <2>2 DEF n
    <3> QED
      BY <1>7, <1>8, <2>1, <2>2, <3>1
  <2>3. CASE k > n
    <3>1. k - n \in 1 .. Len(added) /\ ~ (k <= n)
      BY <1>7, <2>1, <2>3
    <3>2. open2[k] = added[k - n]
      BY <1>8, <2>1, <3>1
    <3>3. open2[k].location \in fresh /\ open2[k] = Entry(open2[k].location, s + 1, g)
      BY <1>4, <3>1, <3>2
    <3>4. open2[k].cost = s + 1 /\ open2[k].togo = g
      <4> DEFINE e == open2[k]
                 m == s + 1
      <4>1. e = Entry(e.location, m, g)
        BY <3>3
      <4> HIDE DEF e, m, g
      <4>2. e.cost = m /\ e.togo = g
        BY <4>1 DEF Entry
      <4> QED
        BY <4>2 DEF e, m
    <3> QED
      BY <2>3, <3>1, <3>2, <3>3, <3>4
  <2> QED
    BY <1>7, <2>1, <2>2, <2>3
<1>10. DOMAIN dist2 \subseteq Free
  BY <1>1, <1>5, <1>6
<1>11. Told(path, dist2)
  BY <1>1, <1>5, <1>6 DEF Told
<1>12. Queued(dist2, open2)
  <2> SUFFICES ASSUME NEW k \in 1 .. Len(open2)
               PROVE  open2[k].location \in DOMAIN dist2 /\ open2[k] = dist2[open2[k].location]
    BY DEF Queued
  <2>1. CASE k + 1 \in 1 .. Len(open) /\ open2[k] = open[k + 1]
    <3>1. open[k + 1].location \in DOMAIN dist /\ open[k + 1] = dist[open[k + 1].location]
      BY <1>1, <2>1 DEF Queued
    <3> QED
      BY <1>6, <2>1, <3>1
  <2>2. CASE open2[k].location \in fresh /\ open2[k] = Entry(open2[k].location, s + 1, g)
    BY <1>6, <2>2
  <2> QED
    BY <1>9, <2>1, <2>2
<1>13. \A k \in 1 .. Len(open2) :
         /\ open2[k].cost \in Nat /\ open2[k].togo \in Nat
         /\ NotAfter(s, g, open2[k].cost, open2[k].togo)
         /\ NotAfter(open2[k].cost, open2[k].togo, s + 1, g)
  <2> SUFFICES ASSUME NEW k \in 1 .. Len(open2)
               PROVE  /\ open2[k].cost \in Nat /\ open2[k].togo \in Nat
                      /\ NotAfter(s, g, open2[k].cost, open2[k].togo)
                      /\ NotAfter(open2[k].cost, open2[k].togo, s + 1, g)
    OBVIOUS
  <2>1. open2[k].cost \in Nat /\ open2[k].togo \in Nat
    <3>1. open2[k] \in Item
      BY <1>8, ElementOfSeq
    <3> QED
      BY <3>1 DEF Item
  <2>2. CASE k + 1 \in 1 .. Len(open) /\ open2[k] = open[k + 1]
    <3>1. 1 \in 1 .. k + 1
      BY <2>2
    <3>2. NotAfter(s, g, open[k + 1].cost, open[k + 1].togo) /\ NotAfter(open[k + 1].cost, open[k + 1].togo, s + 1, g)
      BY <1>1, <2>2, <3>1 DEF InTurn
    <3> QED
      BY <2>1, <2>2, <3>2
  <2>3. CASE open2[k].cost = s + 1 /\ open2[k].togo = g
    <3> HIDE DEF s, g
    <3> QED
      BY <1>2, <2>1, <2>3 DEF NotAfter
  <2> QED
    BY <1>9, <2>2, <2>3
<1>14. InTurn(open2)
  <2> SUFFICES ASSUME NEW k \in 1 .. Len(open2)
               PROVE  /\ \A j \in 1 .. k : NotAfter(open2[j].cost, open2[j].togo, open2[k].cost, open2[k].togo)
                      /\ NotAfter(open2[k].cost, open2[k].togo, open2[1].cost + 1, open2[1].togo)
    BY DEF InTurn
  <2>1. 1 \in 1 .. Len(open2) /\ \A j \in 1 .. k : j \in 1 .. Len(open2)
    BY <1>8
  <2>2. NotAfter(open2[k].cost, open2[k].togo, open2[1].cost + 1, open2[1].togo)
    <3>1. /\ NotAfter(open2[k].cost, open2[k].togo, s + 1, g)
          /\ NotAfter(s, g, open2[1].cost, open2[1].togo)
          /\ open2[1].cost \in Nat /\ open2[1].togo \in Nat /\ open2[k].cost \in Nat /\ open2[k].togo \in Nat
      BY <1>13, <2>1
    <3> HIDE DEF s, g
    <3> QED
      BY <1>2, <3>1 DEF NotAfter
  <2>3. ASSUME NEW j \in 1 .. k
        PROVE  NotAfter(open2[j].cost, open2[j].togo, open2[k].cost, open2[k].togo)
    <3>1. CASE k \in 1 .. n /\ k + 1 \in 1 .. Len(open) /\ open2[k] = open[k + 1]
      <4>1. ~ (j > n) /\ j + 1 \in 1 .. k + 1
        BY <1>7, <3>1
      <4>2. open2[j] = open[j + 1]
        BY <1>9, <2>1, <4>1
      <4>3. NotAfter(open[j + 1].cost, open[j + 1].togo, open[k + 1].cost, open[k + 1].togo)
        BY <1>1, <3>1, <4>1 DEF InTurn
      <4> QED
        BY <3>1, <4>2, <4>3
    <3>2. CASE open2[k].cost = s + 1 /\ open2[k].togo = g
      BY <1>13, <2>1, <3>2
    <3> QED
      BY <1>9, <3>1, <3>2
  <2> QED
    BY <2>2, <2>3
<1>15. WaitsOrDone(dist2, open2)
  <2> SUFFICES ASSUME NEW d \in DOMAIN dist2, ~ Waits(d, open2)
               PROVE  Neighbors(d) \subseteq DOMAIN dist2
    BY DEF WaitsOrDone
  <2>1. d \notin fresh
    <3> SUFFICES ASSUME d \in fresh PROVE FALSE
      OBVIOUS
    <3>1. PICK k \in 1 .. Len(added) : added[k].location = d
      BY <1>4
    <3>2. k + n \in 1 .. Len(open2) /\ k + n \in 1 .. n + Len(added) /\ ~ (k + n <= n) /\ (k + n) - n = k
      BY <1>7, <1>8
    <3>3. open2[k + n] = added[k]
      BY <1>8, <3>2
    <3> QED
      BY <3>1, <3>2, <3>3 DEF Waits
  <2>2. d \in DOMAIN dist
    BY <1>6, <2>1
  <2>3. CASE d = c
    BY <1>6, <2>3
  <2>4. CASE d # c
    <3>1. ~ Waits(d, open)
      <4> SUFFICES ASSUME NEW k \in 1 .. Len(open), open[k].location = d PROVE FALSE
        BY DEF Waits
      <4>1. k # 1
        BY <2>4
      <4>2. k - 1 \in 1 .. n /\ k - 1 \in 1 .. Len(open2) /\ k - 1 \in 1 .. n + Len(added) /\ (k - 1) + 1 = k
        BY <1>2, <1>7, <1>8, <4>1 DEF n
      <4>3. open2[k - 1] = open[k]
        BY <1>7, <1>8, <4>2
      <4> QED
        BY <4>2, <4>3 DEF Waits
    <3> QED
      BY <1>1, <1>6, <2>2, <3>1 DEF WaitsOrDone
  <2> QED
    BY <2>3, <2>4
<1>16. Covers(path, dist2)
  BY <1>1, <1>6 DEF Covers
<1>17. QueuedOnce(open2)
  <2> SUFFICES ASSUME NEW j \in 1 .. Len(open2), NEW k \in 1 .. Len(open2),
                      open2[j].location = open2[k].location
               PROVE  j = k
    BY DEF QueuedOnce
  <2>1. \A i \in 1 .. Len(open2) : i \in Nat
    OBVIOUS
  <2>2. \A i \in 1 .. Len(open) : open[i].location \notin fresh
    BY <1>1 DEF Queued
  <2>7. ASSUME NEW i \in 1 .. Len(open2), i \in 1 .. n
        PROVE  i + 1 \in 1 .. Len(open) /\ open2[i] = open[i + 1]
    <3>1. ~ (i > n)
      BY <1>7, <2>7
    <3> QED
      BY <1>9, <3>1
  <2>8. ASSUME NEW i \in 1 .. Len(open2), i > n
        PROVE  i - n \in 1 .. Len(added) /\ open2[i] = added[i - n]
    <3>1. ~ (i \in 1 .. n)
      BY <1>7, <2>8
    <3> QED
      BY <1>9, <3>1
  <2>3. CASE j \in 1 .. n /\ k \in 1 .. n
    <3>1. /\ j + 1 \in 1 .. Len(open) /\ open2[j] = open[j + 1]
          /\ k + 1 \in 1 .. Len(open) /\ open2[k] = open[k + 1]
      BY <2>3, <2>7
    <3>2. j + 1 = k + 1
      BY <1>1, <3>1 DEF QueuedOnce
    <3> QED
      BY <2>1, <3>2
  <2>4. CASE j > n /\ k > n
    <3>1. /\ j - n \in 1 .. Len(added) /\ open2[j] = added[j - n]
          /\ k - n \in 1 .. Len(added) /\ open2[k] = added[k - n]
      BY <2>4, <2>8
    <3>2. j - n = k - n
      BY <1>4, <3>1 DEF QueuedOnce
    <3> QED
      BY <1>7, <2>1, <3>2
  <2>5. CASE j \in 1 .. n /\ k > n
    <3>1. j + 1 \in 1 .. Len(open) /\ open2[j] = open[j + 1] /\ open2[k].location \in fresh
      BY <1>7, <1>9, <2>5
    <3> QED
      BY <2>2, <3>1
  <2>6. CASE j > n /\ k \in 1 .. n
    <3>1. k + 1 \in 1 .. Len(open) /\ open2[k] = open[k + 1] /\ open2[j].location \in fresh
      BY <1>7, <1>9, <2>6
    <3> QED
      BY <2>2, <3>1
  <2> QED
    BY <1>9, <2>3, <2>4, <2>5, <2>6
<1>18. Exact(path, dist2, open2)
  BY <1>8, <1>10, <1>11, <1>12, <1>14, <1>15, <1>16, <1>17 DEF Exact
<1> QED
  BY <1>3, <1>18

\* Tables, and those that are exact for a path.
Table == [dist : UNION {[D -> Item] : D \in SUBSET Free}, open : Seq(Item)]

TablesOf(path) == {table \in Table : Exact(path, table.dist, table.open)}

\* A distance table and a queue that are exact make such a table.
LEMMA InTables ==
  ASSUME NEW path \in Seq(Free), NEW dist, NEW open, Exact(path, dist, open),
         dist = [c \in DOMAIN dist |-> dist[c]]
  PROVE  [dist |-> dist, open |-> open] \in TablesOf(path)
<1> DEFINE table == [dist |-> dist, open |-> open]
<1>1. DOMAIN dist \in SUBSET Free /\ open \in Seq(Item) /\ Told(path, dist)
  BY DEF Exact
<1>2. \A c \in DOMAIN dist : dist[c] \in Item
  BY <1>1, NearestItem DEF Told
<1>3. dist \in [DOMAIN dist -> Item]
  BY <1>2
<1>4. dist \in UNION {[D -> Item] : D \in SUBSET Free}
  BY <1>1, <1>3
<1>5. table \in Table
  <2> DEFINE U == UNION {[D -> Item] : D \in SUBSET Free}
             V == Seq(Item)
  <2>1. dist \in U /\ open \in V /\ Table = [dist : U, open : V]
    BY <1>1, <1>4 DEF Table
  <2> HIDE DEF U, V
  <2> QED
    BY <2>1
<1> QED
  BY <1>5 DEF TablesOf

\* And so does what expanding the front makes of them.
LEMMA ExpandedInTables ==
  ASSUME NEW path \in Seq(Free), NEW table \in TablesOf(path), table.open # << >>
  PROVE  Expanded(table) \in TablesOf(path)
<1>1. Exact(path, table.dist, table.open)
  BY DEF TablesOf
<1> DEFINE added == Bettered(table, Head(table.open))
           dist  == With(table.dist, added)
           open  == Tail(table.open) \o added
<1>2. Expanded(table) = [dist |-> dist, open |-> open]
  BY DEF Expanded
<1>3. Exact(path, Expanded(table).dist, Expanded(table).open)
  BY <1>1, ExpandedExact
<1>4. dist = [c \in DOMAIN dist |-> dist[c]]
  BY DEF With
<1> HIDE DEF dist, open
<1>5. Exact(path, dist, open)
  BY <1>2, <1>3
<1> QED
  BY <1>2, <1>4, <1>5, InTables

\* A path that visits cells of the map, none of them twice.
\* Paths that visit no cell twice, whatever their steps.
Once(path) ==
  /\ path \in Seq(Free) /\ Len(path) >= 1
  /\ \A j, k \in 1 .. Len(path) : path[j] = path[k] => j = k

\* The entries of such a path.
LEMMA EntriesAre ==
  ASSUME NEW path, Once(path)
  PROVE  /\ \A c : c \in DOMAIN Entries(path) <=> \E k \in 1 .. Len(path) : path[k] = c
         /\ \A k \in 1 .. Len(path) : Entries(path)[path[k]] = Entry(path[k], 0, Len(path) - k)
         /\ Entries(path) = [c \in DOMAIN Entries(path) |-> Entries(path)[c]]
<1>1. path \in Seq(Free) /\ Len(path) \in Nat /\ DOMAIN path = 1 .. Len(path)
  BY LenProperties DEF Once
<1> DEFINE R == Range(path)
           K(c) == {k \in 1 .. Len(path) : path[k] = c}
           f == [c \in R |-> Entry(c, 0, Len(path) - Min(K(c)))]
<1>2. Entries(path) = f
  BY DEF Entries
<1>3. \A c : c \in R <=> \E k \in 1 .. Len(path) : path[k] = c
  BY <1>1 DEF Range
<1>4. ASSUME NEW k \in 1 .. Len(path)
      PROVE  path[k] \in R /\ Min(K(path[k])) = k
  <2>1. K(path[k]) = {k}
    BY DEF Once
  <2>2. Min({k}) = k
    BY DEF Min
  <2> QED
    BY <1>3, <2>1, <2>2
<1>5. \A k \in 1 .. Len(path) : f[path[k]] = Entry(path[k], 0, Len(path) - k)
  <2> HIDE DEF R, K
  <2> QED
    BY <1>4
<1> QED
  BY <1>2, <1>3, <1>5

\* The table of a path that has just been set up is exact.
LEMMA PathTableExact ==
  ASSUME NEW path, Once(path)
  PROVE  PathTable(path) \in TablesOf(path)
<1> DEFINE n    == Len(path)
           dist == Entries(path)
           open == [k \in 1 .. n |-> Entry(path[n + 1 - k], 0, k - 1)]
<1>1. path \in Seq(Free) /\ n \in Nat /\ \A k \in 1 .. n : path[k] \in Free
  BY LenProperties, ElementOfSeq DEF Once
<1>2. /\ \A c : c \in DOMAIN dist <=> \E k \in 1 .. n : path[k] = c
      /\ \A k \in 1 .. n : dist[path[k]] = Entry(path[k], 0, n - k)
      /\ dist = [c \in DOMAIN dist |-> dist[c]]
  BY EntriesAre
<1>3. PathTable(path) = [dist |-> dist, open |-> open]
  BY DEF PathTable
<1> HIDE DEF dist, n
<1>4. /\ Len(open) = n
      /\ \A k \in 1 .. n : n + 1 - k \in 1 .. n /\ open[k] = Entry(path[n + 1 - k], 0, k - 1)
  BY <1>1
<1>5. \A k \in 1 .. n : /\ open[k] \in Item /\ open[k].location = path[n + 1 - k]
                        /\ open[k].cost = 0 /\ open[k].togo = k - 1
  <2> SUFFICES ASSUME NEW k \in 1 .. n
               PROVE  /\ open[k] \in Item /\ open[k].location = path[n + 1 - k]
                      /\ open[k].cost = 0 /\ open[k].togo = k - 1
    OBVIOUS
  <2> DEFINE c == path[n + 1 - k]
             i == k - 1
             zero == 0
  <2>1. c \in Free /\ i \in Nat /\ zero \in Nat /\ open[k] = Entry(c, zero, i)
    BY <1>1, <1>4
  <2> HIDE DEF c, i, zero, open
  <2>2. Entry(c, zero, i) \in Item /\ Entry(c, zero, i).location = c
        /\ Entry(c, zero, i).cost = zero /\ Entry(c, zero, i).togo = i
    BY <2>1, EntryIsItem
  <2> QED
    BY <2>1, <2>2 DEF c, i, zero
<1>6. open \in Seq(Item)
  BY <1>1, <1>5
<1> HIDE DEF open
<1>7. DOMAIN dist \subseteq Free
  BY <1>1, <1>2
<1>8. Told(path, dist)
  <2> SUFFICES ASSUME NEW c \in DOMAIN dist PROVE Nearest(path, c, dist[c])
    BY DEF Told
  <2>1. PICK k \in 1 .. n : path[k] = c
    BY <1>2
  <2>2. c \in Free /\ c \in DOMAIN Steps[c] /\ Steps[c][c] = 0
    BY <1>1, <2>1, NoSteps
  <2>3. dist[c] = Entry(c, Steps[c][path[k]], n - k)
    BY <1>2, <2>1, <2>2
  <2>4. dist[c].cost = 0 /\ dist[c].togo = n - k
    <3>1. dist[c] = [location |-> c, cost |-> 0, togo |-> n - k]
      BY <2>1, <2>2, <2>3 DEF Entry
    <3> QED
      BY <3>1
  <2>5. ASSUME NEW j \in 1 .. n, path[j] \in DOMAIN Steps[c]
        PROVE  NotAfter(dist[c].cost, dist[c].togo, Steps[c][path[j]], n - j)
    <3>1. Steps[c][path[j]] \in Nat /\ (Steps[c][path[j]] = 0 => path[j] = c)
      BY <2>2, <2>5, NoSteps
    <3>2. path[j] = c => j = k
      BY <2>1 DEF Once, n
    <3> QED
      BY <1>1, <2>4, <3>1, <3>2 DEF NotAfter
  <2>6. \E i \in 1 .. n : path[i] \in DOMAIN Steps[c] /\ dist[c] = Entry(c, Steps[c][path[i]], n - i)
    BY <2>1, <2>2, <2>3
  <2> QED
    BY <2>5, <2>6 DEF Nearest, n
<1>9. Queued(dist, open)
  <2> SUFFICES ASSUME NEW k \in 1 .. n
               PROVE  open[k].location \in DOMAIN dist /\ open[k] = dist[open[k].location]
    BY <1>4 DEF Queued
  <2> DEFINE j == n + 1 - k
  <2>1. j \in 1 .. n /\ n - j = k - 1 /\ open[k].location = path[j] /\ open[k] = Entry(path[j], 0, k - 1)
    BY <1>1, <1>4, <1>5
  <2> HIDE DEF j
  <2>2. path[j] \in DOMAIN dist /\ dist[path[j]] = Entry(path[j], 0, n - j)
    BY <1>2, <2>1
  <2> QED
    BY <2>1, <2>2
<1>10. InTurn(open)
  <2> SUFFICES ASSUME NEW k \in 1 .. n
               PROVE  /\ \A j \in 1 .. k : NotAfter(open[j].cost, open[j].togo, open[k].cost, open[k].togo)
                      /\ NotAfter(open[k].cost, open[k].togo, open[1].cost + 1, open[1].togo)
    BY <1>4 DEF InTurn
  <2>1. \A j \in 1 .. k : j \in 1 .. n /\ j - 1 <= k - 1
    BY <1>1
  <2>2. 1 \in 1 .. n
    BY <1>1
  <2> QED
    BY <1>5, <2>1, <2>2 DEF NotAfter
<1>11. WaitsOrDone(dist, open)
  <2> SUFFICES ASSUME NEW c \in DOMAIN dist PROVE Waits(c, open)
    BY DEF WaitsOrDone
  <2>1. PICK k \in 1 .. n : path[k] = c
    BY <1>2
  <2>2. n + 1 - k \in 1 .. n /\ n + 1 - (n + 1 - k) = k
    BY <1>1
  <2>3. open[n + 1 - k].location = c
    BY <1>5, <2>1, <2>2
  <2> QED
    BY <1>4, <2>2, <2>3 DEF Waits
<1>12. Covers(path, dist)
  BY <1>2 DEF Covers, n
<1>13. QueuedOnce(open)
  <2> SUFFICES ASSUME NEW j \in 1 .. n, NEW k \in 1 .. n, open[j].location = open[k].location
               PROVE  j = k
    BY <1>4 DEF QueuedOnce
  <2>1. n + 1 - j \in 1 .. n /\ n + 1 - k \in 1 .. n /\ path[n + 1 - j] = path[n + 1 - k]
    BY <1>4, <1>5
  <2>2. n + 1 - j = n + 1 - k
    BY <2>1 DEF Once, n
  <2> QED
    BY <1>1, <2>2
<1>14. Exact(path, dist, open)
  BY <1>6, <1>7, <1>8, <1>9, <1>10, <1>11, <1>12, <1>13 DEF Exact
<1> QED
  BY <1>1, <1>2, <1>3, <1>14, InTables

\* A goal is a path without a step.
LEMMA GoalTableExact ==
  ASSUME NEW goal \in Free
  PROVE  GoalTable(goal) \in TablesOf(<< goal >>)
<1> DEFINE path == << goal >>
<1>1. path \in Seq(Free) /\ Len(path) = 1
  OBVIOUS
<1> HIDE DEF path
<1>2. Once(path)
  BY <1>1 DEF Once
<1>3. PathTable(path) \in TablesOf(path)
  BY <1>2, PathTableExact
<1> QED
  BY <1>3 DEF path, GoalTable

-----------------------------------------------------------------------------
(* Questions keep a table exact.                                           *)

\* One round of the loop.
LEMMA RoundExact ==
  ASSUME NEW path \in Seq(Free), NEW search \in [table : TablesOf(path), done : BOOLEAN], NEW source
  PROVE  Round(search, source) \in [table : TablesOf(path), done : BOOLEAN]
<1>1. CASE search.done \/ search.table.open = << >>
  BY <1>1 DEF Round
<1>2. CASE ~ (search.done \/ search.table.open = << >>)
  <2> DEFINE next == Expanded(search.table)
             done == (Head(search.table.open).location = source)
  <2>1. Round(search, source) = [table |-> next, done |-> done]
    BY <1>2 DEF Round
  <2>2. next \in TablesOf(path)
    <3>1. search.table \in TablesOf(path) /\ search.table.open # << >>
      BY <1>2
    <3> QED
      BY <3>1, ExpandedInTables
  <2>3. done \in BOOLEAN
    OBVIOUS
  <2> HIDE DEF next, done
  <2> QED
    BY <2>1, <2>2, <2>3
<1> QED
  BY <1>1, <1>2

\* The rounds of the loop, one after the other.
Searches(f, table, source) ==
  f = [k \in 0 .. Cells |-> IF k = 0 THEN [table |-> table, done |-> FALSE] ELSE Round(f[k - 1], source)]

\* After all rounds the table is exact, ...
LEMMA SearchExact ==
  ASSUME NEW path \in Seq(Free), NEW table \in TablesOf(path), NEW source, NEW f, Searches(f, table, source)
  PROVE  f[Cells] \in [table : TablesOf(path), done : BOOLEAN]
<1> DEFINE S == [table : TablesOf(path), done : BOOLEAN]
           Q == {k \in 0 .. Cells : f[k] \in S}
<1>1. Cells \in Nat
  BY WithinIs
<1>2. /\ f[0] = [table |-> table, done |-> FALSE]
      /\ \A k \in 1 .. Cells : f[k] = Round(f[k - 1], source)
  <2>1. \A k \in 0 .. Cells : f[k] = IF k = 0 THEN [table |-> table, done |-> FALSE] ELSE Round(f[k - 1], source)
    BY DEF Searches
  <2>2. \A k \in 1 .. Cells : k \in 0 .. Cells /\ k # 0
    OBVIOUS
  <2>3. 0 \in 0 .. Cells
    BY <1>1
  <2>4. f[0] = [table |-> table, done |-> FALSE]
    BY <2>1, <2>3
  <2>5. \A k \in 1 .. Cells : f[k] = Round(f[k - 1], source)
    BY <2>1, <2>2
  <2> QED
    BY <2>4, <2>5
<1>3. 0 \in Q
  <2>1. [table |-> table, done |-> FALSE] \in S
    OBVIOUS
  <2>2. f[0] \in S /\ 0 \in 0 .. Cells
    BY <1>1, <1>2, <2>1
  <2> HIDE DEF S
  <2> QED
    BY <2>2
<1>4. ASSUME NEW k \in 1 .. Cells, k - 1 \in Q PROVE k \in Q
  <2>1. Round(f[k - 1], source) \in S
    BY <1>4, RoundExact
  <2> QED
    BY <1>2, <2>1
<1> HIDE DEF Q
<1>5. \A k \in 0 .. Cells : k \in Q
  BY <1>1, <1>3, <1>4, NatUpTo
<1>6. Cells \in Q
  BY <1>1, <1>5
<1> QED
  BY <1>6 DEF Q

\* ... and there is such a sequence of rounds.
LEMMA SearchExists ==
  ASSUME NEW path \in Seq(Free), NEW table \in TablesOf(path), NEW source
  PROVE  \E f : Searches(f, table, source)
<1> DEFINE S == [table : TablesOf(path), done : BOOLEAN]
           b == [table |-> table, done |-> FALSE]
           turn == [search \in S |-> Round(search, source)]
           F == [k \in 1 .. Cells |-> turn]
<1>1. Cells \in Nat /\ b \in S
  BY WithinIs
<1>2. turn \in [S -> S]
  BY RoundExact
<1> HIDE DEF turn, S, b
<1>3. Continues(F, Cells, S)
  BY <1>2 DEF Continues
<1>0. \A k \in 1 .. Cells : F[k] = turn
  OBVIOUS
<1> HIDE DEF F
<1>4. PICK f : Unfolds(f, Cells, S, b, F)
  BY <1>1, <1>3, Recursion
<1>5. ASSUME NEW k \in 0 .. Cells
      PROVE  f[k] = IF k = 0 THEN b ELSE Round(f[k - 1], source)
  <2>1. CASE k = 0
    BY <1>4, <2>1 DEF Unfolds
  <2>2. CASE k # 0
    <3>1. k \in 1 .. Cells /\ k - 1 \in 0 .. Cells
      BY <1>1, <2>2
    <3>2. f[k - 1] \in S /\ f[k] = turn[f[k - 1]]
      BY <1>0, <1>4, <3>1 DEF Unfolds
    <3> QED
      BY <2>2, <3>2 DEF turn
  <2> QED
    BY <2>1, <2>2
<1>6. Searches(f, table, source)
  <2> DEFINE g == [k \in 0 .. Cells |-> IF k = 0 THEN b ELSE Round(f[k - 1], source)]
  <2>1. \A k \in 0 .. Cells : f[k] = g[k]
    BY <1>5
  <2>2. f = g
    BY <1>4, <2>1 DEF Unfolds
  <2> QED
    BY <2>2 DEF Searches, b
<1> QED
  BY <1>6

\* So asking for a cell keeps the table exact.
LEMMA AskedExact ==
  ASSUME NEW path \in Seq(Free), NEW table \in TablesOf(path), NEW source
  PROVE  Asked(table, source) \in TablesOf(path)
<1>1. Asked(table, source) = IF source \in DOMAIN table.dist THEN table
                             ELSE (CHOOSE f : Searches(f, table, source))[Cells].table
  BY DEF Asked, Searches, Cells
<1>2. Searches(CHOOSE f : Searches(f, table, source), table, source)
  BY SearchExists
<1> DEFINE f == CHOOSE f : Searches(f, table, source)
<1> HIDE DEF f
<1>3. f[Cells] \in [table : TablesOf(path), done : BOOLEAN]
  BY <1>2, SearchExact DEF f
<1> QED
  BY <1>1, <1>3 DEF f

\* Asking for some cells one after the other.
Asking(f, table, cells) ==
  f = [k \in 0 .. Len(cells) |-> IF k = 0 THEN table ELSE Asked(f[k - 1], cells[k])]

\* After all of them the table is exact, ...
LEMMA AskingExact ==
  ASSUME NEW path \in Seq(Free), NEW table \in TablesOf(path), NEW cells, Len(cells) \in Nat,
         NEW f, Asking(f, table, cells)
  PROVE  f[Len(cells)] \in TablesOf(path)
<1> DEFINE n == Len(cells)
           Q == {k \in 0 .. n : f[k] \in TablesOf(path)}
<1>1. /\ f[0] = table
      /\ \A k \in 1 .. n : f[k] = Asked(f[k - 1], cells[k])
  <2>1. \A k \in 0 .. n : f[k] = IF k = 0 THEN table ELSE Asked(f[k - 1], cells[k])
    BY DEF Asking
  <2>2. \A k \in 1 .. n : k \in 0 .. n /\ k # 0
    OBVIOUS
  <2>3. 0 \in 0 .. n
    OBVIOUS
  <2>4. f[0] = table
    BY <2>1, <2>3
  <2>5. \A k \in 1 .. n : f[k] = Asked(f[k - 1], cells[k])
    BY <2>1, <2>2
  <2> QED
    BY <2>4, <2>5
<1>2. 0 \in Q
  BY <1>1
<1>3. ASSUME NEW k \in 1 .. n, k - 1 \in Q PROVE k \in Q
  <2>1. Asked(f[k - 1], cells[k]) \in TablesOf(path)
    BY <1>3, AskedExact
  <2> QED
    BY <1>1, <2>1
<1> HIDE DEF Q
<1>4. \A k \in 0 .. n : k \in Q
  BY <1>2, <1>3, NatUpTo
<1>5. n \in Q
  BY <1>4
<1> QED
  BY <1>5 DEF Q

\* ... and they can be asked for.
LEMMA AskingExists ==
  ASSUME NEW path \in Seq(Free), NEW table \in TablesOf(path), NEW cells, Len(cells) \in Nat
  PROVE  \E f : Asking(f, table, cells)
<1> DEFINE n == Len(cells)
           S == TablesOf(path)
           turn(k) == [t \in S |-> Asked(t, cells[k])]
           F == [k \in 1 .. n |-> turn(k)]
<1>1. n \in Nat /\ table \in S
  OBVIOUS
<1>2. \A k \in 1 .. n : turn(k) \in [S -> S]
  BY AskedExact
<1> HIDE DEF turn, S, n
<1>3. Continues(F, n, S)
  BY <1>2 DEF Continues
<1>4. \A k \in 1 .. n : F[k] = turn(k)
  OBVIOUS
<1> HIDE DEF F
<1>5. PICK f : Unfolds(f, n, S, table, F)
  BY <1>1, <1>3, Recursion
<1>6. ASSUME NEW k \in 0 .. n
      PROVE  f[k] = IF k = 0 THEN table ELSE Asked(f[k - 1], cells[k])
  <2>1. CASE k = 0
    BY <1>5, <2>1 DEF Unfolds
  <2>2. CASE k # 0
    <3>1. k \in 1 .. n /\ k - 1 \in 0 .. n
      BY <1>1, <2>2
    <3>2. f[k - 1] \in S /\ f[k] = turn(k)[f[k - 1]]
      BY <1>4, <1>5, <3>1 DEF Unfolds
    <3> QED
      BY <2>2, <3>2 DEF turn
  <2> QED
    BY <2>1, <2>2
<1>7. Asking(f, table, cells)
  <2> DEFINE g == [k \in 0 .. n |-> IF k = 0 THEN table ELSE Asked(f[k - 1], cells[k])]
  <2>1. \A k \in 0 .. n : f[k] = g[k]
    BY <1>6
  <2>2. f = g
    BY <1>5, <2>1 DEF Unfolds
  <2> QED
    BY <2>2 DEF Asking, n
<1> QED
  BY <1>7

\* So asking for all of them keeps the table exact.
LEMMA AskedAllExact ==
  ASSUME NEW path \in Seq(Free), NEW table \in TablesOf(path), NEW cells, Len(cells) \in Nat
  PROVE  AskedAll(table, cells) \in TablesOf(path)
<1>1. AskedAll(table, cells) = (CHOOSE f : Asking(f, table, cells))[Len(cells)]
  BY DEF AskedAll, Asking
<1>2. Asking(CHOOSE f : Asking(f, table, cells), table, cells)
  BY AskingExists
<1> DEFINE f == CHOOSE f : Asking(f, table, cells)
<1> HIDE DEF f
<1>3. f[Len(cells)] \in TablesOf(path)
  BY <1>2, AskingExact DEF f
<1> QED
  BY <1>1, <1>3 DEF f

\* A table that is there is exact.
Right(table, path) == table = Empty \/ table \in TablesOf(path)

\* A table that is not there is not asked.
LEMMA AskedIfThereRight ==
  ASSUME NEW path \in Seq(Free), NEW table, Right(table, path), NEW cells, Len(cells) \in Nat
  PROVE  Right(AskedIfThere(table, cells), path)
<1>1. CASE table = Empty
  BY <1>1 DEF AskedIfThere, Right
<1>2. CASE table # Empty
  BY <1>2, AskedAllExact DEF AskedIfThere, Right
<1> QED
  BY <1>1, <1>2

\* The cells that are asked for are finitely many, whatever the cell.
LEMMA AskedCells ==
  ASSUME NEW c, NEW d
  PROVE  /\ Len(NeighborLocs(c)) \in Nat
         /\ Len(Append(NeighborLocs(c), d)) \in Nat
         /\ Len(<< d >>) \in Nat
<1> DEFINE S == Neighbors(c) \cup {d}
           listed(e) == IF e \in Neighbors(c) THEN << e >> ELSE << >>
           n == listed(c - Cols)
           s == listed(c + Cols)
           w == listed(c - 1)
           e == listed(c + 1)
           sides == IF Cols = 1 THEN << >> ELSE w \o e
<1>1. NeighborLocs(c) = (n \o s) \o sides
  BY DEF NeighborLocs, InOrder
<1>2. ASSUME NEW x PROVE listed(x) \in Seq(S)
  <2>1. CASE x \in Neighbors(c)
    BY <2>1
  <2>2. CASE x \notin Neighbors(c)
    BY <2>2
  <2> QED
    BY <2>1, <2>2
<1> HIDE DEF listed
<1>3. n \in Seq(S) /\ s \in Seq(S) /\ w \in Seq(S) /\ e \in Seq(S) /\ << >> \in Seq(S)
  BY <1>2
<1> HIDE DEF n, s, w, e
<1>4. sides \in Seq(S)
  BY <1>3, ConcatProperties
<1> HIDE DEF sides
<1>5. n \o s \in Seq(S)
  BY <1>3, ConcatProperties
<1>6. (n \o s) \o sides \in Seq(S)
  BY <1>4, <1>5, ConcatProperties
<1>7. NeighborLocs(c) \in Seq(S) /\ d \in S
  BY <1>1, <1>6
<1> HIDE DEF S
<1> QED
  BY <1>7

\* The table of the goal after every agent's turn.
InTurns(f, goal, order) ==
  f = [k \in 0 .. NumAgents |->
         IF k = 0 THEN heuristics[goal]
         ELSE IF traj_dists[order[k]] = Empty /\ tasks[order[k]] = goal
              THEN AskedIfThere(f[k - 1], Asks(order[k]))
              ELSE f[k - 1]]

\* An agent's turn.
Turn(t, goal, a) == IF traj_dists[a] = Empty /\ tasks[a] = goal THEN AskedIfThere(t, Asks(a)) ELSE t

\* An agent's turn keeps the goal's table exact.
LEMMA TurnRight ==
  ASSUME NEW goal \in Free, NEW t, Right(t, << goal >>), NEW a
  PROVE  Right(Turn(t, goal, a), << goal >>)
<1>1. << goal >> \in Seq(Free)
  OBVIOUS
<1>2. Len(Asks(a)) \in Nat
  BY AskedCells DEF Asks
<1>3. Right(AskedIfThere(t, Asks(a)), << goal >>)
  BY <1>1, <1>2, AskedIfThereRight
<1> QED
  BY <1>3 DEF Turn

\* The turns follow each other.
LEMMA InTurnsTurn ==
  ASSUME NEW goal, NEW order, NEW f
  PROVE  InTurns(f, goal, order) <=>
           f = [k \in 0 .. NumAgents |-> IF k = 0 THEN heuristics[goal] ELSE Turn(f[k - 1], goal, order[k])]
  BY DEF InTurns, Turn

\* After all turns the table is exact, ...
LEMMA InTurnsRight ==
  ASSUME NEW goal \in Free, Right(heuristics[goal], << goal >>), NEW order,
         NEW f, InTurns(f, goal, order)
  PROVE  Right(f[NumAgents], << goal >>)
<1> DEFINE Q == {k \in 0 .. NumAgents : Right(f[k], << goal >>)}
<1>1. NumAgents \in Nat
  BY TeamAssumption
<1>2. \A k \in 0 .. NumAgents : f[k] = IF k = 0 THEN heuristics[goal] ELSE Turn(f[k - 1], goal, order[k])
  BY InTurnsTurn
<1>3. 0 \in Q
  <2>1. 0 \in 0 .. NumAgents
    BY <1>1
  <2>2. f[0] = heuristics[goal]
    BY <1>2, <2>1
  <2> QED
    BY <2>1, <2>2
<1>4. ASSUME NEW k \in 1 .. NumAgents, k - 1 \in Q PROVE k \in Q
  <2>1. k \in 0 .. NumAgents /\ k # 0
    BY <1>1
  <2>2. Right(f[k - 1], << goal >>)
    BY <1>4
  <2>3. Right(Turn(f[k - 1], goal, order[k]), << goal >>)
    BY <2>2, TurnRight
  <2>4. f[k] = Turn(f[k - 1], goal, order[k])
    BY <1>2, <2>1
  <2> QED
    BY <2>1, <2>3, <2>4
<1> HIDE DEF Q
<1>5. \A k \in 0 .. NumAgents : k \in Q
  BY <1>1, <1>3, <1>4, NatUpTo
<1>6. NumAgents \in Q
  BY <1>1, <1>5
<1> QED
  BY <1>6 DEF Q

\* ... and everybody has a turn.
LEMMA InTurnsExists ==
  ASSUME NEW goal \in Free, Right(heuristics[goal], << goal >>), NEW order
  PROVE  \E f : InTurns(f, goal, order)
<1> DEFINE S == TablesOf(<< goal >>) \cup {Empty}
           b == heuristics[goal]
           turn(k) == [t \in S |-> Turn(t, goal, order[k])]
           F == [k \in 1 .. NumAgents |-> turn(k)]
<1>1. NumAgents \in Nat
  BY TeamAssumption
<1>2. \A t : t \in S <=> Right(t, << goal >>)
  BY DEF Right
<1>3. b \in S
  BY <1>2
<1>4. \A k \in 1 .. NumAgents : turn(k) \in [S -> S]
  <2> SUFFICES ASSUME NEW k, NEW t \in S PROVE Turn(t, goal, order[k]) \in S
    OBVIOUS
  <2> HIDE DEF S
  <2> QED
    BY <1>2, TurnRight
<1> HIDE DEF S
<1>5. \A k \in 1 .. NumAgents : F[k] = turn(k)
  OBVIOUS
<1>6. \A k : \A t \in S : turn(k)[t] = Turn(t, goal, order[k])
  OBVIOUS
<1> HIDE DEF turn
<1>7. Continues(F, NumAgents, S)
  BY <1>4 DEF Continues
<1> HIDE DEF F, b
<1>8. PICK f : Unfolds(f, NumAgents, S, b, F)
  BY <1>1, <1>3, <1>7, Recursion
<1>9. ASSUME NEW k \in 0 .. NumAgents
      PROVE  f[k] = IF k = 0 THEN heuristics[goal] ELSE Turn(f[k - 1], goal, order[k])
  <2>1. CASE k = 0
    BY <1>8, <2>1 DEF Unfolds, b
  <2>2. CASE k # 0
    <3>1. k \in 1 .. NumAgents /\ k - 1 \in 0 .. NumAgents
      BY <1>1, <2>2
    <3>2. f[k - 1] \in S /\ f[k] = turn(k)[f[k - 1]]
      BY <1>5, <1>8, <3>1 DEF Unfolds
    <3> QED
      BY <1>6, <2>2, <3>2
  <2> QED
    BY <2>1, <2>2
<1>10. InTurns(f, goal, order)
  <2> DEFINE g == [k \in 0 .. NumAgents |-> IF k = 0 THEN heuristics[goal] ELSE Turn(f[k - 1], goal, order[k])]
  <2>1. \A k \in 0 .. NumAgents : f[k] = g[k]
    BY <1>9
  <2>2. f = g
    BY <1>8, <2>1 DEF Unfolds
  <2> QED
    BY <2>2, InTurnsTurn
<1> QED
  BY <1>10

\* So the agents' turns keep the goal's table exact, in whatever order.
LEMMA AskedInTurnRight ==
  ASSUME NEW goal \in Free, Right(heuristics[goal], << goal >>), NEW order
  PROVE  Right(AskedInTurn(goal, order), << goal >>)
<1>1. AskedInTurn(goal, order) = (CHOOSE f : InTurns(f, goal, order))[NumAgents]
  BY DEF AskedInTurn, InTurns
<1>2. InTurns(CHOOSE f : InTurns(f, goal, order), goal, order)
  BY InTurnsExists
<1> DEFINE f == CHOOSE f : InTurns(f, goal, order)
<1> HIDE DEF f
<1>3. Right(f[NumAgents], << goal >>)
  BY <1>2, InTurnsRight DEF f
<1> QED
  BY <1>1, <1>3 DEF f

-----------------------------------------------------------------------------
(* The tables of the goals.                                                *)

\* The tables of the goals, those that are there, are exact.
GoalTablesRight ==
  DOMAIN heuristics = Free /\ \A goal \in Free : Right(heuristics[goal], << goal >>)

\* One table is asked.
LEMMA AskingKeeps ==
  ASSUME GoalTablesRight, NEW goal, NEW cells, Len(cells) \in Nat,
         heuristics' = [heuristics EXCEPT ![goal] = AskedIfThere(@, cells)]
  PROVE  GoalTablesRight'
<1>1. DOMAIN heuristics' = Free
  BY DEF GoalTablesRight
<1>2. ASSUME NEW c \in Free PROVE Right(heuristics'[c], << c >>)
  <2>1. Right(heuristics[c], << c >>) /\ << c >> \in Seq(Free)
    BY DEF GoalTablesRight
  <2>2. Right(AskedIfThere(heuristics[c], cells), << c >>)
    BY <2>1, AskedIfThereRight
  <2>3. heuristics'[c] = heuristics[c] \/ heuristics'[c] = AskedIfThere(heuristics[c], cells)
    BY DEF GoalTablesRight
  <2> QED
    BY <2>1, <2>2, <2>3
<1>3. (\A c \in Free : Right(heuristics[c], << c >>))'
  BY <1>2 DEF Right, TablesOf, Table, Item, Exact, Told, Nearest, Queued, InTurn, WaitsOrDone, Waits,
                  QueuedOnce, Covers
<1> QED
  BY <1>1, <1>3 DEF GoalTablesRight

\* No table is there at first.
LEMMA GoalTablesInit == Init => GoalTablesRight
  BY DEF Init, GoalTablesRight, Right

\* Whoever asks, for whatever cell: the tables of the goals stay exact.
LEMMA GoalTablesNext ==
  ASSUME GoalTablesRight, [Next]_vars
  PROVE  GoalTablesRight'
<1>1. CASE get_h
  <2>1. PICK q \in Questions :
          heuristics' = [heuristics EXCEPT ![q[1]] =
                           Asked(IF @ = Empty THEN GoalTable(q[1]) ELSE @, q[2])]
    BY <1>1 DEF get_h
  <2> DEFINE goal == q[1]
  <2>2. goal \in Free /\ << goal >> \in Seq(Free)
    BY GoalsAssumption
  <2>3. Right(Asked(IF heuristics[goal] = Empty THEN GoalTable(goal) ELSE heuristics[goal], q[2]), << goal >>)
    <3> DEFINE t == IF heuristics[goal] = Empty THEN GoalTable(goal) ELSE heuristics[goal]
    <3>1. t \in TablesOf(<< goal >>)
      BY <2>2, GoalTableExact DEF GoalTablesRight, Right
    <3> HIDE DEF t
    <3>2. Asked(t, q[2]) \in TablesOf(<< goal >>)
      BY <2>2, <3>1, AskedExact
    <3> QED
      BY <3>2 DEF Right, t
  <2> HIDE DEF goal
  <2>4. \A c \in Free : Right(heuristics'[c], << c >>)
    BY <2>1, <2>3 DEF GoalTablesRight, goal
  <2>5. DOMAIN heuristics' = Free
    BY <2>1 DEF GoalTablesRight
  <2> QED
    BY <2>4, <2>5 DEF GoalTablesRight
<1>2. CASE plan
  <2>1. PICK k \in 0 .. NumAgents :
          heuristics' = [c \in Free |->
            IF /\ ~ Manhattan /\ heuristics[c] = Empty
               /\ \E a \in Agent : a < k /\ c \in Range(goal_locations'[a])
            THEN GoalTable(c) ELSE heuristics[c]]
    BY <1>2 DEF plan
  <2>2. ASSUME NEW c \in Free PROVE Right(heuristics'[c], << c >>)
    <3>1. heuristics'[c] = GoalTable(c) \/ heuristics'[c] = heuristics[c]
      BY <2>1
    <3> QED
      BY <3>1, GoalTableExact DEF GoalTablesRight, Right
  <2> QED
    BY <2>1, <2>2 DEF GoalTablesRight
<1>3. ASSUME NEW a, SearchFor(a) PROVE GoalTablesRight'
  <2>1. heuristics' = [heuristics EXCEPT ![tasks[a]] = AskedIfThere(@, << curr_states[a] >>)]
    BY <1>3 DEF SearchFor, StartSearch
  <2>2. Len(<< curr_states[a] >>) \in Nat
    BY AskedCells
  <2> QED
    BY <2>1, <2>2, AskingKeeps
<1>4. ASSUME UNCHANGED heuristics PROVE GoalTablesRight'
  BY <1>4 DEF GoalTablesRight
<1>5. CASE InitialPath
  <2>1. SearchFor(count) \/ UNCHANGED heuristics
    BY <1>5 DEF InitialPath
  <2> QED
    BY <1>3, <1>4, <2>1
<1>6. CASE frank_wolfe
  <2>1. SearchFor(replan_order[(count % NumAgents) + 1]) \/ UNCHANGED heuristics
    BY <1>6 DEF frank_wolfe
  <2> QED
    BY <1>3, <1>4, <2>1
<1>7. CASE Search
  <2>1. PICK curr \in First : Expand(curr, tasks[searching])
    BY <1>7 DEF Search
  <2>2. heuristics' = [heuristics EXCEPT ![tasks[searching]] = AskedIfThere(@, NeighborLocs(curr))]
    BY <2>1 DEF Expand
  <2>3. Len(NeighborLocs(curr)) \in Nat
    BY AskedCells
  <2> QED
    BY <2>2, <2>3, AskingKeeps
<1>8. CASE Sort
  <2>1. PICK order \in Bijection(1 .. NumAgents, Agent) :
          heuristics' = [c \in Free |-> AskedInTurn(c, order)]
    BY <1>8 DEF Sort
  <2>2. \A c \in Free : Right(heuristics'[c], << c >>)
    BY <2>1, AskedInTurnRight DEF GoalTablesRight
  <2> QED
    BY <2>1, <2>2 DEF GoalTablesRight
<1>9. CASE plan_pibt \/ StartRefinement \/ Found \/ Stop \/ Execute \/ UNCHANGED vars
  <2>1. UNCHANGED heuristics
    BY <1>9 DEF plan_pibt, StartRefinement, Found, Stop, Execute, vars
  <2> QED
    BY <1>4, <2>1
<1> QED
  BY <1>1, <1>2, <1>5, <1>6, <1>7, <1>8, <1>9 DEF Next

\* To a path without a step the nearest cell is the goal.
LEMMA GoalTablesAreExact == GoalTablesRight => TablesExact
<1> SUFFICES ASSUME GoalTablesRight, NEW goal \in Free, NEW c \in DOMAIN heuristics[goal].dist
             PROVE  heuristics[goal].dist[c].cost = Steps[c][goal]
  BY DEF TablesExact
<1>1. heuristics[goal] # Empty
  BY DEF Empty
<1>2. Nearest(<< goal >>, c, heuristics[goal].dist[c])
  BY <1>1 DEF GoalTablesRight, Right, TablesOf, Exact, Told
<1>3. Len(<< goal >>) = 1 /\ << goal >>[1] = goal
  OBVIOUS
<1>4. heuristics[goal].dist[c] = Entry(c, Steps[c][goal], 0)
  BY <1>2, <1>3 DEF Nearest
<1> QED
  BY <1>4 DEF Entry

\* The distances of a goal are exact, wherever the search for them was interrupted and taken up
\* again: by schedulers, by plan, by A* or by the agents in PIBT.
THEOREM GoalDistancesExact == Spec => []TablesExact
<1>1. Init => GoalTablesRight
  BY GoalTablesInit
<1>2. GoalTablesRight /\ [Next]_vars => GoalTablesRight'
  BY GoalTablesNext
<1>3. GoalTablesRight => TablesExact
  BY GoalTablesAreExact
<1> QED
  BY <1>1, <1>2, <1>3, PTL DEF Spec

-----------------------------------------------------------------------------
(* The nodes of A*: they lead back to the start, a step at a time, over    *)
(* nodes that are closed.                                                  *)

\* What a node has.
Fields == {"g", "h", "cost", "turned", "parent", "closed"}

\* The node of a cell hangs on another one, unless it is the start.
LedTo(ns, c) ==
  /\ c \in Free /\ DOMAIN ns[c] = Fields
  /\ ns[c].g \in Nat /\ ns[c].closed \in BOOLEAN
  /\ ns[c].g # 0 =>
       /\ ns[c].parent \in DOMAIN ns
       /\ ns[ns[c].parent].closed = TRUE
       /\ ns[c].g = ns[ns[c].parent].g + 1

Tree(ns) == \A c \in DOMAIN ns : LedTo(ns, c)

\* A search starts with one node.
LEMMA TreePlanted ==
  ASSUME NEW start \in Free, NEW goal, StartSearch(start, goal)
  PROVE  Tree(nodes')
<1> DEFINE h == Heuristic(heuristics'[goal], goal, start)
<1>1. nodes' = [c \in {start} |-> Node(0, h, 0, FALSE, None)]
  BY DEF StartSearch
<1> HIDE DEF h
<1>2. DOMAIN nodes' = {start} /\ nodes'[start] = Node(0, h, 0, FALSE, None)
  BY <1>1
<1> DEFINE node == Node(0, h, 0, FALSE, None)
<1>3. DOMAIN node = Fields /\ node.g = 0 /\ node.closed = FALSE
  BY DEF Node, Fields
<1> HIDE DEF node
<1> DEFINE ns == nodes'
<1>4. DOMAIN ns = {start} /\ ns[start] = node
  BY <1>2 DEF node
<1> HIDE DEF ns
<1>5. DOMAIN ns[start] = Fields /\ ns[start].g = 0 /\ ns[start].closed = FALSE
  BY <1>3, <1>4
<1>6. LedTo(ns, start)
  <2>1. ns[start].closed \in BOOLEAN
    BY <1>5
  <2> QED
    BY <1>5, <2>1 DEF LedTo
<1>7. Tree(ns)
  BY <1>4, <1>6 DEF Tree
<1> QED
  BY <1>7 DEF ns

\* Nodes that are closed stay as they are, so what is reached from them hangs on.
LEMMA TreeGrows ==
  ASSUME Tree(nodes), NEW curr \in First, NEW goal, Expand(curr, goal), ~ ReExpansion(curr, goal)
  PROVE  Tree(nodes')
<1> DEFINE ns == nodes'
           M == Improved(curr, goal)
<1>1. curr \in DOMAIN nodes /\ ~ nodes[curr].closed /\ curr \in Free /\ LedTo(nodes, curr)
  BY DEF First, Open, Tree, LedTo
<1>2. /\ DOMAIN ns = DOMAIN nodes \cup M
      /\ \A c \in M : ns[c] = Reached(curr, c, goal)
      /\ curr \notin M => ns[curr] = [nodes[curr] EXCEPT !.closed = TRUE]
      /\ \A c \in DOMAIN nodes : c \notin M /\ c # curr => ns[c] = nodes[c]
  BY <1>1 DEF Expand
<1>3. M \subseteq Neighbors(curr)
  BY DEF Improved
<1>4. \A c \in M : c \in Free /\ c # curr
  BY <1>1, <1>3, NeighborsMutual
<1>5. \A c \in M : c \in DOMAIN nodes => ~ nodes[c].closed
  BY DEF ReExpansion
<1>6. DOMAIN nodes[curr] = Fields /\ nodes[curr].g \in Nat
  BY <1>1 DEF LedTo
<1>7. \A c \in M : /\ DOMAIN Reached(curr, c, goal) = Fields
                   /\ Reached(curr, c, goal).g = nodes[curr].g + 1
                   /\ Reached(curr, c, goal).parent = curr
                   /\ Reached(curr, c, goal).closed = FALSE
  BY DEF Reached, Node, Fields
<1>8. /\ DOMAIN ns[curr] = Fields /\ ns[curr].g = nodes[curr].g
      /\ ns[curr].parent = nodes[curr].parent /\ ns[curr].closed = TRUE
  <2>1. ns[curr] = [nodes[curr] EXCEPT !.closed = TRUE]
    BY <1>2, <1>4
  <2> HIDE DEF ns
  <2> QED
    BY <1>6, <2>1 DEF Fields
<1> HIDE DEF ns, M
<1>9. ASSUME NEW c \in DOMAIN nodes, nodes[c].closed = TRUE
      PROVE  c \in DOMAIN ns /\ ns[c] = nodes[c]
  BY <1>1, <1>2, <1>5, <1>9
<1>10. ASSUME NEW c \in DOMAIN nodes, nodes[c].g # 0
       PROVE  /\ nodes[c].parent \in DOMAIN ns
              /\ ns[nodes[c].parent].closed = TRUE
              /\ nodes[c].g = ns[nodes[c].parent].g + 1
  <2>1. LedTo(nodes, c)
    BY DEF Tree
  <2>2. /\ nodes[c].parent \in DOMAIN nodes /\ nodes[nodes[c].parent].closed = TRUE
        /\ nodes[c].g = nodes[nodes[c].parent].g + 1
    BY <1>10, <2>1 DEF LedTo
  <2> QED
    BY <1>9, <2>2
<1>11. ASSUME NEW c \in DOMAIN ns PROVE LedTo(ns, c)
  <2>1. CASE c \in M
    <3>1. /\ DOMAIN ns[c] = Fields /\ ns[c].g = nodes[curr].g + 1 /\ ns[c].parent = curr
          /\ ns[c].closed = FALSE
      BY <1>2, <1>7, <2>1
    <3>2. curr \in DOMAIN ns
      BY <1>1, <1>2
    <3>3. ns[c].closed \in BOOLEAN
      BY <3>1
    <3>4. ns[c].g \in Nat /\ ns[c].g = ns[curr].g + 1
      BY <1>6, <1>8, <3>1
    <3>5. ns[ns[c].parent].closed = TRUE
      BY <1>8, <3>1
    <3> QED
      BY <1>4, <2>1, <3>1, <3>2, <3>3, <3>4, <3>5 DEF LedTo
  <2>2. CASE c = curr
    <3>1. c \in DOMAIN nodes /\ c \in Free
      BY <1>1, <2>2
    <3> QED
      BY <1>6, <1>8, <1>10, <2>2, <3>1 DEF LedTo
  <2>3. CASE c \notin M /\ c # curr
    <3>1. c \in DOMAIN nodes /\ ns[c] = nodes[c]
      BY <1>2, <2>3
    <3>2. LedTo(nodes, c)
      BY <3>1 DEF Tree
    <3> QED
      BY <1>10, <3>1, <3>2 DEF LedTo
  <2> QED
    BY <2>1, <2>2, <2>3
<1>12. Tree(ns)
  BY <1>11 DEF Tree
<1> QED
  BY <1>12 DEF ns

\* The way back, from a node to its parent and so on.
BackFrom(f, goal) ==
  f = [k \in 0 .. nodes[goal].g |-> IF k = 0 THEN goal ELSE nodes[f[k - 1]].parent]

\* It goes down by a step each, so it ends at the start.
LEMMA BackDown ==
  ASSUME Tree(nodes), NEW goal \in DOMAIN nodes, NEW f, BackFrom(f, goal)
  PROVE  \A k \in 0 .. nodes[goal].g : f[k] \in DOMAIN nodes /\ nodes[f[k]].g = nodes[goal].g - k
<1> DEFINE G == nodes[goal].g
           Q == {k \in 0 .. G : f[k] \in DOMAIN nodes /\ nodes[f[k]].g = G - k}
<1>1. G \in Nat
  BY DEF Tree, LedTo
<1>2. \A k \in 0 .. G : f[k] = IF k = 0 THEN goal ELSE nodes[f[k - 1]].parent
  BY DEF BackFrom
<1> HIDE DEF G
<1>3. 0 \in Q
  <2>1. 0 \in 0 .. G
    BY <1>1
  <2>2. f[0] = goal
    BY <1>2, <2>1
  <2> QED
    BY <1>1, <2>1, <2>2 DEF G
<1>4. ASSUME NEW k \in 1 .. G, k - 1 \in Q PROVE k \in Q
  <2>1. k \in 0 .. G /\ k # 0
    BY <1>1
  <2> DEFINE d == f[k - 1]
  <2>2. d \in DOMAIN nodes /\ nodes[d].g = G - (k - 1)
    BY <1>4
  <2>3. nodes[d].g # 0
    BY <1>1, <2>2
  <2>4. LedTo(nodes, d)
    BY <2>2 DEF Tree
  <2>5. /\ nodes[d].parent \in DOMAIN nodes /\ nodes[d].g = nodes[nodes[d].parent].g + 1
        /\ LedTo(nodes, nodes[d].parent)
    BY <2>3, <2>4 DEF LedTo, Tree
  <2>6. f[k] = nodes[d].parent
    BY <1>2, <2>1
  <2>7. nodes[nodes[d].parent].g \in Nat
    BY <2>5 DEF LedTo
  <2> HIDE DEF d
  <2>8. nodes[f[k]].g = G - k
    BY <1>1, <2>2, <2>5, <2>6, <2>7
  <2> QED
    BY <2>1, <2>5, <2>6, <2>8
<1> HIDE DEF Q
<1>5. \A k \in 0 .. G : k \in Q
  BY <1>1, <1>3, <1>4, NatUpTo
<1> QED
  BY <1>5 DEF Q, G

\* Every node has such a way back.
LEMMA BackExists ==
  ASSUME Tree(nodes), NEW goal \in DOMAIN nodes
  PROVE  \E f : BackFrom(f, goal)
<1> DEFINE G == nodes[goal].g
           S == DOMAIN nodes
           up == [c \in S |-> IF nodes[c].g # 0 THEN nodes[c].parent ELSE c]
           F == [k \in 1 .. G |-> up]
<1>1. G \in Nat /\ goal \in S
  BY DEF Tree, LedTo
<1>2. up \in [S -> S]
  BY DEF Tree, LedTo
<1>3. \A c \in S : nodes[c].g # 0 => up[c] = nodes[c].parent
  OBVIOUS
<1>4. \A c \in S : nodes[c].g \in Nat /\ (nodes[c].g # 0 => nodes[c].g = nodes[nodes[c].parent].g + 1 /\ nodes[c].parent \in S)
  BY DEF Tree, LedTo
<1> HIDE DEF up
<1>5. Continues(F, G, S) /\ \A k \in 1 .. G : F[k] = up
  BY <1>2 DEF Continues
<1> HIDE DEF F, G, S
<1>6. PICK f : Unfolds(f, G, S, goal, F)
  BY <1>1, <1>5, Recursion
<1>7. f \in [0 .. G -> S] /\ f[0] = goal /\ \A k \in 1 .. G : f[k] = up[f[k - 1]]
  BY <1>5, <1>6 DEF Unfolds
<1> DEFINE Q == {k \in 0 .. G : nodes[f[k]].g = G - k}
<1>8. 0 \in Q
  BY <1>1, <1>7 DEF G
<1>9. ASSUME NEW k \in 1 .. G, k - 1 \in Q PROVE k \in Q
  <2>1. k \in 0 .. G /\ k - 1 \in 0 .. G
    BY <1>1
  <2> DEFINE d == f[k - 1]
  <2>2. d \in S /\ nodes[d].g = G - (k - 1)
    BY <1>7, <1>9, <2>1
  <2>3. nodes[d].g # 0
    BY <1>1, <2>2
  <2>4. f[k] = nodes[d].parent
    BY <1>3, <1>7, <2>2, <2>3
  <2>5. nodes[d].g = nodes[nodes[d].parent].g + 1 /\ nodes[nodes[d].parent].g \in Nat
    BY <1>4, <2>2, <2>3
  <2> HIDE DEF d
  <2> QED
    BY <1>1, <2>1, <2>2, <2>4, <2>5
<1> HIDE DEF Q
<1>10. \A k \in 0 .. G : k \in Q
  BY <1>1, <1>8, <1>9, NatUpTo
<1>11. ASSUME NEW k \in 0 .. G
       PROVE  f[k] = IF k = 0 THEN goal ELSE nodes[f[k - 1]].parent
  <2>1. CASE k = 0
    BY <1>7, <2>1
  <2>2. CASE k # 0
    <3>1. k \in 1 .. G /\ k - 1 \in 0 .. G
      BY <1>1, <2>2
    <3>2. nodes[f[k - 1]].g = G - (k - 1) /\ f[k - 1] \in S
      BY <1>7, <1>10, <3>1 DEF Q
    <3>3. nodes[f[k - 1]].g # 0
      BY <1>1, <3>1, <3>2
    <3> QED
      BY <1>3, <1>7, <2>2, <3>1, <3>2, <3>3
  <2> QED
    BY <2>1, <2>2
<1>12. BackFrom(f, goal)
  <2> DEFINE g == [k \in 0 .. G |-> IF k = 0 THEN goal ELSE nodes[f[k - 1]].parent]
  <2>1. \A k \in 0 .. G : f[k] = g[k]
    BY <1>11
  <2>2. f = g
    BY <1>7, <2>1
  <2> QED
    BY <2>2 DEF BackFrom, G
<1> QED
  BY <1>12

\* The trajectory leads from the start of the search to its goal, from parent to child.
LEMMA TrajectoryIs ==
  ASSUME Tree(nodes), NEW goal \in DOMAIN nodes
  PROVE  LET way == Trajectory(goal)
         IN  /\ Once(way) /\ Len(way) = nodes[goal].g + 1 /\ way[Len(way)] = goal
             /\ \A k \in 1 .. Len(way) : way[k] \in DOMAIN nodes /\ nodes[way[k]].g = k - 1
             /\ \A k \in 1 .. Len(way) - 1 : way[k] = nodes[way[k + 1]].parent
<1> DEFINE G == nodes[goal].g
           f == CHOOSE f : BackFrom(f, goal)
           way == [k \in 1 .. G + 1 |-> f[G + 1 - k]]
<1>1. G \in Nat
  BY DEF Tree, LedTo
<1>2. Trajectory(goal) = way
  BY DEF Trajectory, BackFrom
<1>3. BackFrom(f, goal)
  BY BackExists
<1> HIDE DEF f
<1>4. \A k \in 0 .. G : f[k] \in DOMAIN nodes /\ nodes[f[k]].g = G - k
  BY <1>3, BackDown
<1>5. \A c \in DOMAIN nodes : c \in Free
  BY DEF Tree, LedTo
<1>6. \A k \in 0 .. G : f[k] = IF k = 0 THEN goal ELSE nodes[f[k - 1]].parent
  BY <1>3 DEF BackFrom
<1> HIDE DEF G
<1>7. ASSUME NEW k \in 1 .. G + 1
      PROVE  /\ G + 1 - k \in 0 .. G /\ way[k] = f[G + 1 - k]
             /\ way[k] \in DOMAIN nodes /\ way[k] \in Free /\ nodes[way[k]].g = k - 1
  <2>1. G + 1 - k \in 0 .. G
    BY <1>1
  <2>2. way[k] = f[G + 1 - k]
    OBVIOUS
  <2>3. f[G + 1 - k] \in DOMAIN nodes /\ nodes[f[G + 1 - k]].g = G - (G + 1 - k)
    BY <1>4, <2>1
  <2>4. G - (G + 1 - k) = k - 1
    BY <1>1
  <2> HIDE DEF way
  <2> QED
    BY <1>5, <2>1, <2>2, <2>3, <2>4
<1>8. way \in Seq(Free) /\ Len(way) = G + 1
  BY <1>1, <1>7
<1> HIDE DEF way
<1>9. ASSUME NEW j \in 1 .. Len(way), NEW k \in 1 .. Len(way), way[j] = way[k]
      PROVE  j = k
  <2>1. j \in 1 .. G + 1 /\ k \in 1 .. G + 1
    BY <1>8
  <2>2. nodes[way[j]].g = j - 1 /\ nodes[way[k]].g = k - 1
    BY <1>7, <2>1
  <2> QED
    BY <1>1, <1>9, <2>1, <2>2
<1>10. Once(way)
  BY <1>1, <1>8, <1>9 DEF Once
<1>11. way[Len(way)] = goal
  <2>1. G + 1 \in 1 .. G + 1 /\ G + 1 - (G + 1) = 0 /\ 0 \in 0 .. G
    BY <1>1
  <2>2. way[G + 1] = f[0]
    BY <1>7, <2>1
  <2> QED
    BY <1>6, <1>8, <2>1, <2>2
<1>12. ASSUME NEW k \in 1 .. Len(way) - 1
       PROVE  way[k] = nodes[way[k + 1]].parent
  <2>1. /\ k \in 1 .. G + 1 /\ k + 1 \in 1 .. G + 1
        /\ G + 1 - k \in 0 .. G /\ G + 1 - k # 0 /\ (G + 1 - k) - 1 = G + 1 - (k + 1)
    BY <1>1, <1>8
  <2>2. way[k] = f[G + 1 - k] /\ way[k + 1] = f[G + 1 - (k + 1)]
    BY <1>7, <2>1
  <2>3. f[G + 1 - k] = nodes[f[(G + 1 - k) - 1]].parent
    BY <1>6, <2>1
  <2> QED
    BY <2>1, <2>2, <2>3
<1>13. \A k \in 1 .. Len(way) : way[k] \in DOMAIN nodes /\ nodes[way[k]].g = k - 1
  BY <1>7, <1>8
<1> QED
  BY <1>2, <1>8, <1>10, <1>11, <1>12, <1>13 DEF G

-----------------------------------------------------------------------------
(* The tables along the guide paths.                                       *)

\* The table along a guide path, if there is one, is exact for that path.
RightAlong(path, table) == table = Empty \/ (Once(path) /\ table \in TablesOf(path))

PathTablesRight(ts, ds) ==
  DOMAIN ds = Agent /\ \A a \in Agent : RightAlong(ts[a], ds[a])

PathInv ==
  /\ TrafficInv
  /\ curr_states \in [Agent -> Free]
  /\ PathTablesRight(trajs, traj_dists)
  /\ searching # None /\ stage # "exited" => Tree(nodes)

\* What is nearest to a path is what WayAlong looks for.
LEMMA WayIs ==
  ASSUME NEW path \in Seq(Free), NEW c \in Free, NEW entry, Nearest(path, c, entry)
  PROVE  entry = Entry(c, WayAlong(path, c).cost, WayAlong(path, c).togo)
<1> DEFINE there == {k \in 1 .. Len(path) : path[k] \in DOMAIN Steps[c]}
           near  == {k \in there : \A j \in there : Steps[c][path[k]] <= Steps[c][path[j]]}
           join  == Max(near)
<1>1. WayAlong(path, c).cost = Steps[c][path[join]] /\ WayAlong(path, c).togo = Len(path) - join
  BY DEF WayAlong
<1>2. PICK k \in 1 .. Len(path) :
        path[k] \in DOMAIN Steps[c] /\ entry = Entry(c, Steps[c][path[k]], Len(path) - k)
  BY DEF Nearest
<1>3. Len(path) \in Nat /\ k \in there /\ entry.cost = Steps[c][path[k]] /\ entry.togo = Len(path) - k
  BY <1>2 DEF Entry
<1>4. \A j \in there : j \in 1 .. Len(path) /\ Steps[c][path[j]] \in Nat
  BY NoSteps
<1>5. \A j \in there : NotAfter(Steps[c][path[k]], Len(path) - k, Steps[c][path[j]], Len(path) - j)
  BY <1>3 DEF Nearest
<1>6. \A j \in there : Steps[c][path[k]] <= Steps[c][path[j]]
  BY <1>3, <1>4, <1>5 DEF NotAfter
<1>7. k \in near
  BY <1>3, <1>6
<1>8. ASSUME NEW j \in near PROVE j <= k
  <2>1. j \in there /\ Steps[c][path[j]] = Steps[c][path[k]]
    BY <1>3, <1>4, <1>6
  <2> HIDE DEF near, there
  <2> QED
    BY <1>3, <1>4, <1>5, <2>1 DEF NotAfter
<1>9. near \subseteq Int
  OBVIOUS
<1> HIDE DEF near, there
<1>10. join = k
  <2>1. \A j \in near : k >= j
    BY <1>7, <1>8, <1>9
  <2>2. join \in near /\ \A j \in near : join >= j
    BY <1>7, <2>1 DEF Max
  <2>3. join >= k /\ k >= join
    BY <1>7, <2>1, <2>2
  <2>4. join \in Int /\ k \in Int
    BY <1>7, <1>9, <2>2
  <2> HIDE DEF join
  <2> QED
    BY <2>3, <2>4
<1> HIDE DEF join
<1> QED
  BY <1>1, <1>2, <1>10

\* The invariant says what is to be shown.
LEMMA PathTablesAreExact == PathInv => PathTablesExact
<1> SUFFICES ASSUME PathInv, NEW a \in Agent, NEW c \in DOMAIN traj_dists[a].dist
             PROVE  traj_dists[a].dist[c] = Entry(c, WayAlong(trajs[a], c).cost, WayAlong(trajs[a], c).togo)
  BY DEF PathTablesExact
<1>1. traj_dists[a] # Empty
  BY DEF Empty
<1>2. trajs[a] \in Seq(Free) /\ Exact(trajs[a], traj_dists[a].dist, traj_dists[a].open)
  BY <1>1 DEF PathInv, PathTablesRight, RightAlong, Once, TablesOf
<1>3. c \in Free /\ Nearest(trajs[a], c, traj_dists[a].dist[c])
  BY <1>2 DEF Exact, Told
<1> QED
  BY <1>2, <1>3, WayIs

\* A path's new table, ...
LEMMA TableAlong ==
  ASSUME NEW path, Once(path)
  PROVE  RightAlong(path, PathTable(path))
  BY PathTableExact DEF RightAlong

\* ... and an older one that is asked.
LEMMA AskedAlong ==
  ASSUME NEW path, NEW table, RightAlong(path, table), NEW cells, Len(cells) \in Nat
  PROVE  RightAlong(path, AskedIfThere(table, cells))
<1>1. CASE table = Empty
  BY <1>1 DEF RightAlong, AskedIfThere
<1>2. CASE table # Empty
  <2>1. Once(path) /\ path \in Seq(Free) /\ Right(table, path)
    BY <1>2 DEF RightAlong, Once, Right
  <2>2. Right(AskedIfThere(table, cells), path)
    BY <2>1, AskedIfThereRight
  <2> QED
    BY <2>1, <2>2 DEF RightAlong, Right
<1> QED
  BY <1>1, <1>2

\* An agent gets a path.
LEMMA NewPathRight ==
  ASSUME Walks(trajs), PathTablesRight(trajs, traj_dists), NEW a \in Agent, NEW path, Once(path),
         add_traj(a, path)
  PROVE  PathTablesRight(trajs', traj_dists')
<1>1. /\ trajs' = [trajs EXCEPT ![a] = path] /\ traj_dists' = [traj_dists EXCEPT ![a] = PathTable(path)]
      /\ DOMAIN trajs = Agent /\ DOMAIN traj_dists = Agent
  BY DEF add_traj, Walks, PathTablesRight
<1>2. RightAlong(path, PathTable(path))
  BY TableAlong
<1>3. ASSUME NEW b \in Agent PROVE RightAlong(trajs'[b], traj_dists'[b])
  BY <1>1, <1>2 DEF PathTablesRight
<1> QED
  BY <1>1, <1>3 DEF PathTablesRight

\* All tables are asked.
LEMMA AllAskedRight ==
  ASSUME PathTablesRight(trajs, traj_dists), trajs' = trajs,
         NEW cells, \A a \in Agent : Len(cells[a]) \in Nat,
         traj_dists' = [a \in Agent |-> AskedIfThere(traj_dists[a], cells[a])]
  PROVE  PathTablesRight(trajs', traj_dists')
<1>1. ASSUME NEW a \in Agent PROVE RightAlong(trajs'[a], traj_dists'[a])
  <2>1. RightAlong(trajs[a], traj_dists[a])
    BY DEF PathTablesRight
  <2>2. RightAlong(trajs[a], AskedIfThere(traj_dists[a], cells[a]))
    BY <2>1, AskedAlong
  <2> QED
    BY <2>2
<1> QED
  BY <1>1 DEF PathTablesRight

\* What the flow schedulers hand over visits no cell twice.
LEMMA HandedOverOnce ==
  ASSUME curr_states \in [Agent -> Free], NEW a \in Agent, NEW path \in HandedOver(a)
  PROVE  Once(path)
<1>1. curr_states[a] \in Free
  OBVIOUS
<1>2. Cardinality(Free) # 0
  BY <1>1, FreeFinite, FS_EmptySet
<1>3. Cardinality(Free) - 1 \in 0 .. Cardinality(Free) - 1
  BY <1>2, FreeFinite
<1>4. path \in UpTo(Cardinality(Free) - 1)
  BY <1>3, GuidePathsAssumption, PathsAre DEF HandedOver
<1> QED
  BY <1>4 DEF UpTo, SimplePath, Once

\* Nobody has a path at first.
LEMMA PathInit ==
  ASSUME Init
  PROVE  PathInv
<1>1. curr_states \in [Agent -> Free]
  BY PlacementsAssumption DEF Init
<1>2. PathTablesRight(trajs, traj_dists)
  BY DEF Init, PathTablesRight, RightAlong
<1>3. searching = None
  BY DEF Init
<1> QED
  BY <1>1, <1>2, <1>3, TrafficInit DEF PathInv

\* The steps that leave the paths and the search alone.
LEMMA PathsQuiet ==
  ASSUME PathInv, TrafficInv', UNCHANGED << trajs, traj_dists, curr_states, searching, nodes >>,
         stage = "exited" => stage' = "exited"
  PROVE  PathInv'
  BY DEF PathInv

\* A search starts; the paths stay.
LEMMA SearchForPaths ==
  ASSUME PathInv, TrafficInv', NEW a \in Agent, SearchFor(a), curr_states' = curr_states
  PROVE  PathInv'
<1>1. trajs' = trajs /\ traj_dists' = traj_dists /\ StartSearch(curr_states[a], tasks[a])
  BY DEF SearchFor
<1>2. curr_states[a] \in Free
  BY DEF PathInv
<1>3. Tree(nodes')
  BY <1>1, <1>2, TreePlanted
<1> QED
  BY <1>1, <1>3 DEF PathInv

\* Every step keeps the tables along the paths exact, and the nodes a tree.
LEMMA PathNext ==
  ASSUME PathInv, [Next]_vars
  PROVE  PathInv'
<1>1. TrafficInv /\ TrafficInv' /\ Walks(trajs) /\ PathTablesRight(trajs, traj_dists)
      /\ curr_states \in [Agent -> Free]
  <2>1. TrafficInv
    BY DEF PathInv
  <2> QED
    BY <2>1, TrafficNext DEF PathInv, TrafficInv
<1>2. CASE InitialPath
  <2>1. searching = None /\ count \in Agent /\ UNCHANGED << curr_states, stage >>
    BY <1>1, <1>2, TeamAssumption DEF InitialPath, Agent, TrafficInv, input, env
  <2>2. CASE SearchFor(count)
    BY <1>1, <2>1, <2>2, SearchForPaths
  <2>3. CASE UNCHANGED << paths, heuristics, nodes, searching >>
    BY <1>1, <2>1, <2>3, PathsQuiet DEF paths
  <2>4. CASE (\E path \in HandedOver(count) : add_traj(count, path))
             /\ UNCHANGED << heuristics, nodes, searching >>
    <3>1. PICK path \in HandedOver(count) : add_traj(count, path)
      BY <2>4
    <3>2. Once(path)
      BY <1>1, <2>1, HandedOverOnce
    <3>3. PathTablesRight(trajs', traj_dists')
      BY <1>1, <2>1, <3>1, <3>2, NewPathRight
    <3> QED
      BY <1>1, <2>1, <2>4, <3>3 DEF PathInv
  <2> QED
    BY <1>2, <2>2, <2>3, <2>4 DEF InitialPath
<1>3. CASE frank_wolfe
  <2> DEFINE a == replan_order[(count % NumAgents) + 1]
  <2>1. a \in Agent /\ UNCHANGED << curr_states, stage >>
    <3>1. (count % NumAgents) + 1 \in 1 .. NumAgents
      BY <1>1, TeamAssumption DEF TrafficInv
    <3> QED
      BY <1>1, <1>3, <3>1 DEF frank_wolfe, TrafficInv, input, env
  <2>2. CASE SearchFor(a)
    <3> HIDE DEF a
    <3> QED
      BY <1>1, <2>1, <2>2, SearchForPaths
  <2>3. CASE UNCHANGED << paths, heuristics, nodes, searching >>
    BY <1>1, <2>1, <2>3, PathsQuiet DEF paths
  <2> QED
    BY <1>3, <2>2, <2>3 DEF frank_wolfe
<1>4. CASE Search
  <2>1. /\ searching # None /\ stage # "exited"
        /\ UNCHANGED << trajs, traj_dists, curr_states, searching >>
    BY <1>4 DEF Search, paths, input, env
  <2>2. PICK curr \in First :
          /\ Expand(curr, tasks[searching])
          /\ stage' = IF Fails(curr, tasks[searching]) THEN "exited" ELSE stage
    BY <1>4 DEF Search
  <2>3. Tree(nodes)
    BY <2>1 DEF PathInv
  <2>4. CASE ReExpansion(curr, tasks[searching])
    <3>1. stage' = "exited"
      BY <2>2, <2>4 DEF Fails
    <3> QED
      BY <1>1, <2>1, <3>1 DEF PathInv
  <2>5. CASE ~ ReExpansion(curr, tasks[searching])
    <3>1. Tree(nodes')
      BY <2>2, <2>3, <2>5, TreeGrows
    <3> QED
      BY <1>1, <2>1, <3>1 DEF PathInv
  <2> QED
    BY <2>4, <2>5
<1>5. CASE Found
  <2>1. /\ searching \in Agent /\ tasks[searching] \in DOMAIN nodes /\ Tree(nodes)
        /\ add_traj(searching, Trajectory(tasks[searching]))
        /\ searching' = None /\ UNCHANGED curr_states
    BY <1>1, <1>5 DEF Found, TrafficInv, PathInv, First, Open, input, env
  <2>2. Once(Trajectory(tasks[searching]))
    BY <2>1, TrajectoryIs
  <2>3. PathTablesRight(trajs', traj_dists')
    BY <1>1, <2>1, <2>2, NewPathRight
  <2> QED
    BY <1>1, <2>1, <2>3 DEF PathInv
<1>6. CASE StartRefinement
  <2> DEFINE cells == [a \in Agent |-> << curr_states[a] >>]
  <2>1. /\ traj_dists' = [a \in Agent |-> AskedIfThere(traj_dists[a], << curr_states[a] >>)]
        /\ UNCHANGED << trajs, searching, nodes, curr_states >> /\ searching = None
    BY <1>6 DEF StartRefinement, input, env
  <2>2. \A a \in Agent : cells[a] = << curr_states[a] >> /\ Len(cells[a]) \in Nat
    BY AskedCells
  <2> HIDE DEF cells
  <2>3. traj_dists' = [a \in Agent |-> AskedIfThere(traj_dists[a], cells[a])]
    BY <2>1, <2>2
  <2>4. PathTablesRight(trajs', traj_dists')
    BY <1>1, <2>1, <2>2, <2>3, AllAskedRight
  <2> QED
    BY <1>1, <2>1, <2>4 DEF PathInv
<1>7. CASE Sort
  <2> DEFINE cells == [a \in Agent |-> Asks(a)]
  <2>1. /\ traj_dists' = [a \in Agent |-> AskedIfThere(traj_dists[a], Asks(a))]
        /\ UNCHANGED << trajs, searching, nodes, curr_states >> /\ stage # "exited"
    BY <1>7 DEF Sort, input, env
  <2>2. \A a \in Agent : cells[a] = Asks(a) /\ Len(cells[a]) \in Nat
    BY AskedCells DEF Asks
  <2> HIDE DEF cells
  <2>3. traj_dists' = [a \in Agent |-> AskedIfThere(traj_dists[a], cells[a])]
    BY <2>1, <2>2
  <2>4. PathTablesRight(trajs', traj_dists')
    BY <1>1, <2>1, <2>2, <2>3, AllAskedRight
  <2> QED
    BY <1>1, <2>1, <2>4 DEF PathInv
<1>8. CASE Execute
  <2>1. /\ curr_states' \in [Agent -> Free] /\ stage = "planned"
        /\ UNCHANGED << trajs, traj_dists, searching, nodes >>
    BY <1>8 DEF Execute, paths, Injection
  <2> QED
    BY <1>1, <2>1 DEF PathInv
<1>9. CASE get_h \/ plan \/ plan_pibt \/ Stop \/ UNCHANGED vars
  <2>1. /\ UNCHANGED << trajs, traj_dists, curr_states, searching, nodes >>
        /\ stage = "exited" => stage' = "exited"
    <3>1. CASE get_h
      BY <3>1 DEF get_h, paths, input, env
    <3>2. CASE plan
      BY <3>2 DEF plan, paths, env
    <3>3. CASE plan_pibt
      BY <3>3 DEF plan_pibt, paths, env
    <3>4. CASE Stop
      BY <3>4 DEF Stop, paths, input, env
    <3>5. CASE UNCHANGED vars
      BY <3>5 DEF vars, paths, input, env
    <3> QED
      BY <1>9, <3>1, <3>2, <3>3, <3>4, <3>5
  <2> QED
    BY <1>1, <2>1, PathsQuiet
<1> QED
  BY <1>2, <1>3, <1>4, <1>5, <1>6, <1>7, <1>8, <1>9 DEF Next

\* The table along a guide path is that of the path which the agent has now, and exact: it
\* tells the moves to the path and the moves that are left, also after a new path was found.
THEOREM PathDistancesExact == Spec => []PathTablesExact
<1>1. Init => PathInv
  BY PathInit
<1>2. PathInv /\ [Next]_vars => PathInv'
  BY PathNext
<1>3. PathInv => PathTablesExact
  BY PathTablesAreExact
<1> QED
  BY <1>1, <1>2, <1>3, PTL DEF Spec

-----------------------------------------------------------------------------
(* What the tables know, when they are asked.                              *)

\* Neighbours are connected with the same cells.
LEMMA Connection ==
  ASSUME NEW c \in Free, NEW d \in Neighbors(c), NEW q
  PROVE  q \in DOMAIN Steps[c] <=> q \in DOMAIN Steps[d]
<1>1. d \in Free /\ c \in Neighbors(d)
  BY NeighborsMutual
<1>2. q \in DOMAIN Steps[d] => q \in DOMAIN Steps[c]
  BY StepMore
<1>3. q \in DOMAIN Steps[c] => q \in DOMAIN Steps[d]
  BY <1>1, StepMore
<1> QED
  BY <1>2, <1>3

\* Cells that have all their neighbours among them have all that are connected with one of them.
LEMMA Flooded ==
  ASSUME NEW D, \A d \in D : d \in Free /\ Neighbors(d) \subseteq D,
         NEW c \in Free, NEW q \in DOMAIN Steps[c]
  PROVE  q \in D <=> c \in D
<1> DEFINE Near(k) == {e \in Free : q \in DOMAIN Steps[e] /\ Steps[e][q] = k}
           Q == {k \in 0 .. Cells : \A e \in Near(k) : q \in D <=> e \in D}
<1>1. Cells \in Nat
  BY WithinIs
<1>2. 0 \in Q
  <2>1. ASSUME NEW e \in Near(0) PROVE q = e
    BY NoSteps
  <2> QED
    BY <1>1, <2>1
<1>3. ASSUME NEW k \in 1 .. Cells, k - 1 \in Q PROVE k \in Q
  <2> SUFFICES ASSUME NEW e \in Near(k) PROVE q \in D <=> e \in D
    OBVIOUS
  <2>1. e \in Free /\ q \in DOMAIN Steps[e] /\ Steps[e][q] = k
    OBVIOUS
  <2>2. q # e
    <3>1. Steps[e][e] = 0
      BY <2>1, NoSteps
    <3> QED
      BY <2>1, <3>1
  <2>3. PICK f \in Neighbors(e) : q \in DOMAIN Steps[f] /\ Steps[e][q] = Steps[f][q] + 1
    BY <2>1, <2>2, StepLess
  <2>4. f \in Free /\ e \in Neighbors(f)
    BY <2>1, <2>3, NeighborsMutual
  <2>5. Steps[f][q] \in Nat
    BY <2>3, <2>4, NoSteps
  <2>6. f \in Near(k - 1)
    BY <2>1, <2>3, <2>4, <2>5
  <2> HIDE DEF Near
  <2>7. q \in D <=> f \in D
    BY <1>3, <2>6
  <2>8. f \in D <=> e \in D
    BY <2>3, <2>4
  <2> QED
    BY <2>7, <2>8
<1> HIDE DEF Q
<1>4. \A k \in 0 .. Cells : k \in Q
  BY <1>1, <1>2, <1>3, NatUpTo
<1>5. Steps[c][q] \in 0 .. Cells
  BY StepsAre
<1>6. Steps[c][q] \in Q /\ c \in Near(Steps[c][q])
  BY <1>4, <1>5
<1> HIDE DEF Near
<1> QED
  BY <1>6 DEF Q

\* What has been expanded.
Done(table) == {c \in DOMAIN table.dist : ~ Waits(c, table.open)}

\* Expanding the front: it waits no longer, and nobody waits again.
LEMMA FrontDone ==
  ASSUME NEW path \in Seq(Free), NEW table \in TablesOf(path), table.open # << >>
  PROVE  /\ table.open[1].location \in Free /\ table.open[1].location \notin Done(table)
         /\ table.open[1].location \in Done(Expanded(table))
         /\ Done(table) \subseteq Done(Expanded(table))
         /\ DOMAIN table.dist \subseteq DOMAIN Expanded(table).dist
<1> DEFINE open  == table.open
           dist  == table.dist
           curr  == open[1]
           c     == curr.location
           s     == curr.cost
           g     == curr.togo
           fresh == Neighbors(c) \ DOMAIN dist
           added == Bettered(table, curr)
           dist2 == With(dist, added)
           rest  == Tail(open)
           open2 == rest \o added
<1>1. /\ Exact(path, dist, open) /\ open \in Seq(Item) /\ Queued(dist, open) /\ QueuedOnce(open)
  BY DEF TablesOf, Exact
<1>2. 1 \in 1 .. Len(open) /\ c \in Free /\ Len(open) \in Nat /\ s \in Nat
  BY <1>1, FirstItem
<1>3. Expanded(table) = [dist |-> dist2, open |-> open2]
  <2>1. Head(open) = open[1]
    OBVIOUS
  <2> QED
    BY <2>1 DEF Expanded
<1>4. /\ added \in Seq(Item)
      /\ \A k \in 1 .. Len(added) :
           added[k].location \in fresh /\ added[k] = Entry(added[k].location, s + 1, g)
      /\ \A d \in fresh : \E k \in 1 .. Len(added) : added[k].location = d
  BY <1>1, BetteredIs
<1> HIDE DEF added
<1>5. DOMAIN dist \subseteq DOMAIN dist2
  <2> DEFINE m == s + 1
  <2>1. Tells(added, fresh, m, g)
    BY <1>4 DEF Tells
  <2>2. \A d \in fresh : d \notin DOMAIN dist
    OBVIOUS
  <2>3. added \in Seq(Item)
    BY <1>4
  <2> HIDE DEF m, fresh, g, dist
  <2>4. Grown(With(dist, added), dist, fresh, m, g)
    BY <2>1, <2>2, <2>3, WithAdded
  <2> QED
    BY <2>4 DEF Grown
<1> DEFINE n == Len(open) - 1
<1>6. /\ n \in Nat /\ rest \in Seq(Item) /\ Len(rest) = n /\ Len(added) \in Nat
      /\ \A k \in 1 .. n : rest[k] = open[k + 1]
  BY <1>1, <1>2, <1>4, HeadTailProperties
<1> HIDE DEF dist2, rest, n
<1>7. /\ Len(open2) = n + Len(added)
      /\ \A k \in 1 .. n + Len(added) : open2[k] = IF k <= n THEN rest[k] ELSE added[k - n]
  <2>1. \A k \in 1 .. n + Len(added) : k <= Len(rest) <=> k <= n
    BY <1>6
  <2>2. open2 = rest \o added
    OBVIOUS
  <2> HIDE DEF open2
  <2> QED
    BY <1>4, <1>6, <2>1, <2>2, ConcatProperties
<1> HIDE DEF open2
<1>8. ASSUME NEW k \in 1 .. Len(open2)
      PROVE  \/ k + 1 \in 1 .. Len(open) /\ k + 1 # 1 /\ open2[k] = open[k + 1]
             \/ open2[k].location \notin DOMAIN dist
  <2>1. k \in Nat /\ k \in 1 .. n + Len(added)
    BY <1>6, <1>7
  <2>2. CASE k <= n
    <3>1. k \in 1 .. n /\ k + 1 \in 1 .. Len(open) /\ k + 1 # 1
      BY <1>2, <1>6, <2>1, <2>2 DEF n
    <3> QED
      BY <1>6, <1>7, <2>1, <2>2, <3>1
  <2>3. CASE k > n
    <3>1. k - n \in 1 .. Len(added) /\ ~ (k <= n)
      BY <1>6, <2>1, <2>3
    <3>2. open2[k] = added[k - n]
      BY <1>7, <2>1, <3>1
    <3> QED
      BY <1>4, <3>1, <3>2
  <2> QED
    BY <1>6, <2>1, <2>2, <2>3
<1>9. ASSUME NEW d \in DOMAIN dist, Waits(d, open2) PROVE Waits(d, open) /\ d # c
  <2>1. PICK k \in 1 .. Len(open2) : open2[k].location = d
    BY <1>9 DEF Waits
  <2>2. k + 1 \in 1 .. Len(open) /\ k + 1 # 1 /\ open[k + 1].location = d
    BY <1>8, <2>1
  <2>3. d # c
    BY <1>1, <1>2, <2>2 DEF QueuedOnce
  <2> QED
    BY <2>2, <2>3 DEF Waits
<1>10. c \in DOMAIN dist /\ Waits(c, open)
  BY <1>1, <1>2 DEF Queued, Waits
<1>11. Expanded(table).dist = dist2 /\ Expanded(table).open = open2
  BY <1>3
<1> HIDE DEF c, dist, open
<1>12. /\ c \in Free /\ c \notin Done(table) /\ c \in Done(Expanded(table))
  BY <1>2, <1>5, <1>9, <1>10, <1>11 DEF Done, dist, open
<1>13. Done(table) \subseteq Done(Expanded(table))
  BY <1>5, <1>9, <1>11 DEF Done, dist, open
<1>14. DOMAIN table.dist \subseteq DOMAIN Expanded(table).dist
  BY <1>5, <1>11 DEF dist
<1> QED
  BY <1>12, <1>13, <1>14 DEF c, open

\* What so many rounds have done: the table knows what it knew before, and the cell in question
\* if it was found; otherwise as many cells have been expanded, or all there are.
Searched(search, path, table, source, k) ==
  /\ search \in [table : TablesOf(path), done : BOOLEAN]
  /\ DOMAIN table.dist \subseteq DOMAIN search.table.dist
  /\ search.done => source \in DOMAIN search.table.dist
  /\ \/ search.done
     \/ search.table.open = << >>
     \/ Cardinality(Done(search.table)) >= k

\* A part has fewer elements.
LEMMA SmallerSubset ==
  ASSUME NEW S, IsFiniteSet(S), NEW T \in SUBSET S, T # S
  PROVE  Cardinality(T) < Cardinality(S)
<1>1. IsFiniteSet(T) /\ Cardinality(T) \in Nat /\ Cardinality(S) \in Nat
  BY FS_Subset, FS_CardinalityType
<1>2. Cardinality(T) <= Cardinality(S) /\ Cardinality(T) # Cardinality(S)
  BY FS_Subset
<1> QED
  BY <1>1, <1>2

\* No more cells are expanded than there are.
LEMMA DoneFinite ==
  ASSUME NEW path \in Seq(Free), NEW table \in TablesOf(path)
  PROVE  /\ IsFiniteSet(Done(table)) /\ Cardinality(Done(table)) \in Nat
         /\ \A c \in Free : c \notin Done(table) => Cardinality(Done(table)) < Cells
<1>1. Done(table) \subseteq Free
  BY DEF TablesOf, Exact, Done
<1>2. IsFiniteSet(Done(table)) /\ Cardinality(Done(table)) \in Nat
  BY <1>1, FreeFinite, FS_Subset, FS_CardinalityType
<1>3. ASSUME NEW c \in Free, c \notin Done(table) PROVE Cardinality(Done(table)) < Cells
  <2>1. Done(table) # Free
    BY <1>3
  <2> QED
    BY <1>1, <2>1, FreeFinite, SmallerSubset DEF Cells
<1> QED
  BY <1>2, <1>3

\* A round more.
LEMMA RoundSearched ==
  ASSUME NEW path \in Seq(Free), NEW table, NEW source, NEW k \in 1 .. Cells,
         NEW search, Searched(search, path, table, source, k - 1)
  PROVE  Searched(Round(search, source), path, table, source, k)
<1>0. Round(search, source) \in [table : TablesOf(path), done : BOOLEAN]
  BY RoundExact DEF Searched
<1>1. CASE search.done \/ search.table.open = << >>
  BY <1>1 DEF Searched, Round
<1>2. CASE ~ (search.done \/ search.table.open = << >>)
  <2> DEFINE t == search.table
             front == t.open[1].location
             next == Expanded(t)
  <2>1. t \in TablesOf(path) /\ t.open # << >> /\ Cardinality(Done(t)) >= k - 1
    BY <1>2 DEF Searched
  <2>2. /\ front \in Free /\ front \notin Done(t) /\ front \in Done(next)
        /\ Done(t) \subseteq Done(next) /\ DOMAIN t.dist \subseteq DOMAIN next.dist
    BY <2>1, FrontDone
  <2>3. /\ Round(search, source).table = next
        /\ Round(search, source).done = (front = source)
    <3>1. t.open \in Seq(Item)
      BY <2>1 DEF TablesOf, Exact
    <3>2. Head(t.open) = t.open[1]
      BY <2>1, <3>1
    <3>3. Round(search, source) = [table |-> Expanded(search.table), done |-> Head(search.table.open).location = source]
      BY <1>2 DEF Round
    <3> QED
      BY <3>2, <3>3
  <2>4. next \in TablesOf(path)
    BY <2>1, ExpandedInTables
  <2>5. front \in DOMAIN next.dist
    BY <2>2 DEF Done
  <2>6. Cardinality(Done(next)) >= k
    <3> DEFINE A == Done(t)
               B == Done(next)
    <3>1. IsFiniteSet(A) /\ IsFiniteSet(B) /\ Cardinality(A) \in Nat /\ Cardinality(B) \in Nat
      BY <2>1, <2>4, DoneFinite
    <3>2. A \subseteq B /\ A # B /\ Cardinality(A) >= k - 1
      BY <2>1, <2>2
    <3> HIDE DEF A, B
    <3>3. Cardinality(A) < Cardinality(B)
      BY <3>1, <3>2, SmallerSubset
    <3>4. Cardinality(B) >= k
      BY <3>1, <3>2, <3>3
    <3> QED
      BY <3>4 DEF B
  <2>7. DOMAIN table.dist \subseteq DOMAIN t.dist
    BY DEF Searched
  <2> HIDE DEF next, front, t
  <2>8. DOMAIN table.dist \subseteq DOMAIN next.dist
    BY <2>2, <2>7
  <2> QED
    BY <1>0, <2>3, <2>5, <2>6, <2>8 DEF Searched
<1> QED
  BY <1>1, <1>2

\* A question is answered, if the cell is connected with the path, and nothing is forgotten.
LEMMA AskedKnows ==
  ASSUME NEW path \in Seq(Free), NEW table \in TablesOf(path), NEW source \in Free
  PROVE  /\ DOMAIN table.dist \subseteq DOMAIN Asked(table, source).dist
         /\ (\E i \in 1 .. Len(path) : path[i] \in DOMAIN Steps[source])
              => source \in DOMAIN Asked(table, source).dist
<1>1. CASE source \in DOMAIN table.dist
  BY <1>1 DEF Asked
<1>2. CASE source \notin DOMAIN table.dist
  <2> DEFINE f == CHOOSE f : Searches(f, table, source)
             Q == {k \in 0 .. Cells : Searched(f[k], path, table, source, k)}
  <2>1. Asked(table, source) = f[Cells].table
    BY <1>2 DEF Asked, Searches, Cells
  <2>2. Searches(f, table, source)
    BY SearchExists
  <2> HIDE DEF f
  <2>3. Cells \in Nat
    BY WithinIs
  <2>4. \A k \in 0 .. Cells : f[k] = IF k = 0 THEN [table |-> table, done |-> FALSE] ELSE Round(f[k - 1], source)
    BY <2>2 DEF Searches
  <2>5. 0 \in Q
    <3> DEFINE first == [table |-> table, done |-> FALSE]
               none == 0
    <3>1. f[0] = first /\ 0 \in 0 .. Cells
      <4>1. 0 \in 0 .. Cells
        BY <2>3
      <4> QED
        BY <2>4, <4>1
    <3>2. first \in [table : TablesOf(path), done : BOOLEAN] /\ first.table = table /\ first.done = FALSE
      OBVIOUS
    <3>3. Cardinality(Done(table)) >= none /\ none = 0
      BY DoneFinite
    <3> HIDE DEF first, none
    <3>4. Searched(first, path, table, source, none)
      BY <3>2, <3>3 DEF Searched
    <3> QED
      BY <3>1, <3>3, <3>4
  <2>6. ASSUME NEW k \in 1 .. Cells, k - 1 \in Q PROVE k \in Q
    <3>1. Searched(Round(f[k - 1], source), path, table, source, k)
      BY <2>6, RoundSearched
    <3>2. f[k] = Round(f[k - 1], source) /\ k \in 0 .. Cells
      BY <2>3, <2>4
    <3> QED
      BY <3>1, <3>2
  <2> HIDE DEF Q
  <2>7. \A k \in 0 .. Cells : k \in Q
    BY <2>3, <2>5, <2>6, NatUpTo
  <2> DEFINE t == f[Cells].table
  <2>8. Searched(f[Cells], path, table, source, Cells)
    <3>1. Cells \in Q
      BY <2>3, <2>7
    <3> QED
      BY <3>1 DEF Q
  <2>9. t \in TablesOf(path) /\ DOMAIN table.dist \subseteq DOMAIN t.dist
    BY <2>8 DEF Searched
  <2>10. ASSUME NEW i \in 1 .. Len(path), path[i] \in DOMAIN Steps[source], source \notin DOMAIN t.dist
         PROVE  t.open = << >>
    <3>1. t.open = << >> \/ Cardinality(Done(t)) >= Cells
      BY <2>8, <2>10 DEF Searched
    <3>2. source \notin Done(t)
      BY <2>10 DEF Done
    <3>3. Cardinality(Done(t)) < Cells /\ Cardinality(Done(t)) \in Nat
      BY <2>9, <3>2, DoneFinite
    <3> HIDE DEF t
    <3> QED
      BY <2>3, <3>1, <3>3
  <2>11. ASSUME NEW i \in 1 .. Len(path), path[i] \in DOMAIN Steps[source], source \notin DOMAIN t.dist
         PROVE  FALSE
    <3> DEFINE D == DOMAIN t.dist
    <3>1. t.open = << >>
      BY <2>10, <2>11
    <3>2. D \subseteq Free /\ WaitsOrDone(t.dist, t.open) /\ path[i] \in D
      BY <2>9 DEF TablesOf, Exact, Covers
    <3>3. \A d \in D : d \in Free /\ Neighbors(d) \subseteq D
      BY <3>1, <3>2 DEF WaitsOrDone, Waits
    <3> HIDE DEF D
    <3>4. source \in D
      BY <2>11, <3>2, <3>3, Flooded
    <3> QED
      BY <2>11, <3>4 DEF D
  <2> QED
    BY <2>1, <2>9, <2>11
<1> QED
  BY <1>1, <1>2

\* All questions are answered that can be.
LEMMA AskedAllKnows ==
  ASSUME NEW path \in Seq(Free), NEW table \in TablesOf(path), NEW cells, Len(cells) \in Nat,
         \A k \in 1 .. Len(cells) : cells[k] \in Free
  PROVE  /\ DOMAIN table.dist \subseteq DOMAIN AskedAll(table, cells).dist
         /\ \A k \in 1 .. Len(cells) :
              (\E i \in 1 .. Len(path) : path[i] \in DOMAIN Steps[cells[k]])
                => cells[k] \in DOMAIN AskedAll(table, cells).dist
<1> DEFINE f == CHOOSE f : Asking(f, table, cells)
           n == Len(cells)
           Reach(c) == \E i \in 1 .. Len(path) : path[i] \in DOMAIN Steps[c]
           Good(j) == /\ f[j] \in TablesOf(path)
                      /\ DOMAIN table.dist \subseteq DOMAIN f[j].dist
                      /\ \A k \in 1 .. j : Reach(cells[k]) => cells[k] \in DOMAIN f[j].dist
           Q == {j \in 0 .. n : Good(j)}
<1>1. AskedAll(table, cells) = f[n]
  BY DEF AskedAll, Asking
<1>2. Asking(f, table, cells)
  BY AskingExists
<1> HIDE DEF f, Reach
<1>3. \A k \in 0 .. n : f[k] = IF k = 0 THEN table ELSE Asked(f[k - 1], cells[k])
  BY <1>2 DEF Asking
<1>4. 0 \in Q
  <2>1. f[0] = table /\ 0 \in 0 .. n
    BY <1>3
  <2> QED
    BY <2>1
<1>5. ASSUME NEW j \in 1 .. n, j - 1 \in Q PROVE j \in Q
  <2>1. f[j] = Asked(f[j - 1], cells[j]) /\ j \in 0 .. n
    BY <1>3
  <2>2. f[j - 1] \in TablesOf(path) /\ DOMAIN table.dist \subseteq DOMAIN f[j - 1].dist
    BY <1>5
  <2>3. f[j] \in TablesOf(path)
    BY <2>1, <2>2, AskedExact
  <2>4. DOMAIN f[j - 1].dist \subseteq DOMAIN f[j].dist
    BY <2>1, <2>2, AskedKnows
  <2>5. Reach(cells[j]) => cells[j] \in DOMAIN f[j].dist
    BY <2>1, <2>2, AskedKnows DEF Reach
  <2>6. ASSUME NEW k \in 1 .. j, Reach(cells[k]) PROVE cells[k] \in DOMAIN f[j].dist
    <3>1. CASE k = j
      BY <2>5, <2>6, <3>1
    <3>2. CASE k # j
      <4>1. k \in 1 .. j - 1
        BY <3>2
      <4>2. cells[k] \in DOMAIN f[j - 1].dist
        BY <1>5, <2>6, <4>1
      <4> QED
        BY <2>4, <4>2
    <3> QED
      BY <3>1, <3>2
  <2> QED
    BY <2>1, <2>2, <2>3, <2>4, <2>6
<1> HIDE DEF Q
<1>6. \A j \in 0 .. n : j \in Q
  BY <1>4, <1>5, NatUpTo
<1>7. Good(n)
  <2>1. n \in Q
    BY <1>6
  <2> QED
    BY <2>1 DEF Q
<1> QED
  BY <1>1, <1>7 DEF Reach

\* From a cell off the goal of a path that can be walked, a table of the path leads on: some
\* neighbour is nearer to the path, or further along it.
LEMMA LeadsOn ==
  ASSUME NEW path, Once(path), Walkable(path), NEW table \in TablesOf(path),
         NEW c \in DOMAIN table.dist, c # path[Len(path)], Neighbors(c) \subseteq DOMAIN table.dist
  PROVE  \E e \in Neighbors(c) :
           table.dist[e].cost + table.dist[e].togo < table.dist[c].cost + table.dist[c].togo
<1> DEFINE n == Len(path)
           dist == table.dist
<1>1. path \in Seq(Free) /\ n \in Nat /\ n >= 1 /\ \A k \in 1 .. n : path[k] \in Free
  BY LenProperties, ElementOfSeq DEF Once
<1>2. /\ \A d \in DOMAIN dist : d \in Free /\ Nearest(path, d, dist[d])
  BY DEF TablesOf, Exact, Told
<1> HIDE DEF dist, n
<1>3. PICK k \in 1 .. n : path[k] \in DOMAIN Steps[c] /\ dist[c] = Entry(c, Steps[c][path[k]], n - k)
  BY <1>2 DEF Nearest, n, dist
<1>4. c \in Free /\ dist[c].cost = Steps[c][path[k]] /\ dist[c].togo = n - k /\ Steps[c][path[k]] \in Nat
  BY <1>2, <1>3, NoSteps DEF Entry, dist
<1>5. ASSUME NEW d \in DOMAIN dist, NEW j \in 1 .. n, path[j] \in DOMAIN Steps[d]
      PROVE  NotAfter(dist[d].cost, dist[d].togo, Steps[d][path[j]], n - j)
  BY <1>2, <1>5 DEF Nearest, n
<1>6. CASE path[k] # c
  <2>1. PICK e \in Neighbors(c) : path[k] \in DOMAIN Steps[e] /\ Steps[c][path[k]] = Steps[e][path[k]] + 1
    BY <1>3, <1>4, <1>6, StepLess
  <2>2. e \in DOMAIN dist /\ e \in Free
    BY <1>2, <2>1 DEF dist
  <2>3. NotAfter(dist[e].cost, dist[e].togo, Steps[e][path[k]], n - k)
    BY <1>5, <2>1, <2>2
  <2>4. PICK i \in 1 .. n : path[i] \in DOMAIN Steps[e] /\ dist[e] = Entry(e, Steps[e][path[i]], n - i)
    BY <1>2, <2>2 DEF Nearest, n
  <2>5. dist[e].cost = Steps[e][path[i]] /\ dist[e].togo = n - i /\ Steps[e][path[i]] \in Nat
    BY <2>2, <2>4, NoSteps DEF Entry
  <2>6. Steps[e][path[k]] \in Nat
    BY <2>1, <2>2, NoSteps
  <2>7. path[i] \in DOMAIN Steps[c] /\ Steps[c][path[i]] <= Steps[e][path[i]] + 1
    BY <1>4, <2>1, <2>4, StepMore
  <2>8. NotAfter(dist[c].cost, dist[c].togo, Steps[c][path[i]], n - i) /\ Steps[c][path[i]] \in Nat
    BY <1>4, <1>5, <2>4, <2>7, NoSteps DEF dist
  <2>9. dist[e].cost + dist[e].togo < dist[c].cost + dist[c].togo
    <3> DEFINE xi == Steps[e][path[i]]
               xk == Steps[e][path[k]]
               ci == Steps[c][path[i]]
               ck == Steps[c][path[k]]
    <3>1. xi \in Nat /\ xk \in Nat /\ ci \in Nat /\ ck \in Nat /\ ck = xk + 1 /\ ci <= xi + 1
      BY <1>4, <2>1, <2>5, <2>6, <2>7, <2>8
    <3>2. NotAfter(xi, n - i, xk, n - k) /\ NotAfter(ck, n - k, ci, n - i)
      BY <1>4, <2>3, <2>5, <2>8
    <3>3. /\ dist[e].cost = xi /\ dist[e].togo = n - i
          /\ dist[c].cost = ck /\ dist[c].togo = n - k
      BY <1>4, <2>5
    <3>4. n - i \in Int /\ n - k \in Int
      BY <1>1
    <3> HIDE DEF xi, xk, ci, ck
    <3>5. ~ (xi < xk)
      BY <3>1, <3>2, <3>4 DEF NotAfter
    <3>6. xi = xk /\ n - i <= n - k
      BY <3>1, <3>2, <3>5 DEF NotAfter
    <3>7. xi + (n - i) < ck + (n - k)
      BY <3>1, <3>4, <3>6
    <3> QED
      BY <3>3, <3>7
  <2> QED
    BY <2>1, <2>9 DEF dist
<1>7. CASE path[k] = c
  <2>1. k # n
    BY <1>7 DEF n
  <2>2. k \in 1 .. n - 1 /\ k + 1 \in 1 .. n
    BY <1>1, <2>1
  <2> DEFINE e == path[k + 1]
  <2>3. e \in Neighbors(c) /\ e \in Free /\ e \in DOMAIN Steps[e] /\ Steps[e][e] = 0 /\ Steps[c][c] = 0
    BY <1>1, <1>4, <1>7, <2>2, NoSteps DEF Walkable, n
  <2>4. e \in DOMAIN dist
    BY <2>3 DEF dist
  <2>5. NotAfter(dist[e].cost, dist[e].togo, Steps[e][path[k + 1]], n - (k + 1))
    BY <1>5, <2>2, <2>3, <2>4
  <2>6. dist[e].cost \in Nat /\ dist[e].togo \in Nat
    BY <1>1, <1>2, <2>3, <2>4, NearestItem
  <2> HIDE DEF e
  <2>7. NotAfter(dist[e].cost, dist[e].togo, 0, n - (k + 1))
    BY <2>3, <2>5 DEF e
  <2>8. dist[e].cost + dist[e].togo < dist[c].cost + dist[c].togo
    BY <1>1, <1>4, <1>7, <2>2, <2>3, <2>6, <2>7 DEF NotAfter
  <2> QED
    BY <2>3, <2>8 DEF dist
<1> QED
  BY <1>6, <1>7

\* A table of a path is there.
LEMMA TableIsThere ==
  ASSUME NEW path, Once(path), NEW table \in TablesOf(path)
  PROVE  table # Empty
<1>1. path[1] \in DOMAIN table.dist
  <2>1. 1 \in 1 .. Len(path)
    BY LenProperties DEF Once
  <2> QED
    BY <2>1 DEF TablesOf, Exact, Covers
<1>2. Empty.dist = << >> /\ DOMAIN << >> = {}
  BY DEF Empty
<1> QED
  BY <1>1, <1>2

\* What PIBT asks for an agent: the cell of the agent and those around it.
LEMMA AsksAre ==
  ASSUME NEW a \in Agent, curr_states[a] \in Free
  PROVE  /\ Len(Asks(a)) \in Nat
         /\ \A k \in 1 .. Len(Asks(a)) : Asks(a)[k] \in Successors(curr_states[a])
         /\ \A c \in Successors(curr_states[a]) : \E k \in 1 .. Len(Asks(a)) : Asks(a)[k] = c
<1> DEFINE c == curr_states[a]
           S == Successors(c)
           l == NeighborLocs(c)
<1>1. Neighbors(c) \in SUBSET Neighbors(c) /\ c \in Free
  OBVIOUS
<1>2. l \in Seq(Neighbors(c)) /\ Range(l) = Neighbors(c)
  BY <1>1, InOrderIs DEF NeighborLocs
<1>3. Asks(a) = Append(l, c)
  BY DEF Asks
<1>4. c \in S /\ Neighbors(c) \subseteq S /\ S = Neighbors(c) \cup {c}
  BY DEF Successors
<1> HIDE DEF S, l
<1>5. /\ Len(l) \in Nat /\ DOMAIN l = 1 .. Len(l) /\ \A k \in 1 .. Len(l) : l[k] \in Neighbors(c)
  BY <1>2, LenProperties, ElementOfSeq
<1>6. /\ Len(Append(l, c)) = Len(l) + 1 /\ Append(l, c)[Len(l) + 1] = c
      /\ \A k \in 1 .. Len(l) : Append(l, c)[k] = l[k]
  BY <1>2, <1>4, AppendProperties
<1>7. \A d \in Neighbors(c) : \E k \in 1 .. Len(l) : l[k] = d
  BY <1>2, <1>5 DEF Range
<1> HIDE DEF c
<1>8. \A k \in 1 .. Len(l) + 1 : k = Len(l) + 1 \/ k \in 1 .. Len(l)
  BY <1>5
<1>9. Len(l) + 1 \in 1 .. Len(l) + 1 /\ \A k \in 1 .. Len(l) : k \in 1 .. Len(l) + 1
  BY <1>5
<1>10. \A k \in 1 .. Len(l) + 1 : Append(l, c)[k] \in S
  BY <1>4, <1>5, <1>6, <1>8
<1>11. \A d \in S : \E k \in 1 .. Len(l) + 1 : Append(l, c)[k] = d
  BY <1>4, <1>6, <1>7, <1>9
<1> QED
  BY <1>3, <1>5, <1>6, <1>10, <1>11 DEF S, c

-----------------------------------------------------------------------------
(* Who is guided.                                                          *)

\* An agent whose path leads to its task.
Guided(a) == trajs[a] # NoPath /\ Last(trajs[a]) = tasks[a]

\* Who has a path has a table along it, and is connected with where the path begins.
Attached(ts, ds, cs) ==
  \A a \in Agent : /\ ds[a] = Empty <=> ts[a] = NoPath
                   /\ ts[a] # NoPath => ts[a][1] \in DOMAIN Steps[cs[a]]

\* Only the start of a search has come no way.
Rooted(ns, start) == \A c \in DOMAIN ns : ns[c].g = 0 => c = start

LeadInv ==
  /\ PathInv
  /\ stopped \in Nat
  /\ Attached(trajs, traj_dists, curr_states)
  /\ searching # None =>
       /\ stage \in {"initial", "refine", "exited"}
       /\ Rooted(nodes, curr_states[searching])
  /\ stage = "initial" =>
       /\ searching # None => searching = count
       /\ count <= NumAgents
       /\ \A a \in Agent : a < count \/ ~ require_guide_path[a] => Guided(a)
  /\ stage \in {"refine", "sort", "planned"} =>
       /\ stopped <= NumAgents
       /\ \A a \in Agent : a < stopped => Guided(a)
  /\ stage = "planned" =>
       \A a \in Agent : trajs[a] # NoPath => Successors(curr_states[a]) \subseteq DOMAIN traj_dists[a].dist

\* Guided agents are led on.
LEMMA LeadInvLeads == LeadInv => GuidesLead
<1> SUFFICES ASSUME LeadInv, stage = "planned", NEW a \in 0 .. stopped - 1,
                    curr_states[a] # tasks[a], Walkable(trajs[a])
             PROVE  Last(trajs[a]) = tasks[a] /\ ~ Blocked(a)
  <2>1. ASSUME LeadInv, stage = "planned", NEW a \in 0 .. stopped - 1 PROVE Last(trajs[a]) = tasks[a]
    <3>1. a \in Agent /\ a < stopped
      BY <2>1, TeamAssumption DEF LeadInv, Agent
    <3> QED
      BY <2>1, <3>1 DEF LeadInv, Guided
  <2> QED
    BY <2>1 DEF GuidesLead
<1> DEFINE path == trajs[a]
           table == traj_dists[a]
           c == curr_states[a]
<1>1. a \in Agent /\ a < stopped
  BY TeamAssumption DEF LeadInv, Agent
<1>2. Guided(a) /\ path # NoPath /\ Successors(c) \subseteq DOMAIN table.dist
  BY <1>1 DEF LeadInv, Guided
<1>3. table # Empty /\ RightAlong(path, table)
  BY <1>1, <1>2 DEF LeadInv, Attached, PathInv, PathTablesRight
<1>4. Once(path) /\ table \in TablesOf(path)
  BY <1>3 DEF RightAlong
<1>5. Last(path) = tasks[a] /\ Last(path) = path[Len(path)]
  BY <1>2 DEF Guided, Last
<1>6. c \in DOMAIN table.dist /\ Neighbors(c) \subseteq DOMAIN table.dist /\ c # path[Len(path)]
  BY <1>2, <1>5 DEF Successors
<1>7. Walkable(path)
  OBVIOUS
<1> HIDE DEF path, table, c
<1>8. PICK e \in Neighbors(c) :
        table.dist[e].cost + table.dist[e].togo < table.dist[c].cost + table.dist[c].togo
  BY <1>4, <1>6, <1>7, LeadsOn
<1>9. Guide(a, c) = table.dist[c].cost + table.dist[c].togo
      /\ Guide(a, e) = table.dist[e].cost + table.dist[e].togo
  BY <1>3 DEF Guide, table
<1>10. Guide(a, c) \in Nat /\ Guide(a, e) \in Nat
  <2>1. c \in Free /\ e \in Free /\ Nearest(path, c, table.dist[c]) /\ Nearest(path, e, table.dist[e])
    BY <1>4, <1>6, <1>8 DEF TablesOf, Exact, Told
  <2>2. path \in Seq(Free)
    BY <1>4 DEF Once
  <2>3. /\ table.dist[c].cost \in Nat /\ table.dist[c].togo \in Nat
        /\ table.dist[e].cost \in Nat /\ table.dist[e].togo \in Nat
    BY <2>1, <2>2, NearestItem
  <2> QED
    BY <1>9, <2>3
<1>11. ~ (Guide(a, c) <= Guide(a, e))
  BY <1>8, <1>9, <1>10
<1>12. ~ Blocked(a)
  BY <1>8, <1>11 DEF Blocked, c
<1> QED
  BY <1>5, <1>12 DEF path

\* An agent gets a path that begins where it is.
LEMMA NewPathAttached ==
  ASSUME Walks(trajs), PathTablesRight(trajs, traj_dists), Attached(trajs, traj_dists, curr_states),
         curr_states \in [Agent -> Free], NEW a \in Agent, NEW path, Once(path), path[1] = curr_states[a],
         add_traj(a, path)
  PROVE  Attached(trajs', traj_dists', curr_states) /\ trajs'[a] = path
         /\ path # NoPath /\ \A b \in Agent : b # a => trajs'[b] = trajs[b]
<1>1. /\ trajs' = [trajs EXCEPT ![a] = path] /\ traj_dists' = [traj_dists EXCEPT ![a] = PathTable(path)]
      /\ DOMAIN trajs = Agent /\ DOMAIN traj_dists = Agent
  BY DEF add_traj, Walks, PathTablesRight
<1>2. path # NoPath
  BY DEF Once, NoPath
<1>3. PathTable(path) # Empty
  BY PathTableExact, TableIsThere
<1>4. path[1] \in DOMAIN Steps[curr_states[a]]
  BY NoSteps
<1>5. ASSUME NEW b \in Agent
      PROVE  /\ traj_dists'[b] = Empty <=> trajs'[b] = NoPath
             /\ trajs'[b] # NoPath => trajs'[b][1] \in DOMAIN Steps[curr_states[b]]
  BY <1>1, <1>2, <1>3, <1>4 DEF Attached
<1> QED
  BY <1>1, <1>2, <1>5 DEF Attached

\* All tables are asked.
LEMMA AllAskedAttached ==
  ASSUME PathTablesRight(trajs, traj_dists), Attached(trajs, traj_dists, curr_states), trajs' = trajs,
         NEW cells, \A a \in Agent : Len(cells[a]) \in Nat,
         traj_dists' = [a \in Agent |-> AskedIfThere(traj_dists[a], cells[a])]
  PROVE  Attached(trajs', traj_dists', curr_states)
<1>1. ASSUME NEW a \in Agent PROVE traj_dists'[a] = Empty <=> traj_dists[a] = Empty
  <2>1. traj_dists'[a] = AskedIfThere(traj_dists[a], cells[a])
    OBVIOUS
  <2>2. CASE traj_dists[a] = Empty
    BY <2>1, <2>2 DEF AskedIfThere
  <2>3. CASE traj_dists[a] # Empty
    <3>1. Once(trajs[a]) /\ traj_dists[a] \in TablesOf(trajs[a]) /\ trajs[a] \in Seq(Free)
      BY <2>3 DEF PathTablesRight, RightAlong, Once
    <3>2. AskedAll(traj_dists[a], cells[a]) \in TablesOf(trajs[a])
      BY <3>1, AskedAllExact
    <3>3. AskedAll(traj_dists[a], cells[a]) # Empty
      BY <3>1, <3>2, TableIsThere
    <3> QED
      BY <2>1, <2>3, <3>3 DEF AskedIfThere
  <2> QED
    BY <2>2, <2>3
<1> QED
  BY <1>1 DEF Attached

\* After Sort, the tables know the cells around the agents.
LEMMA SortKnows ==
  ASSUME PathTablesRight(trajs, traj_dists), Attached(trajs, traj_dists, curr_states),
         curr_states \in [Agent -> Free], NEW a \in Agent, trajs[a] # NoPath
  PROVE  Successors(curr_states[a]) \subseteq DOMAIN AskedIfThere(traj_dists[a], Asks(a)).dist
<1> DEFINE path == trajs[a]
           table == traj_dists[a]
           c == curr_states[a]
           cells == Asks(a)
<1>1. table # Empty /\ path[1] \in DOMAIN Steps[c] /\ c \in Free
  BY DEF Attached
<1>2. Once(path) /\ table \in TablesOf(path) /\ path \in Seq(Free)
  BY <1>1 DEF PathTablesRight, RightAlong, Once
<1>3. 1 \in 1 .. Len(path)
  BY <1>2, LenProperties DEF Once
<1>4. /\ Len(cells) \in Nat
      /\ \A k \in 1 .. Len(cells) : cells[k] \in Successors(c)
      /\ \A d \in Successors(c) : \E k \in 1 .. Len(cells) : cells[k] = d
  BY <1>1, AsksAre
<1>5. AskedIfThere(table, cells) = AskedAll(table, cells)
  BY <1>1 DEF AskedIfThere
<1> HIDE DEF path, table, c, cells
<1>6. ASSUME NEW d \in Successors(c) PROVE d \in Free /\ path[1] \in DOMAIN Steps[d]
  <2>1. CASE d = c
    BY <1>1, <2>1
  <2>2. CASE d \in Neighbors(c)
    BY <1>1, <2>2, Connection, NeighborsMutual
  <2> QED
    BY <2>1, <2>2 DEF Successors
<1>7. \A k \in 1 .. Len(cells) : cells[k] \in Free
  BY <1>4, <1>6
<1>8. ASSUME NEW d \in Successors(c) PROVE d \in DOMAIN AskedAll(table, cells).dist
  <2>1. PICK k \in 1 .. Len(cells) : cells[k] = d
    BY <1>4
  <2>2. \E i \in 1 .. Len(path) : path[i] \in DOMAIN Steps[cells[k]]
    BY <1>3, <1>6, <2>1
  <2>3. cells[k] \in DOMAIN AskedAll(table, cells).dist
    BY <1>2, <1>4, <1>7, <2>2, AskedAllKnows
  <2> QED
    BY <2>1, <2>3
<1> QED
  BY <1>5, <1>8 DEF path, table, c, cells

\* Reaching nodes keeps the start the only root.
LEMMA ExpandRooted ==
  ASSUME Depths, NEW curr \in First, NEW goal, Expand(curr, goal), NEW start, Rooted(nodes, start)
  PROVE  Rooted(nodes', start)
<1> DEFINE ns == nodes'
           M == Improved(curr, goal)
<1>1. ns = [c \in DOMAIN nodes \cup M |->
              IF c \in M THEN Reached(curr, c, goal)
              ELSE IF c = curr THEN [nodes[c] EXCEPT !.closed = TRUE]
              ELSE nodes[c]]
  BY DEF Expand
<1>2. curr \in DOMAIN nodes /\ nodes[curr].g \in Nat
  BY DEF First, Open, Depths
<1>3. \A c \in M : Reached(curr, c, goal).g = nodes[curr].g + 1
  BY DEF Reached, Node
<1>4. [nodes[curr] EXCEPT !.closed = TRUE].g = nodes[curr].g
  BY <1>2 DEF Depths
<1> HIDE DEF M, ns
<1>5. ASSUME NEW c \in DOMAIN ns, ns[c].g = 0 PROVE c = start
  <2>1. c \notin M
    <3> SUFFICES ASSUME c \in M PROVE FALSE
      OBVIOUS
    <3>1. ns[c].g = nodes[curr].g + 1
      BY <1>1, <1>3
    <3> QED
      BY <1>2, <1>5, <3>1
  <2>2. c \in DOMAIN nodes /\ ns[c].g = nodes[c].g
    BY <1>1, <1>4, <1>5, <2>1
  <2> QED
    BY <1>5, <2>2 DEF Rooted
<1> QED
  BY <1>5 DEF Rooted, ns

\* Nobody has a path at first.
LEMMA LeadInit ==
  ASSUME Init
  PROVE  LeadInv
<1>1. Attached(trajs, traj_dists, curr_states)
  BY DEF Init, Attached
<1>2. stopped = 0 /\ searching = None /\ stage = "idle"
  BY DEF Init
<1> QED
  BY <1>1, <1>2, PathInit DEF LeadInv

\* A search starts.
LEMMA SearchForLeads ==
  ASSUME LeadInv, PathInv', NEW a \in Agent, SearchFor(a), stage \in {"initial", "refine"},
         stage = "initial" => a = count,
         UNCHANGED << stage, stopped, tasks, require_guide_path, curr_states >>
  PROVE  LeadInv'
<1>1. UNCHANGED << trajs, traj_dists, count >> /\ searching' = a /\ StartSearch(curr_states[a], tasks[a])
  BY DEF SearchFor
<1>2. Rooted(nodes', curr_states[a])
  BY <1>1 DEF StartSearch, Rooted
<1>3. Attached(trajs, traj_dists, curr_states)'
  BY <1>1 DEF LeadInv, Attached
<1> QED
  BY <1>1, <1>2, <1>3 DEF LeadInv, Guided

\* An agent gets a path to its task, from where it is.
LEMMA PathLeads ==
  ASSUME LeadInv, PathInv', NEW a \in Agent, NEW path, Once(path), path[1] = curr_states[a],
         Last(path) = tasks[a], add_traj(a, path), stage \in {"initial", "refine"},
         stage = "initial" => a = count, count' = count + 1, searching' = None,
         UNCHANGED << stage, stopped, tasks, require_guide_path, curr_states >>
  PROVE  LeadInv'
<1>1. /\ Walks(trajs) /\ PathTablesRight(trajs, traj_dists) /\ Attached(trajs, traj_dists, curr_states)
      /\ curr_states \in [Agent -> Free] /\ count \in Nat
  BY DEF LeadInv, PathInv, TrafficInv
<1>2. /\ Attached(trajs', traj_dists', curr_states) /\ trajs'[a] = path
      /\ path # NoPath /\ \A b \in Agent : b # a => trajs'[b] = trajs[b]
  BY <1>1, NewPathAttached
<1>3. Attached(trajs, traj_dists, curr_states)'
  BY <1>2 DEF Attached
<1>4. Guided(a)' /\ \A b \in Agent : Guided(b) => Guided(b)'
  BY <1>2 DEF Guided, Last
<1>5. NumAgents \in Nat /\ \A b \in Agent : b \in Nat /\ b < NumAgents
  BY TeamAssumption DEF Agent
<1>6. CASE stage = "initial"
  <2>1. \A b \in Agent : b < count + 1 => b = a \/ b < count
    BY <1>1, <1>5, <1>6
  <2>2. \A b \in Agent : b < count + 1 \/ ~ require_guide_path[b] => Guided(b)'
    BY <1>4, <1>6, <2>1 DEF LeadInv
  <2>3. count + 1 <= NumAgents
    BY <1>1, <1>5, <1>6
  <2> QED
    BY <1>3, <1>6, <2>2, <2>3 DEF LeadInv
<1>7. CASE stage = "refine"
  BY <1>3, <1>4, <1>7 DEF LeadInv
<1> QED
  BY <1>6, <1>7

\* The trajectory that is found begins at the start of the search.
LEMMA FoundBegins ==
  ASSUME Tree(nodes), NEW goal \in DOMAIN nodes, NEW start, Rooted(nodes, start)
  PROVE  /\ Once(Trajectory(goal)) /\ Trajectory(goal)[1] = start
         /\ Last(Trajectory(goal)) = goal
<1> DEFINE way == Trajectory(goal)
<1>1. /\ Once(way) /\ way[Len(way)] = goal
      /\ \A k \in 1 .. Len(way) : way[k] \in DOMAIN nodes /\ nodes[way[k]].g = k - 1
  BY TrajectoryIs
<1> HIDE DEF way
<1>2. 1 \in 1 .. Len(way)
  BY <1>1, LenProperties DEF Once
<1>3. way[1] \in DOMAIN nodes /\ nodes[way[1]].g = 0
  BY <1>1, <1>2
<1>4. way[1] = start
  BY <1>3 DEF Rooted
<1> QED
  BY <1>1, <1>4 DEF way, Last

\* Every step keeps the guided agents guided.
LEMMA LeadNext ==
  ASSUME LeadInv, [Next]_vars
  PROVE  LeadInv'
<1>1. /\ PathInv /\ PathInv' /\ Walks(trajs) /\ PathTablesRight(trajs, traj_dists)
      /\ Attached(trajs, traj_dists, curr_states) /\ curr_states \in [Agent -> Free]
      /\ count \in Nat /\ stopped \in Nat /\ searching \in Agent \cup {None} /\ Depths
  <2>1. PathInv
    BY DEF LeadInv
  <2> QED
    BY <2>1, PathNext DEF LeadInv, PathInv, TrafficInv
<1>2. NumAgents \in Nat /\ None \notin Agent /\ \A b \in Agent : b \in Nat /\ b < NumAgents
  BY TeamAssumption DEF Agent, None
<1>3. ASSUME UNCHANGED << trajs, traj_dists, curr_states, tasks, searching, nodes, stopped, count,
                          require_guide_path, stage >>
      PROVE  LeadInv'
  <2>1. Attached(trajs, traj_dists, curr_states)'
    BY <1>1, <1>3 DEF Attached
  <2> QED
    BY <1>1, <1>3, <2>1 DEF LeadInv, Guided
<1>4. CASE get_h \/ UNCHANGED vars
  BY <1>3, <1>4 DEF get_h, vars, paths, input, env
<1>5. CASE plan
  <2>1. /\ UNCHANGED << trajs, traj_dists, curr_states, searching, stopped >> /\ stage = "idle"
        /\ stage' = "initial" /\ count' = 0 /\ require_guide_path' = Required(tasks')
    BY <1>5 DEF plan, paths, env
  <2>2. searching = None /\ searching' = None
    BY <2>1 DEF LeadInv
  <2>3. ASSUME NEW a \in Agent, a < count' \/ ~ require_guide_path'[a] PROVE Guided(a)'
    <3>1. ~ require_guide_path'[a]
      BY <1>2, <2>1, <2>3
    <3>2. trajs[a] # NoPath /\ Last(trajs[a]) = tasks'[a]
      BY <2>1, <3>1 DEF Required
    <3> QED
      BY <2>1, <3>2 DEF Guided
  <2>4. Attached(trajs, traj_dists, curr_states)'
    BY <1>1, <2>1 DEF Attached
  <2> QED
    BY <1>1, <1>2, <2>1, <2>2, <2>3, <2>4 DEF LeadInv
<1>6. CASE plan_pibt
  <2>1. /\ UNCHANGED << trajs, traj_dists, curr_states, searching >> /\ stage = "idle"
        /\ stage' = "sort" /\ stopped' = 0
    BY <1>6 DEF plan_pibt, paths, env
  <2>2. searching = None /\ searching' = None
    BY <2>1 DEF LeadInv
  <2>3. Attached(trajs, traj_dists, curr_states)'
    BY <1>1, <2>1 DEF Attached
  <2>4. \A a \in Agent : ~ (a < 0)
    BY <1>2
  <2> QED
    BY <1>1, <1>2, <2>1, <2>2, <2>3, <2>4 DEF LeadInv
<1>7. CASE InitialPath
  <2>1. /\ stage = "initial" /\ searching = None /\ count \in Agent
        /\ UNCHANGED << stage, stopped, tasks, require_guide_path, curr_states >>
    BY <1>1, <1>7, TeamAssumption DEF InitialPath, Agent, input, env
  <2>2. CASE SearchFor(count)
    BY <1>1, <2>1, <2>2, SearchForLeads
  <2>3. CASE ~ require_guide_path[count] /\ count' = count + 1
             /\ UNCHANGED << paths, heuristics, nodes, searching >>
    <3>1. UNCHANGED << trajs, traj_dists, nodes, searching >>
      BY <2>3 DEF paths
    <3>2. Attached(trajs, traj_dists, curr_states)'
      BY <1>1, <2>1, <3>1 DEF Attached
    <3>3. \A a \in Agent : a < count + 1 => a < count \/ a = count
      BY <1>1, <1>2
    <3>4. count + 1 <= NumAgents
      BY <1>1, <1>2, <2>1
    <3>5. \A a \in Agent : a < count + 1 \/ ~ require_guide_path[a] => Guided(a)
      BY <2>1, <2>3, <3>3 DEF LeadInv
    <3> QED
      BY <1>1, <2>1, <2>3, <3>1, <3>2, <3>4, <3>5 DEF LeadInv, Guided
  <2>4. CASE (\E path \in HandedOver(count) : add_traj(count, path))
             /\ count' = count + 1 /\ UNCHANGED << heuristics, nodes, searching >>
    <3>1. PICK path \in HandedOver(count) : add_traj(count, path)
      BY <2>4
    <3>2. Once(path) /\ path[1] = curr_states[count] /\ Last(path) = tasks[count]
      BY <1>1, <2>1, HandedOverOnce DEF HandedOver
    <3> QED
      BY <1>1, <2>1, <2>4, <3>1, <3>2, PathLeads
  <2> QED
    BY <1>7, <2>2, <2>3, <2>4 DEF InitialPath
<1>8. CASE frank_wolfe
  <2> DEFINE a == replan_order[(count % NumAgents) + 1]
  <2>1. a \in Agent /\ UNCHANGED << stage, stopped, tasks, require_guide_path, curr_states >>
        /\ stage = "refine" /\ searching = None
    <3>1. (count % NumAgents) + 1 \in 1 .. NumAgents
      BY <1>1, TeamAssumption
    <3> QED
      BY <1>1, <1>8, <3>1 DEF frank_wolfe, PathInv, TrafficInv, input, env
  <2>2. CASE SearchFor(a)
    <3> HIDE DEF a
    <3> QED
      BY <1>1, <2>1, <2>2, SearchForLeads
  <2>3. CASE UNCHANGED << paths, heuristics, nodes, searching >>
    <3>1. UNCHANGED << trajs, traj_dists, nodes, searching >>
      BY <2>3 DEF paths
    <3>2. Attached(trajs, traj_dists, curr_states)'
      BY <1>1, <2>1, <3>1 DEF Attached
    <3> QED
      BY <1>1, <2>1, <3>1, <3>2 DEF LeadInv, Guided
  <2> QED
    BY <1>8, <2>2, <2>3 DEF frank_wolfe
<1>9. CASE Search
  <2>1. /\ searching # None /\ stage # "exited" /\ stage' \in {stage, "exited"}
        /\ UNCHANGED << trajs, traj_dists, curr_states, searching, tasks, stopped, count, require_guide_path >>
    BY <1>9 DEF Search, paths, input, env
  <2>2. PICK curr \in First : Expand(curr, tasks[searching])
    BY <1>9 DEF Search
  <2>3. Rooted(nodes', curr_states[searching])
    BY <1>1, <2>1, <2>2, ExpandRooted DEF LeadInv
  <2>4. Attached(trajs, traj_dists, curr_states)'
    BY <1>1, <2>1 DEF Attached
  <2>5. stage \in {"initial", "refine"}
    BY <2>1 DEF LeadInv
  <2> QED
    BY <1>1, <2>1, <2>3, <2>4, <2>5 DEF LeadInv, Guided
<1>10. CASE Found
  <2>1. /\ searching \in Agent /\ tasks[searching] \in DOMAIN nodes /\ Tree(nodes)
        /\ add_traj(searching, Trajectory(tasks[searching])) /\ count' = count + 1
        /\ searching' = None /\ UNCHANGED << stage, stopped, tasks, require_guide_path, curr_states >>
        /\ stage \in {"initial", "refine"} /\ (stage = "initial" => searching = count)
        /\ Rooted(nodes, curr_states[searching])
    <3>1. searching # None /\ stage # "exited" /\ tasks[searching] \in First
      BY <1>10 DEF Found
    <3>2. tasks[searching] \in DOMAIN nodes
      BY <3>1 DEF First, Open
    <3>3. Tree(nodes)
      BY <1>1, <3>1 DEF PathInv
    <3>4. /\ stage \in {"initial", "refine"} /\ (stage = "initial" => searching = count)
          /\ Rooted(nodes, curr_states[searching])
      BY <3>1 DEF LeadInv
    <3> QED
      BY <1>1, <1>10, <3>1, <3>2, <3>3, <3>4 DEF Found, input, env
  <2> DEFINE goal == tasks[searching]
             path == Trajectory(goal)
  <2>2. Once(path) /\ path[1] = curr_states[searching] /\ Last(path) = tasks[searching]
    BY <2>1, FoundBegins
  <2> HIDE DEF path
  <2>3. add_traj(searching, path)
    BY <2>1 DEF path
  <2> QED
    BY <1>1, <2>1, <2>2, <2>3, PathLeads
<1>11. CASE StartRefinement
  <2> DEFINE cells == [a \in Agent |-> << curr_states[a] >>]
  <2>1. /\ traj_dists' = [a \in Agent |-> AskedIfThere(traj_dists[a], << curr_states[a] >>)]
        /\ UNCHANGED << trajs, searching, nodes, curr_states, tasks >> /\ searching = None
        /\ stage = "initial" /\ stage' = "refine" /\ stopped' = count
    BY <1>11 DEF StartRefinement, input, env
  <2>2. \A a \in Agent : cells[a] = << curr_states[a] >> /\ Len(cells[a]) \in Nat
    BY AskedCells
  <2> HIDE DEF cells
  <2>3. traj_dists' = [a \in Agent |-> AskedIfThere(traj_dists[a], cells[a])]
    BY <2>1, <2>2
  <2>4. Attached(trajs', traj_dists', curr_states)
    BY <1>1, <2>1, <2>2, <2>3, AllAskedAttached
  <2>5. Attached(trajs, traj_dists, curr_states)'
    BY <2>1, <2>4 DEF Attached
  <2>6. count <= NumAgents /\ \A a \in Agent : a < count => Guided(a)
    BY <2>1 DEF LeadInv
  <2> QED
    BY <1>1, <2>1, <2>5, <2>6 DEF LeadInv, Guided
<1>12. CASE Stop
  <2>1. /\ UNCHANGED << trajs, traj_dists, curr_states, tasks, searching, nodes, stopped >>
        /\ stage = "refine" /\ stage' = "sort" /\ searching = None
    BY <1>12 DEF Stop, paths, input, env
  <2>2. Attached(trajs, traj_dists, curr_states)'
    BY <1>1, <2>1 DEF Attached
  <2> QED
    BY <1>1, <2>1, <2>2 DEF LeadInv, Guided
<1>13. CASE Sort
  <2> DEFINE cells == [a \in Agent |-> Asks(a)]
  <2>1. /\ traj_dists' = [a \in Agent |-> AskedIfThere(traj_dists[a], Asks(a))]
        /\ UNCHANGED << trajs, searching, nodes, curr_states, tasks, stopped >>
        /\ stage = "sort" /\ stage' = "planned"
    BY <1>13 DEF Sort, input, env
  <2>2. \A a \in Agent : cells[a] = Asks(a) /\ Len(cells[a]) \in Nat
    BY AskedCells DEF Asks
  <2> HIDE DEF cells
  <2>3. traj_dists' = [a \in Agent |-> AskedIfThere(traj_dists[a], cells[a])]
    BY <2>1, <2>2
  <2>4. Attached(trajs', traj_dists', curr_states)
    BY <1>1, <2>1, <2>2, <2>3, AllAskedAttached
  <2>5. Attached(trajs, traj_dists, curr_states)'
    BY <2>1, <2>4 DEF Attached
  <2>6. ASSUME NEW a \in Agent, trajs[a] # NoPath
        PROVE  Successors(curr_states[a]) \subseteq DOMAIN traj_dists'[a].dist
    <3>1. Successors(curr_states[a]) \subseteq DOMAIN AskedIfThere(traj_dists[a], Asks(a)).dist
      BY <1>1, <2>6, SortKnows
    <3> QED
      BY <2>1, <3>1
  <2>7. searching = None
    BY <2>1 DEF LeadInv
  <2>8. \A a \in Agent : trajs'[a] # NoPath =>
          (Successors(curr_states[a]) \subseteq DOMAIN traj_dists[a].dist)'
    BY <2>1, <2>6 DEF Successors, Neighbors
  <2> QED
    BY <1>1, <2>1, <2>5, <2>7, <2>8 DEF LeadInv, Guided
<1>14. CASE Execute
  <2>1. /\ curr_states' \in [Agent -> Free] /\ stage = "planned" /\ stage' = "idle"
        /\ UNCHANGED << trajs, traj_dists, searching, nodes, stopped >>
        /\ \A a \in Agent : curr_states'[a] \in Successors(curr_states[a])
    BY <1>14 DEF Execute, paths, Injection
  <2>2. ASSUME NEW a \in Agent, trajs[a] # NoPath
        PROVE  trajs[a][1] \in DOMAIN Steps[curr_states'[a]]
    <3> DEFINE c == curr_states[a]
               d == curr_states'[a]
    <3>1. trajs[a][1] \in DOMAIN Steps[c] /\ c \in Free
      BY <1>1, <2>2 DEF Attached
    <3>2. d = c \/ d \in Neighbors(c)
      BY <2>1 DEF Successors
    <3> HIDE DEF c, d
    <3>3. trajs[a][1] \in DOMAIN Steps[d]
      BY <3>1, <3>2, Connection
    <3> QED
      BY <3>3 DEF d
  <2>3. Attached(trajs, traj_dists, curr_states')
    BY <1>1, <2>2 DEF Attached
  <2>4. Attached(trajs, traj_dists, curr_states)'
    BY <2>1, <2>3 DEF Attached
  <2>5. searching = None
    BY <2>1 DEF LeadInv
  <2> QED
    BY <1>1, <2>1, <2>4, <2>5 DEF LeadInv
<1> QED
  BY <1>4, <1>5, <1>6, <1>7, <1>8, <1>9, <1>10, <1>11, <1>12, <1>13, <1>14 DEF Next

\* After plan, the agents that the deadline did not leave out are guided to their tasks: off
\* it, and on a path that can be walked, a cell next to the agent is nearer.
THEOREM PlanLeads == Spec => []GuidesLead
<1>1. Init => LeadInv
  BY LeadInit
<1>2. LeadInv /\ [Next]_vars => LeadInv'
  BY LeadNext
<1>3. LeadInv => GuidesLead
  BY LeadInvLeads
<1> QED
  BY <1>1, <1>2, <1>3, PTL DEF Spec

-----------------------------------------------------------------------------
(* What moves cost.                                                        *)

\* Traffic that can be.
Traffic(fl) == \A c \in Free, d \in 0 .. 3 : fl[c][d] \in Nat

\* The flow counts paths, so there is no less than none.
LEMMA FlowIsTraffic ==
  ASSUME NEW ts, NEW fl, NEW so, NEW s, Walks(ts), Balanced(so, fl, ts, s)
  PROVE  Traffic(fl)
<1>1. IsFiniteSet(Counted(s)) /\ Counted(s) \subseteq Agent
  BY AgentsFinite, FS_Subset DEF Counted
<1>2. \A x \in Agent : Len(ts[x]) \in Nat
  BY DEF Walks
<1>3. ASSUME NEW c, NEW d PROVE SumOn(Uses(ts, c, d), Counted(s)) \in Nat
  <2>1. \A x \in Counted(s) : Uses(ts, c, d)[x] \in Nat
    BY <1>1, <1>2, PathCounts DEF Uses
  <2> QED
    BY <1>1, <2>1, SumNat
<1> QED
  BY <1>3 DEF Balanced, Traffic

\* The traffic never makes a move cheaper than it is.
LEMMA TrafficCostIs ==
  ASSUME NEW fl, Traffic(fl), NEW c \in Free, NEW d \in Free
  PROVE  TrafficCost(fl, c, d) \in Nat
<1> DEFINE i == get_d(d - c)
           j == (i + 2) % 4
           I == 0 .. 3
           s == SumOn(fl[d], I)
<1>1. i \in I /\ j \in I
  <2>1. i \in {0, 1, 2, 3}
    BY DEF get_d
  <2> QED
    BY <2>1
<1>2. fl[c][i] \in Nat /\ fl[d][j] \in Nat /\ \A k \in I : fl[d][k] \in Nat
  BY <1>1 DEF Traffic
<1>3. IsFiniteSet(I)
  <2>1. 0 \in Int /\ 3 \in Int
    OBVIOUS
  <2> QED
    BY <2>1, FS_Interval
<1>4. s \in Nat
  <2> HIDE DEF I
  <2> QED
    BY <1>2, <1>3, SumNat
<1>5. TrafficCost(fl, c, d) = (fl[c][i] + 1) * fl[d][j] + s \div 2
  BY DEF TrafficCost, SumOn
<1> DEFINE x == fl[c][i] + 1
           y == fl[d][j]
<1>6. x \in Nat /\ y \in Nat
  BY <1>2
<1>7. s \div 2 \in Nat
  <2> HIDE DEF s
  <2> QED
    BY <1>4
<1> HIDE DEF x, y, s, i, j
<1>8. x * y \in Nat
  BY <1>6
<1> QED
  BY <1>5, <1>7, <1>8 DEF x, y

\* The move itself and the traffic.
MoveCost(fl, c, d) == 1 + TrafficCost(fl, c, d)

\* No move is for nothing.
LEMMA MoveCostIs ==
  ASSUME NEW fl, Traffic(fl), NEW c \in Free, NEW d \in Free
  PROVE  MoveCost(fl, c, d) \in Nat /\ MoveCost(fl, c, d) >= 1
  BY TrafficCostIs DEF MoveCost

\* Sums over the first numbers.
LEMMA SumNext ==
  ASSUME NEW n \in Nat, NEW h, \A k \in 1 .. n : h[k] \in Int
  PROVE  /\ SumOn(h, 1 .. 0) = 0
         /\ \A k \in 0 .. n : SumOn(h, 1 .. k) \in Int
         /\ \A k \in 1 .. n : SumOn(h, 1 .. k) = SumOn(h, 1 .. k - 1) + h[k]
<1>1. ASSUME NEW k \in 0 .. n PROVE IsFiniteSet(1 .. k) /\ \A j \in 1 .. k : h[j] \in Int
  <2>1. 1 \in Int /\ k \in Int
    OBVIOUS
  <2>2. IsFiniteSet(1 .. k)
    BY <2>1, FS_Interval
  <2> QED
    BY <2>2
<1>2. SumOn(h, 1 .. 0) = 0
  <2>1. 1 .. 0 = {}
    OBVIOUS
  <2> QED
    BY <2>1, SumEmpty
<1>3. \A k \in 0 .. n : SumOn(h, 1 .. k) \in Int
  BY <1>1, SumType
<1>4. ASSUME NEW k \in 1 .. n PROVE SumOn(h, 1 .. k) = SumOn(h, 1 .. k - 1) + h[k]
  <2> DEFINE S == 1 .. k
             T == 1 .. k - 1
  <2>1. k \in 0 .. n /\ k - 1 \in 0 .. n /\ k \in S /\ S \ {k} = T
    OBVIOUS
  <2>2. IsFiniteSet(S) /\ (\A j \in S : h[j] \in Int) /\ SumOn(h, T) \in Int /\ h[k] \in Int
    BY <1>1, <1>3, <2>1
  <2> HIDE DEF S, T
  <2>3. SumOn(h, S) = h[k] + SumOn(h, S \ {k})
    BY <2>1, <2>2, SumRemove
  <2>4. SumOn(h, S) = h[k] + SumOn(h, T)
    BY <2>1, <2>3
  <2>5. \A x, y \in Int : x + y = y + x
    OBVIOUS
  <2> QED
    BY <2>2, <2>4, <2>5 DEF S, T
<1> QED
  BY <1>2, <1>3, <1>4

\* The moves of a path.
MoveCosts(fl, path) == [k \in 1 .. Len(path) - 1 |-> 1 + TrafficCost(fl, path[k], path[k + 1])]

\* The cost of a path, move by move.
CostTo(fl, path, k) == SumOn(MoveCosts(fl, path), 1 .. k)

\* A move more costs what the move costs.
LEMMA CostsAre ==
  ASSUME NEW fl, Traffic(fl), NEW path \in Seq(Free), Len(path) >= 1
  PROVE  /\ CostTo(fl, path, 0) = 0
         /\ PathCost(fl, path) = CostTo(fl, path, Len(path) - 1)
         /\ \A k \in 0 .. Len(path) - 1 : CostTo(fl, path, k) \in Int
         /\ \A k \in 1 .. Len(path) - 1 :
              CostTo(fl, path, k) = CostTo(fl, path, k - 1) + MoveCost(fl, path[k], path[k + 1])
<1> DEFINE n == Len(path) - 1
           h == MoveCosts(fl, path)
<1>1. n \in Nat /\ \A k \in 1 .. n : path[k] \in Free /\ path[k + 1] \in Free
  <2>1. Len(path) \in Nat /\ \A k \in 1 .. Len(path) : path[k] \in Free
    BY LenProperties, ElementOfSeq
  <2>2. \A k \in 1 .. n : k \in 1 .. Len(path) /\ k + 1 \in 1 .. Len(path)
    BY <2>1
  <2> QED
    BY <2>1, <2>2
<1>2. \A k \in 1 .. n : h[k] = MoveCost(fl, path[k], path[k + 1])
  BY DEF MoveCosts, MoveCost
<1>3. ASSUME NEW k \in 1 .. n PROVE h[k] \in Int
  <2>1. MoveCost(fl, path[k], path[k + 1]) \in Nat
    BY <1>1, MoveCostIs
  <2> QED
    BY <1>2, <2>1
<1>4. PathCost(fl, path) = SumOn(h, 1 .. n)
  BY DEF PathCost, SumOn, MoveCosts
<1> HIDE DEF n, h
<1>5. /\ SumOn(h, 1 .. 0) = 0
      /\ \A k \in 0 .. n : SumOn(h, 1 .. k) \in Int
      /\ \A k \in 1 .. n : SumOn(h, 1 .. k) = SumOn(h, 1 .. k - 1) + h[k]
  BY <1>1, <1>3, SumNext
<1> QED
  BY <1>2, <1>4, <1>5 DEF CostTo, n, h

-----------------------------------------------------------------------------
(* What a search guesses.                                                  *)

\* The guess of how far the goal is, tables or not.
Guess(table, goal, c) == IF table = Empty THEN Distance(c, goal) ELSE Steps[c][goal]

\* As the crow flies, no step brings an agent nearer by more than itself.
LEMMA CrowSteps ==
  ASSUME NEW c \in Free, NEW d \in Neighbors(c), NEW goal \in Free
  PROVE  /\ Distance(c, goal) \in Nat /\ Distance(goal, goal) = 0
         /\ Distance(c, goal) <= Distance(d, goal) + 1
<1>1. c \in Nat /\ d \in Nat /\ goal \in Nat /\ Cols \in Nat \ {0}
  BY FreeFinite, GridAssumption DEF Neighbors
<1>2. \A x, y : Distance(x, y) = CellDistance(x, y, Cols)
  BY DEF Distance, CellDistance, Abs, Magnitude
<1>3. Distance(c, d) = 1
  <2>1. CASE d = c - Cols
    <3>1. c = d + Cols
      BY <1>1, <2>1
    <3> QED
      BY <1>1, <1>2, <3>1, StepSouth
  <2>2. CASE d = c + Cols
    BY <1>1, <1>2, <2>2, StepSouth
  <2>3. CASE d = c - 1 /\ c % Cols > 0
    <3>1. c = d + 1
      BY <1>1, <2>3
    <3>2. d % Cols < Cols - 1
      BY <1>1, <2>3, StepBack
    <3> QED
      BY <1>1, <1>2, <3>1, <3>2, StepInRow
  <2>4. CASE d = c + 1 /\ c % Cols < Cols - 1
    BY <1>1, <1>2, <2>4, StepInRow
  <2> QED
    BY <2>1, <2>2, <2>3, <2>4 DEF Neighbors
<1> DEFINE q == c \div Cols
           r == c % Cols
           q2 == d \div Cols
           r2 == d % Cols
           q3 == goal \div Cols
           r3 == goal % Cols
<1>4. q \in Nat /\ r \in Nat /\ q2 \in Nat /\ r2 \in Nat /\ q3 \in Nat /\ r3 \in Nat
  <2>1. ASSUME NEW x \in Nat PROVE x \div Cols \in Nat /\ x % Cols \in Nat
    <3>1. x \div Cols \in Nat /\ x % Cols \in 0 .. Cols - 1
      BY <1>1, DivMod
    <3> QED
      BY <1>1, <3>1
  <2> QED
    BY <1>1, <2>1
<1>5. /\ Distance(c, d) = Abs(q - q2) + Abs(r - r2)
      /\ Distance(c, goal) = Abs(q - q3) + Abs(r - r3)
      /\ Distance(d, goal) = Abs(q2 - q3) + Abs(r2 - r3)
      /\ Distance(goal, goal) = Abs(q3 - q3) + Abs(r3 - r3)
  BY DEF Distance
<1> HIDE DEF q, r, q2, r2, q3, r3
<1>6. Distance(c, goal) \in Nat /\ Distance(goal, goal) = 0
  BY <1>4, <1>5 DEF Abs
<1>7. Abs(q - q3) <= Abs(q - q2) + Abs(q2 - q3) /\ Abs(r - r3) <= Abs(r - r2) + Abs(r2 - r3)
  BY <1>4 DEF Abs
<1>8. /\ Abs(q - q2) \in Nat /\ Abs(r - r2) \in Nat /\ Abs(q - q3) \in Nat /\ Abs(r - r3) \in Nat
      /\ Abs(q2 - q3) \in Nat /\ Abs(r2 - r3) \in Nat
  BY <1>4 DEF Abs
<1>9. Distance(c, goal) <= Distance(d, goal) + 1
  BY <1>3, <1>5, <1>7, <1>8
<1> QED
  BY <1>6, <1>9

\* The same with a table: a move is worth one at most, and at the goal nothing is left.
LEMMA GuessIs ==
  ASSUME NEW table, NEW goal \in Free, NEW c \in Free, goal \in DOMAIN Steps[c]
  PROVE  /\ Guess(table, goal, c) \in Nat /\ Guess(table, goal, goal) = 0
         /\ \A d \in Neighbors(c) : /\ d \in Free /\ goal \in DOMAIN Steps[d]
                                    /\ Guess(table, goal, d) \in Nat
                                    /\ Guess(table, goal, c) <= Guess(table, goal, d) + 1
<1>1. \A d \in Neighbors(c) : d \in Free /\ goal \in DOMAIN Steps[d]
  BY Connection, NeighborsMutual
<1>2. CASE table # Empty
  <2>1. /\ Steps[goal][goal] = 0 /\ Steps[c][goal] \in Nat
        /\ \A d \in Neighbors(c) : Steps[d][goal] \in Nat
    BY <1>1, NoSteps
  <2>2. \A d \in Neighbors(c) : Steps[c][goal] <= Steps[d][goal] + 1
    BY <1>1, StepMore
  <2> QED
    BY <1>1, <1>2, <2>1, <2>2 DEF Guess
<1>3. CASE table = Empty
  <2>1. Distance(c, goal) \in Nat /\ Distance(goal, goal) = 0
    BY FreeFinite, GridAssumption, DistanceZero DEF Distance, CellDistance, Abs, Magnitude
  <2>2. \A d \in Neighbors(c) : Distance(c, goal) <= Distance(d, goal) + 1
    BY CrowSteps
  <2>3. \A d \in Neighbors(c) : c \in Neighbors(d)
    BY NeighborsMutual
  <2>4. \A d \in Neighbors(c) : Distance(d, goal) \in Nat
    BY <1>1, <2>3, CrowSteps
  <2> QED
    BY <1>1, <1>3, <2>1, <2>2, <2>4 DEF Guess
<1> QED
  BY <1>2, <1>3

\* Asking leaves a table there that is there.
LEMMA AskedIsThere ==
  ASSUME NEW goal \in Free, NEW table, Right(table, << goal >>), NEW cells, Len(cells) \in Nat
  PROVE  AskedIfThere(table, cells) = Empty <=> table = Empty
<1>1. CASE table = Empty
  BY <1>1 DEF AskedIfThere
<1>2. CASE table # Empty
  <2> DEFINE path == << goal >>
  <2>1. path \in Seq(Free) /\ Len(path) = 1
    OBVIOUS
  <2>2. table \in TablesOf(path)
    BY <1>2 DEF Right
  <2> HIDE DEF path
  <2>3. Once(path)
    BY <2>1 DEF Once
  <2>4. AskedAll(table, cells) \in TablesOf(path)
    BY <2>1, <2>2, AskedAllExact
  <2>5. AskedAll(table, cells) # Empty
    BY <2>3, <2>4, TableIsThere
  <2> QED
    BY <1>2, <2>5 DEF AskedIfThere
<1> QED
  BY <1>1, <1>2

\* What is read from a table that was asked is the guess.
LEMMA HeuristicIs ==
  ASSUME NEW goal \in Free, NEW table, Right(table, << goal >>), NEW cells, Len(cells) \in Nat,
         \A k \in 1 .. Len(cells) : cells[k] \in Free,
         NEW k \in 1 .. Len(cells), goal \in DOMAIN Steps[cells[k]]
  PROVE  Heuristic(AskedIfThere(table, cells), goal, cells[k]) = Guess(table, goal, cells[k])
<1> DEFINE c == cells[k]
           t == AskedIfThere(table, cells)
<1>1. t = Empty <=> table = Empty
  BY AskedIsThere
<1>2. CASE table = Empty
  BY <1>1, <1>2 DEF Heuristic, Guess
<1>3. CASE table # Empty
  <2> DEFINE path == << goal >>
  <2>1. path \in Seq(Free) /\ Len(path) = 1 /\ path[1] = goal
    OBVIOUS
  <2>2. table \in TablesOf(path) /\ t = AskedAll(table, cells)
    BY <1>3 DEF Right, AskedIfThere
  <2> HIDE DEF path, t
  <2>3. t \in TablesOf(path)
    BY <2>1, <2>2, AskedAllExact
  <2>4. \E i \in 1 .. Len(path) : path[i] \in DOMAIN Steps[cells[k]]
    BY <2>1
  <2>5. c \in DOMAIN t.dist
    BY <2>1, <2>2, <2>4, AskedAllKnows
  <2>6. Nearest(path, c, t.dist[c])
    BY <2>3, <2>5 DEF TablesOf, Exact, Told
  <2>7. t.dist[c] = Entry(c, Steps[c][goal], 0)
    BY <2>1, <2>6 DEF Nearest
  <2>8. t.dist[c].cost = Steps[c][goal]
    BY <2>7 DEF Entry
  <2> QED
    BY <1>1, <1>3, <2>8 DEF Heuristic, Guess, t
<1> QED
  BY <1>2, <1>3

-----------------------------------------------------------------------------
(* What the nodes of a search have paid.                                   *)

\* The way to a node and the traffic on it.
Paid(ns, c) == ns[c].cost + ns[c].g

\* What a node says of itself.
Honest(ns, table, goal, c) ==
  /\ c \in Free /\ goal \in DOMAIN Steps[c]
  /\ ns[c].h = Guess(table, goal, c)
  /\ ns[c].cost \in Nat /\ ns[c].g \in Nat /\ ns[c].closed \in BOOLEAN

\* The node of a cell has paid the move from the one before.
PaidMove(fl, ns, c) ==
  ns[c].g # 0 => /\ ns[c].parent \in DOMAIN ns /\ c \in Neighbors(ns[c].parent)
                 /\ Paid(ns, c) = Paid(ns, ns[c].parent) + MoveCost(fl, ns[c].parent, c)

\* A closed node has told its neighbours.
ToldAround(fl, ns, c) ==
  ns[c].closed => \A d \in Neighbors(c) : d \in DOMAIN ns /\ Paid(ns, d) <= Paid(ns, c) + MoveCost(fl, c, d)

\* No open node is before a closed one.
ClosedFirst(ns, c) ==
  ns[c].closed => \A d \in DOMAIN ns : ~ ns[d].closed => Total(ns[c]) <= Total(ns[d])

\* The nodes of a search for goal from start.
Priced(fl, ns, table, start, goal) ==
  /\ start \in DOMAIN ns /\ Paid(ns, start) = 0
  /\ \A c \in DOMAIN ns : /\ Honest(ns, table, goal, c) /\ PaidMove(fl, ns, c)
                           /\ ToldAround(fl, ns, c) /\ ClosedFirst(ns, c)
  /\ goal \in DOMAIN ns => ns[goal].closed = FALSE

\* The numbers of a node.
LEMMA NodeNumbers ==
  ASSUME NEW ns, NEW table, NEW goal \in Free, NEW c, Honest(ns, table, goal, c)
  PROVE  /\ Paid(ns, c) \in Nat /\ Total(ns[c]) = Paid(ns, c) + Guess(table, goal, c)
         /\ Guess(table, goal, c) \in Nat /\ Total(ns[c]) \in Nat
<1>1. c \in Free /\ goal \in DOMAIN Steps[c] /\ ns[c].h = Guess(table, goal, c)
      /\ ns[c].cost \in Nat /\ ns[c].g \in Nat
  BY DEF Honest
<1>2. Guess(table, goal, c) \in Nat
  BY <1>1, GuessIs
<1> QED
  BY <1>1, <1>2 DEF Paid, Total

\* A search begins with one node, that has paid nothing.
LEMMA PricedStart ==
  ASSUME NEW start \in Free, NEW goal \in Free, goal \in DOMAIN Steps[start],
         NEW table, Right(table, << goal >>), heuristics[goal] = table, goal \in DOMAIN heuristics,
         StartSearch(start, goal), NEW fl
  PROVE  Priced(fl, nodes', heuristics'[goal], start, goal)
<1> DEFINE t == heuristics'[goal]
           h == Heuristic(t, goal, start)
           ns == nodes'
           node == Node(0, h, 0, FALSE, None)
           cells == << start >>
<1>1. t = AskedIfThere(table, cells)
  BY DEF StartSearch
<1>2. ns = [c \in {start} |-> node]
  BY DEF StartSearch
<1>3. h = Guess(t, goal, start)
  <2>1. Len(cells) = 1 /\ cells[1] = start
    OBVIOUS
  <2> HIDE DEF cells, t
  <2>2. Heuristic(AskedIfThere(table, cells), goal, cells[1]) = Guess(table, goal, cells[1])
    <3>1. Len(cells) \in Nat /\ 1 \in 1 .. Len(cells) /\ goal \in DOMAIN Steps[cells[1]]
          /\ \A k \in 1 .. Len(cells) : cells[k] \in Free
      BY <2>1
    <3> QED
      BY <3>1, HeuristicIs
  <2>3. t = Empty <=> table = Empty
    BY <1>1, <2>1, AskedIsThere
  <2> QED
    BY <1>1, <2>1, <2>2, <2>3 DEF Guess
<1> HIDE DEF t, h
<1>4. node.g = 0 /\ node.cost = 0 /\ node.h = h /\ node.closed = FALSE
  BY DEF Node
<1> HIDE DEF node, ns
<1>5. DOMAIN ns = {start} /\ ns[start] = node
  BY <1>2
<1>6. ns[start].closed = FALSE /\ ns[start].g = 0 /\ ns[start].cost = 0 /\ ns[start].h = h
  BY <1>4, <1>5
<1>7. Honest(ns, t, goal, start)
  <2>1. ns[start].closed \in BOOLEAN
    BY <1>6
  <2> QED
    BY <1>3, <1>6, <2>1 DEF Honest
<1>8. Paid(ns, start) = 0
  BY <1>6 DEF Paid
<1>9. PaidMove(fl, ns, start)
  BY <1>6 DEF PaidMove
<1>10. ToldAround(fl, ns, start) /\ ClosedFirst(ns, start)
  BY <1>6 DEF ToldAround, ClosedFirst
<1>11. goal \in DOMAIN ns => ns[goal].closed = FALSE
  BY <1>5, <1>6
<1> QED
  BY <1>5, <1>7, <1>8, <1>9, <1>10, <1>11 DEF Priced, ns, t

\* What is reached from a node.
LEMMA ReachedIs ==
  ASSUME NEW goal \in Free, NEW table, Right(table, << goal >>), heuristics[goal] = table,
         goal \in DOMAIN heuristics, NEW curr \in Free, Expand(curr, goal),
         NEW d \in Neighbors(curr), goal \in DOMAIN Steps[d]
  PROVE  LET node == Reached(curr, d, goal)
         IN  /\ node.g = nodes[curr].g + 1
             /\ node.cost = nodes[curr].cost + TrafficCost(flow, curr, d)
             /\ node.h = Guess(table, goal, d)
             /\ node.parent = curr /\ node.closed = FALSE
<1> DEFINE cells == NeighborLocs(curr)
           t == heuristics'[goal]
<1>1. t = AskedIfThere(table, cells)
  BY DEF Expand
<1>2. Neighbors(curr) \in SUBSET Neighbors(curr)
  OBVIOUS
<1>3. cells \in Seq(Neighbors(curr)) /\ Range(cells) = Neighbors(curr)
  BY <1>2, InOrderIs DEF NeighborLocs
<1> HIDE DEF cells, t
<1>4. Len(cells) \in Nat /\ DOMAIN cells = 1 .. Len(cells) /\ \A k \in 1 .. Len(cells) : cells[k] \in Free
  <2>1. \A e \in Neighbors(curr) : e \in Free
    BY DEF Neighbors
  <2> QED
    BY <1>3, <2>1, LenProperties, ElementOfSeq
<1>5. PICK k \in 1 .. Len(cells) : cells[k] = d
  BY <1>3, <1>4 DEF Range
<1>6. Heuristic(AskedIfThere(table, cells), goal, cells[k]) = Guess(table, goal, cells[k])
  BY <1>4, <1>5, HeuristicIs
<1>7. Heuristic(t, goal, d) = Guess(table, goal, d)
  BY <1>1, <1>5, <1>6
<1> QED
  BY <1>7 DEF Reached, Node, t

\* The nodes after a step: those that are reached, the one that is closed, and the others.
LEMMA NodesAfter ==
  ASSUME Tree(nodes), NEW curr \in DOMAIN nodes, NEW goal, Expand(curr, goal)
  PROVE  /\ DOMAIN nodes' = DOMAIN nodes \cup Improved(curr, goal)
         /\ \A c \in Improved(curr, goal) : nodes'[c] = Reached(curr, c, goal)
         /\ \A c \in DOMAIN nodes : c \notin Improved(curr, goal) =>
              /\ nodes'[c].g = nodes[c].g /\ nodes'[c].h = nodes[c].h /\ nodes'[c].cost = nodes[c].cost
              /\ nodes'[c].parent = nodes[c].parent
              /\ nodes'[c].closed = IF c = curr THEN TRUE ELSE nodes[c].closed
<1> DEFINE ns == nodes'
           M == Improved(curr, goal)
           shut == [nodes[curr] EXCEPT !.closed = TRUE]
<1>1. ns = [c \in DOMAIN nodes \cup M |->
              IF c \in M THEN Reached(curr, c, goal)
              ELSE IF c = curr THEN [nodes[c] EXCEPT !.closed = TRUE]
              ELSE nodes[c]]
  BY DEF Expand
<1>2. /\ shut.g = nodes[curr].g /\ shut.h = nodes[curr].h /\ shut.cost = nodes[curr].cost
      /\ shut.parent = nodes[curr].parent /\ shut.closed = TRUE
  <2>1. DOMAIN nodes[curr] = Fields
    BY DEF Tree, LedTo
  <2> QED
    BY <2>1 DEF Fields
<1> HIDE DEF M, ns
<1>3. /\ DOMAIN ns = DOMAIN nodes \cup M
      /\ \A c \in M : ns[c] = Reached(curr, c, goal)
      /\ \A c \in DOMAIN nodes : c \notin M => ns[c] = IF c = curr THEN shut ELSE nodes[c]
  BY <1>1
<1> HIDE DEF shut
<1>4. ASSUME NEW c \in DOMAIN nodes, c \notin M
      PROVE  /\ ns[c].g = nodes[c].g /\ ns[c].h = nodes[c].h /\ ns[c].cost = nodes[c].cost
             /\ ns[c].parent = nodes[c].parent
             /\ ns[c].closed = IF c = curr THEN TRUE ELSE nodes[c].closed
  <2>1. CASE c = curr
    BY <1>2, <1>3, <1>4, <2>1
  <2>2. CASE c # curr
    BY <1>3, <1>4, <2>2
  <2> QED
    BY <2>1, <2>2
<1> QED
  BY <1>3, <1>4 DEF ns, M

\* The node that is expanded, and what is reached from it.
Reaches(fl, ns, table, goal, curr, M, R) ==
  /\ \A d \in Neighbors(curr) :
       /\ d \in Free /\ goal \in DOMAIN Steps[d]
       /\ R[d].g = ns[curr].g + 1 /\ R[d].cost = ns[curr].cost + TrafficCost(fl, curr, d)
       /\ R[d].h = Guess(table, goal, d) /\ R[d].parent = curr /\ R[d].closed = FALSE
  /\ M = {d \in Neighbors(curr) : d \in DOMAIN ns => Total(R[d]) < Total(ns[d])}

\* The open node that comes first.
Foremost(ns, curr) ==
  /\ curr \in DOMAIN ns /\ ns[curr].closed = FALSE
  /\ \A d \in DOMAIN ns : ~ ns[d].closed => Total(ns[curr]) <= Total(ns[d])

\* The nodes after the step.
Expands(ns, ns2, curr, M, R) ==
  /\ DOMAIN ns2 = DOMAIN ns \cup M
  /\ \A c \in M : ns2[c] = R[c]
  /\ \A c \in DOMAIN ns : c \notin M =>
       /\ ns2[c].g = ns[c].g /\ ns2[c].h = ns[c].h /\ ns2[c].cost = ns[c].cost
       /\ ns2[c].parent = ns[c].parent
       /\ ns2[c].closed = IF c = curr THEN TRUE ELSE ns[c].closed

\* Nothing that is reached comes before the node that it is reached from.  So no closed node is
\* improved, nor the start.
LEMMA NothingBefore ==
  ASSUME NEW fl, Traffic(fl), NEW ns, NEW table, NEW start, NEW goal \in Free,
         Priced(fl, ns, table, start, goal), NEW curr, Foremost(ns, curr),
         NEW M, NEW R, Reaches(fl, ns, table, goal, curr, M, R)
  PROVE  /\ \A d \in Neighbors(curr) :
              /\ R[d].g \in Nat \ {0} /\ R[d].cost \in Nat
              /\ R[d].cost + R[d].g = Paid(ns, curr) + MoveCost(fl, curr, d)
              /\ Total(R[d]) = Paid(ns, curr) + MoveCost(fl, curr, d) + Guess(table, goal, d)
              /\ Total(ns[curr]) <= Total(R[d])
         /\ \A c \in DOMAIN ns : ns[c].closed => c \notin M
         /\ start \notin M /\ curr \notin M
<1>1. curr \in DOMAIN ns /\ Honest(ns, table, goal, curr) /\ curr \in Free /\ goal \in DOMAIN Steps[curr]
      /\ ns[curr].cost \in Nat /\ ns[curr].g \in Nat /\ ns[curr].closed = FALSE
  BY DEF Foremost, Priced, Honest
<1>2. /\ Paid(ns, curr) \in Nat /\ Paid(ns, curr) = ns[curr].cost + ns[curr].g
      /\ Total(ns[curr]) = Paid(ns, curr) + Guess(table, goal, curr)
      /\ Guess(table, goal, curr) \in Nat
  BY <1>1, NodeNumbers DEF Paid
<1>3. ASSUME NEW d \in Neighbors(curr)
      PROVE  /\ R[d].g \in Nat \ {0} /\ R[d].cost \in Nat
             /\ R[d].cost + R[d].g = Paid(ns, curr) + MoveCost(fl, curr, d)
             /\ Total(R[d]) = Paid(ns, curr) + MoveCost(fl, curr, d) + Guess(table, goal, d)
             /\ Total(ns[curr]) <= Total(R[d])
             /\ MoveCost(fl, curr, d) \in Nat /\ MoveCost(fl, curr, d) >= 1 /\ Guess(table, goal, d) \in Nat
  <2> DEFINE x == TrafficCost(fl, curr, d)
             h == Guess(table, goal, curr)
             i == Guess(table, goal, d)
             m == Paid(ns, curr)
  <2>1. d \in Free /\ goal \in DOMAIN Steps[d] /\ R[d].g = ns[curr].g + 1 /\ R[d].cost = ns[curr].cost + x
        /\ R[d].h = i
    BY DEF Reaches
  <2>2. x \in Nat /\ MoveCost(fl, curr, d) = 1 + x
    BY <1>1, <2>1, TrafficCostIs DEF MoveCost
  <2>3. i \in Nat /\ h <= i + 1
    BY <1>1, GuessIs
  <2>4. m \in Nat /\ m = ns[curr].cost + ns[curr].g /\ Total(ns[curr]) = m + h /\ h \in Nat
    BY <1>2
  <2>5. Total(R[d]) = R[d].cost + R[d].g + R[d].h
    BY DEF Total
  <2> HIDE DEF x, h, i, m
  <2>6. R[d].g \in Nat \ {0} /\ R[d].cost \in Nat /\ R[d].cost + R[d].g = m + (1 + x)
    BY <1>1, <2>1, <2>2, <2>4
  <2>7. Total(R[d]) = m + (1 + x) + i
    BY <2>1, <2>5, <2>6
  <2>8. m + h <= m + (1 + x) + i
    BY <2>2, <2>3, <2>4
  <2>9. (1 + x) \in Nat /\ 1 + x >= 1
    BY <2>2
  <2> QED
    BY <2>2, <2>3, <2>4, <2>6, <2>7, <2>8, <2>9 DEF m, i
<1>4. ASSUME NEW c \in DOMAIN ns, ns[c].closed PROVE c \notin M
  <2> SUFFICES ASSUME c \in M PROVE FALSE
    OBVIOUS
  <2>1. c \in Neighbors(curr) /\ Total(R[c]) < Total(ns[c])
    BY DEF Reaches
  <2>2. Total(ns[c]) <= Total(ns[curr])
    BY <1>1, <1>4 DEF Priced, ClosedFirst
  <2>3. Total(ns[c]) \in Nat /\ Total(ns[curr]) \in Nat
    BY <1>1, NodeNumbers DEF Priced
  <2>4. Total(ns[curr]) <= Total(R[c])
    BY <1>3, <2>1
  <2>5. Total(R[c]) \in Nat
    <3>1. /\ Total(R[c]) = Paid(ns, curr) + MoveCost(fl, curr, c) + Guess(table, goal, c)
          /\ MoveCost(fl, curr, c) \in Nat /\ Guess(table, goal, c) \in Nat
      BY <1>3, <2>1
    <3> QED
      BY <1>2, <3>1
  <2> QED
    BY <2>1, <2>2, <2>3, <2>4, <2>5
<1>5. start \notin M
  <2> SUFFICES ASSUME start \in M PROVE FALSE
    OBVIOUS
  <2>1. start \in DOMAIN ns /\ Paid(ns, start) = 0 /\ Honest(ns, table, goal, start)
    BY DEF Priced
  <2>2. start \in Neighbors(curr) /\ Total(R[start]) < Total(ns[start])
    BY <2>1 DEF Reaches
  <2>3. Total(ns[start]) = 0 + Guess(table, goal, start) /\ Guess(table, goal, start) \in Nat
    BY <2>1, NodeNumbers
  <2>4. /\ Total(R[start]) = Paid(ns, curr) + MoveCost(fl, curr, start) + Guess(table, goal, start)
        /\ MoveCost(fl, curr, start) \in Nat /\ MoveCost(fl, curr, start) >= 1
    BY <1>3, <2>2
  <2> QED
    BY <1>2, <2>2, <2>3, <2>4
<1>6. curr \notin M
  <2>1. curr \notin Neighbors(curr)
    BY <1>1, NeighborsMutual
  <2> QED
    BY <2>1 DEF Reaches
<1> QED
  BY <1>3, <1>4, <1>5, <1>6

\* A step of the search keeps what the nodes have paid right.
LEMMA PricedGrows ==
  ASSUME NEW fl, Traffic(fl), NEW ns, NEW table, NEW start, NEW goal \in Free, Tree(ns),
         Priced(fl, ns, table, start, goal), NEW curr, Foremost(ns, curr), curr # goal,
         NEW M, NEW R, Reaches(fl, ns, table, goal, curr, M, R),
         NEW ns2, Expands(ns, ns2, curr, M, R)
  PROVE  Priced(fl, ns2, table, start, goal)
<1>1. /\ \A d \in Neighbors(curr) :
           /\ R[d].g \in Nat \ {0} /\ R[d].cost \in Nat
           /\ R[d].cost + R[d].g = Paid(ns, curr) + MoveCost(fl, curr, d)
           /\ Total(R[d]) = Paid(ns, curr) + MoveCost(fl, curr, d) + Guess(table, goal, d)
           /\ Total(ns[curr]) <= Total(R[d])
      /\ \A c \in DOMAIN ns : ns[c].closed => c \notin M
      /\ start \notin M /\ curr \notin M
  BY NothingBefore
<1>2. /\ DOMAIN ns2 = DOMAIN ns \cup M /\ M \subseteq Neighbors(curr)
      /\ curr \in DOMAIN ns /\ ns[curr].closed = FALSE
  BY DEF Expands, Reaches, Foremost
<1>3. ASSUME NEW c \in M
      PROVE  /\ c \in Neighbors(curr) /\ c \in DOMAIN ns2 /\ Honest(ns2, table, goal, c)
             /\ ns2[c].closed = FALSE /\ ns2[c].parent = curr
             /\ Paid(ns2, c) = Paid(ns, curr) + MoveCost(fl, curr, c)
             /\ Total(ns2[c]) = Total(R[c])
  <2>1. ns2[c] = R[c] /\ c \in Neighbors(curr) /\ c \in DOMAIN ns2
    BY <1>2 DEF Expands
  <2>2. c \in Free /\ goal \in DOMAIN Steps[c] /\ R[c].h = Guess(table, goal, c)
        /\ R[c].parent = curr /\ R[c].closed = FALSE
    BY <2>1 DEF Reaches
  <2>3. R[c].closed \in BOOLEAN
    BY <2>2
  <2>4. Honest(ns2, table, goal, c)
    BY <1>1, <2>1, <2>2, <2>3 DEF Honest
  <2> QED
    BY <1>1, <2>1, <2>2, <2>4 DEF Paid
<1>4. ASSUME NEW c \in DOMAIN ns, c \notin M
      PROVE  /\ c \in DOMAIN ns2 /\ Honest(ns2, table, goal, c)
             /\ Paid(ns2, c) = Paid(ns, c) /\ Total(ns2[c]) = Total(ns[c])
             /\ ns2[c].g = ns[c].g /\ ns2[c].parent = ns[c].parent
             /\ ns2[c].closed = IF c = curr THEN TRUE ELSE ns[c].closed
  <2>1. /\ ns2[c].g = ns[c].g /\ ns2[c].h = ns[c].h /\ ns2[c].cost = ns[c].cost
        /\ ns2[c].parent = ns[c].parent
        /\ ns2[c].closed = IF c = curr THEN TRUE ELSE ns[c].closed
    BY <1>4 DEF Expands
  <2>2. Honest(ns, table, goal, c)
    BY DEF Priced
  <2>3. ns2[c].closed \in BOOLEAN
    <3>1. ns[c].closed \in BOOLEAN
      BY <2>2 DEF Honest
    <3>2. CASE c = curr
      BY <2>1, <3>2
    <3>3. CASE c # curr
      BY <2>1, <3>1, <3>3
    <3> QED
      BY <3>2, <3>3
  <2>4. Honest(ns2, table, goal, c)
    BY <2>1, <2>2, <2>3 DEF Honest
  <2> QED
    BY <1>2, <2>1, <2>4 DEF Paid, Total
<1>5. \A c \in DOMAIN ns2 : Honest(ns2, table, goal, c)
  BY <1>2, <1>3, <1>4
<1>6. \A c \in DOMAIN ns : Honest(ns, table, goal, c)
  BY DEF Priced
<1>7. start \in DOMAIN ns2 /\ Paid(ns2, start) = 0
  <2>1. start \in DOMAIN ns /\ Paid(ns, start) = 0
    BY DEF Priced
  <2> QED
    BY <1>1, <1>4, <2>1
<1>8. goal \in DOMAIN ns2 => ns2[goal].closed = FALSE
  <2>1. CASE goal \in M
    BY <1>3, <2>1
  <2>2. CASE goal \notin M /\ goal \in DOMAIN ns
    BY <1>4, <2>2 DEF Priced
  <2> QED
    BY <1>2, <2>1, <2>2
<1>9. ASSUME NEW c \in DOMAIN ns2 PROVE PaidMove(fl, ns2, c)
  <2> SUFFICES ASSUME ns2[c].g # 0
               PROVE  /\ ns2[c].parent \in DOMAIN ns2 /\ c \in Neighbors(ns2[c].parent)
                      /\ Paid(ns2, c) = Paid(ns2, ns2[c].parent) + MoveCost(fl, ns2[c].parent, c)
    BY DEF PaidMove
  <2>1. CASE c \in M
    <3>1. curr \in DOMAIN ns2 /\ Paid(ns2, curr) = Paid(ns, curr)
      BY <1>1, <1>2, <1>4
    <3> QED
      BY <1>3, <2>1, <3>1
  <2>2. CASE c \notin M
    <3> DEFINE q == ns[c].parent
    <3>1. c \in DOMAIN ns /\ ns2[c].parent = q /\ ns[c].g # 0 /\ Paid(ns2, c) = Paid(ns, c)
      BY <1>2, <1>4, <2>2
    <3>2. q \in DOMAIN ns /\ ns[q].closed = TRUE
      BY <3>1 DEF Tree, LedTo
    <3>3. c \in Neighbors(q) /\ Paid(ns, c) = Paid(ns, q) + MoveCost(fl, q, c)
      BY <3>1 DEF Priced, PaidMove
    <3> HIDE DEF q
    <3>4. q \in DOMAIN ns2 /\ Paid(ns2, q) = Paid(ns, q)
      BY <1>1, <1>4, <3>2
    <3> QED
      BY <3>1, <3>3, <3>4
  <2> QED
    BY <2>1, <2>2
<1>10. ASSUME NEW d \in DOMAIN ns PROVE d \in DOMAIN ns2 /\ Paid(ns2, d) <= Paid(ns, d)
  <2>1. Honest(ns, table, goal, d) /\ Paid(ns, d) \in Nat
    BY <1>6, NodeNumbers
  <2>2. CASE d \in M
    <3>1. Honest(ns2, table, goal, d) /\ Total(ns2[d]) = Total(R[d]) /\ d \in DOMAIN ns2
      BY <1>3, <2>2
    <3>2. Total(R[d]) < Total(ns[d])
      BY <2>2 DEF Reaches
    <3>3. /\ Total(ns2[d]) = Paid(ns2, d) + Guess(table, goal, d) /\ Paid(ns2, d) \in Nat
          /\ Total(ns[d]) = Paid(ns, d) + Guess(table, goal, d) /\ Guess(table, goal, d) \in Nat
      BY <2>1, <3>1, NodeNumbers
    <3> QED
      BY <2>1, <3>1, <3>2, <3>3
  <2>3. CASE d \notin M
    <3> DEFINE x == Paid(ns, d)
               y == Paid(ns2, d)
    <3>1. d \in DOMAIN ns2 /\ y = x /\ x \in Nat
      BY <1>4, <2>1, <2>3
    <3> HIDE DEF x, y
    <3>2. y <= x
      BY <3>1
    <3> QED
      BY <3>1, <3>2 DEF x, y
  <2> QED
    BY <2>2, <2>3
<1>11. ASSUME NEW c \in DOMAIN ns2, ns2[c].closed
       PROVE  c \in DOMAIN ns /\ c \notin M /\ (c = curr \/ ns[c].closed)
              /\ Paid(ns2, c) = Paid(ns, c) /\ Total(ns2[c]) = Total(ns[c])
  <2>1. c \notin M
    BY <1>3, <1>11
  <2>2. c \in DOMAIN ns
    BY <1>2, <2>1
  <2> QED
    BY <1>4, <1>11, <2>1, <2>2
<1>12. ASSUME NEW c \in DOMAIN ns2 PROVE ToldAround(fl, ns2, c)
  <2> SUFFICES ASSUME ns2[c].closed, NEW d \in Neighbors(c)
               PROVE  d \in DOMAIN ns2 /\ Paid(ns2, d) <= Paid(ns2, c) + MoveCost(fl, c, d)
    BY DEF ToldAround
  <2>1. c \in DOMAIN ns /\ c \notin M /\ (c = curr \/ ns[c].closed) /\ Paid(ns2, c) = Paid(ns, c)
    BY <1>11
  <2>2. c \in Free /\ d \in Free /\ Paid(ns, c) \in Nat /\ MoveCost(fl, c, d) \in Nat
    <3>1. c \in Free /\ Paid(ns, c) \in Nat
      BY <1>6, <2>1, NodeNumbers DEF Honest
    <3>2. d \in Free
      BY <3>1, NeighborsMutual
    <3> QED
      BY <3>1, <3>2, MoveCostIs
  <2>3. CASE ns[c].closed
    <3>1. d \in DOMAIN ns /\ Paid(ns, d) <= Paid(ns, c) + MoveCost(fl, c, d)
      BY <2>1, <2>3 DEF Priced, ToldAround
    <3>2. d \in DOMAIN ns2 /\ Paid(ns2, d) <= Paid(ns, d)
      BY <1>10, <3>1
    <3>3. Paid(ns, d) \in Nat /\ Paid(ns2, d) \in Nat
      BY <1>5, <1>6, <3>1, <3>2, NodeNumbers
    <3> QED
      BY <2>1, <2>2, <3>1, <3>2, <3>3
  <2>4. CASE c = curr
    <3>1. CASE d \in M
      <4>1. d \in DOMAIN ns2 /\ Paid(ns2, d) = Paid(ns, curr) + MoveCost(fl, curr, d)
        BY <1>3, <3>1
      <4> QED
        BY <2>1, <2>2, <2>4, <4>1
    <3>2. CASE d \notin M
      <4>1. d \in DOMAIN ns /\ ~ (Total(R[d]) < Total(ns[d]))
        BY <2>4, <3>2 DEF Reaches
      <4>2. Total(R[d]) = Paid(ns, curr) + MoveCost(fl, curr, d) + Guess(table, goal, d)
        BY <1>1, <2>4
      <4>3. /\ Total(ns[d]) = Paid(ns, d) + Guess(table, goal, d) /\ Paid(ns, d) \in Nat
            /\ Guess(table, goal, d) \in Nat
        BY <1>6, <4>1, NodeNumbers
      <4>4. Paid(ns2, d) = Paid(ns, d) /\ d \in DOMAIN ns2
        BY <1>4, <3>2, <4>1
      <4>5. Paid(ns, d) <= Paid(ns, curr) + MoveCost(fl, curr, d)
        BY <2>2, <2>4, <4>1, <4>2, <4>3
      <4> QED
        BY <2>1, <2>4, <4>4, <4>5
    <3> QED
      BY <3>1, <3>2
  <2> QED
    BY <2>1, <2>3, <2>4
<1>13. ASSUME NEW c \in DOMAIN ns2 PROVE ClosedFirst(ns2, c)
  <2> SUFFICES ASSUME ns2[c].closed, NEW d \in DOMAIN ns2, ~ ns2[d].closed
               PROVE  Total(ns2[c]) <= Total(ns2[d])
    BY DEF ClosedFirst
  <2>1. c \in DOMAIN ns /\ (c = curr \/ ns[c].closed) /\ Total(ns2[c]) = Total(ns[c])
    BY <1>11
  <2>2. Total(ns[c]) \in Nat /\ Total(ns[curr]) \in Nat
    BY <1>2, <1>6, <2>1, NodeNumbers
  <2>3. Total(ns[c]) <= Total(ns[curr])
    <3>1. CASE c = curr
      BY <2>2, <3>1
    <3>2. CASE ns[c].closed
      BY <1>2, <2>1, <3>2 DEF Priced, ClosedFirst
    <3> QED
      BY <2>1, <3>1, <3>2
  <2>4. Total(ns2[d]) \in Nat
    BY <1>5, NodeNumbers
  <2>5. CASE d \in M
    <3>1. Total(ns2[d]) = Total(R[d]) /\ Total(ns[curr]) <= Total(R[d])
      BY <1>1, <1>3, <2>5
    <3> QED
      BY <2>1, <2>2, <2>3, <2>4, <3>1
  <2>6. CASE d \notin M
    <3>1. d \in DOMAIN ns /\ ~ ns[d].closed /\ Total(ns2[d]) = Total(ns[d])
      BY <1>2, <1>4, <2>6
    <3>2. Total(ns[curr]) <= Total(ns[d])
      BY <3>1 DEF Foremost
    <3> QED
      BY <2>1, <2>2, <2>3, <2>4, <3>1, <3>2
  <2> QED
    BY <2>5, <2>6
<1> QED
  BY <1>5, <1>7, <1>8, <1>9, <1>12, <1>13 DEF Priced

\* As long as the goal is not expanded, there is a node to go on with, and so a way is found.
LEMMA GoesOn ==
  ASSUME NEW fl, NEW ns, NEW table, NEW start \in Free, NEW goal \in Free, goal \in DOMAIN Steps[start],
         Priced(fl, ns, table, start, goal),
         NEW curr, curr # goal, \A c \in DOMAIN ns : ~ ns[c].closed => c = curr
  PROVE  curr \in DOMAIN ns => ~ (Neighbors(curr) \subseteq DOMAIN ns)
<1> SUFFICES ASSUME curr \in DOMAIN ns, Neighbors(curr) \subseteq DOMAIN ns PROVE FALSE
  OBVIOUS
<1> DEFINE D == DOMAIN ns
<1>1. \A c \in D : c \in Free /\ (ns[c].closed => Neighbors(c) \subseteq D)
  BY DEF Priced, Honest, ToldAround
<1>2. \A c \in D : c \in Free /\ Neighbors(c) \subseteq D
  BY <1>1
<1>3. start \in D /\ (goal \in D => ns[goal].closed = FALSE)
  BY DEF Priced
<1> HIDE DEF D
<1>4. goal \in D
  BY <1>2, <1>3, Flooded
<1> QED
  BY <1>3, <1>4 DEF D

\* Tables that are there tell the same, asked or not.
LEMMA SameGuess ==
  ASSUME NEW fl, NEW ns, NEW table, NEW t, t = Empty <=> table = Empty, NEW start, NEW goal,
         Priced(fl, ns, table, start, goal)
  PROVE  Priced(fl, ns, t, start, goal)
<1>1. \A c : Guess(t, goal, c) = Guess(table, goal, c)
  BY DEF Guess
<1>2. \A c : Honest(ns, t, goal, c) <=> Honest(ns, table, goal, c)
  BY <1>1 DEF Honest
<1> QED
  BY <1>2 DEF Priced

\* The open node that the queue gives first has no dearer total than another.
LEMMA FirstIsForemost ==
  ASSUME Tree(nodes), NEW fl, NEW table, NEW start, NEW goal \in Free,
         Priced(fl, nodes, table, start, goal), NEW curr \in First
  PROVE  Foremost(nodes, curr)
<1>1. curr \in DOMAIN nodes /\ nodes[curr].closed = FALSE
  BY DEF First, Open, Tree, LedTo
<1>2. \A d \in DOMAIN nodes : Total(nodes[d]) \in Nat
  BY NodeNumbers DEF Priced
<1>3. ASSUME NEW d \in DOMAIN nodes, ~ nodes[d].closed PROVE Total(nodes[curr]) <= Total(nodes[d])
  <2>1. ~ Before(nodes[d], nodes[curr])
    BY <1>3 DEF First, Open
  <2>2. ~ (Total(nodes[d]) < Total(nodes[curr]))
    BY <2>1 DEF Before
  <2>3. Total(nodes[d]) \in Nat /\ Total(nodes[curr]) \in Nat
    BY <1>1, <1>2
  <2> QED
    BY <2>2, <2>3
<1> QED
  BY <1>1, <1>3 DEF Foremost

\* A search for a goal that is connected neither expands a node twice nor ends without a path, and
\* it keeps what the nodes have paid right.
LEMMA SearchGoesOn ==
  ASSUME Traffic(flow), Tree(nodes), GoalTablesRight, NEW start \in Free, NEW goal \in Free,
         goal \in DOMAIN Steps[start], Priced(flow, nodes, heuristics[goal], start, goal),
         NEW curr \in First, curr # goal, Expand(curr, goal)
  PROVE  ~ Fails(curr, goal) /\ Priced(flow, nodes', heuristics'[goal], start, goal)
<1> DEFINE table == heuristics[goal]
           t == heuristics'[goal]
           M == Improved(curr, goal)
           R == [d \in Neighbors(curr) |-> Reached(curr, d, goal)]
           ns == nodes'
<1>1. /\ curr \in DOMAIN nodes /\ ~ nodes[curr].closed /\ curr \in Free
      /\ goal \in DOMAIN Steps[curr]
  <2>1. curr \in DOMAIN nodes /\ ~ nodes[curr].closed
    BY DEF First, Open
  <2>2. Honest(nodes, table, goal, curr)
    BY <2>1 DEF Priced
  <2> QED
    BY <2>1, <2>2 DEF Honest
<1>2. Right(table, << goal >>) /\ goal \in DOMAIN heuristics
  BY DEF GoalTablesRight
<1>3. Foremost(nodes, curr)
  BY FirstIsForemost
<1>4. ASSUME NEW d \in Neighbors(curr)
      PROVE  /\ d \in Free /\ goal \in DOMAIN Steps[d] /\ R[d] = Reached(curr, d, goal)
             /\ R[d].g = nodes[curr].g + 1 /\ R[d].cost = nodes[curr].cost + TrafficCost(flow, curr, d)
             /\ R[d].h = Guess(table, goal, d) /\ R[d].parent = curr /\ R[d].closed = FALSE
  <2>1. d \in Free /\ goal \in DOMAIN Steps[d]
    BY <1>1, Connection, NeighborsMutual
  <2>2. LET node == Reached(curr, d, goal)
        IN  /\ node.g = nodes[curr].g + 1
            /\ node.cost = nodes[curr].cost + TrafficCost(flow, curr, d)
            /\ node.h = Guess(table, goal, d)
            /\ node.parent = curr /\ node.closed = FALSE
    BY <1>1, <1>2, <2>1, ReachedIs
  <2>3. R[d] = Reached(curr, d, goal)
    OBVIOUS
  <2> QED
    BY <2>1, <2>2, <2>3
<1>5. M = {d \in Neighbors(curr) : d \in DOMAIN nodes => Total(R[d]) < Total(nodes[d])}
  BY <1>4 DEF Improved
<1>6. Expands(nodes, ns, curr, M, R)
  <2>1. /\ DOMAIN ns = DOMAIN nodes \cup M
        /\ \A c \in M : ns[c] = Reached(curr, c, goal)
        /\ \A c \in DOMAIN nodes : c \notin M =>
              /\ ns[c].g = nodes[c].g /\ ns[c].h = nodes[c].h /\ ns[c].cost = nodes[c].cost
              /\ ns[c].parent = nodes[c].parent
              /\ ns[c].closed = IF c = curr THEN TRUE ELSE nodes[c].closed
    BY <1>1, NodesAfter
  <2>2. \A c \in M : R[c] = Reached(curr, c, goal)
    BY <1>4, <1>5
  <2> HIDE DEF M, R, ns
  <2> QED
    BY <2>1, <2>2 DEF Expands
<1>7. t = Empty <=> table = Empty
  <2> DEFINE cells == NeighborLocs(curr)
  <2>1. t = AskedIfThere(table, cells) /\ Len(cells) \in Nat
    BY <1>2, AskedCells DEF Expand
  <2> HIDE DEF t, table, cells
  <2> QED
    BY <1>2, <2>1, AskedIsThere
<1>8. Open = {curr} => M # {}
  <2> SUFFICES ASSUME Open = {curr}, M = {} PROVE FALSE
    OBVIOUS
  <2>1. \A c \in DOMAIN nodes : ~ nodes[c].closed => c = curr
    BY DEF Open
  <2>2. Neighbors(curr) \subseteq DOMAIN nodes
    BY <1>5
  <2> QED
    BY <1>1, <2>1, <2>2, GoesOn
<1> HIDE DEF M, R, ns, t, table
<1>9. Priced(flow, nodes, table, start, goal)
  BY DEF table
<1>10. Reaches(flow, nodes, table, goal, curr, M, R)
  BY <1>4, <1>5 DEF Reaches
<1>11. \A c \in DOMAIN nodes : nodes[c].closed => c \notin M
  BY <1>3, <1>9, <1>10, NothingBefore
<1>12. ~ ReExpansion(curr, goal)
  BY <1>11 DEF ReExpansion, M
<1>13. ~ Fails(curr, goal)
  BY <1>8, <1>12 DEF Fails, M
<1>14. Priced(flow, ns, table, start, goal)
  BY <1>3, <1>6, <1>9, <1>10, PricedGrows
<1>15. Priced(flow, ns, t, start, goal)
  BY <1>7, <1>14, SameGuess
<1> QED
  BY <1>13, <1>15 DEF ns, t

-----------------------------------------------------------------------------
(* Every search.                                                           *)

\* The agents have somewhere to go.
Tasked == tasks \in [Agent -> Free]

\* What is searched for is connected with where the agent is.
Reachable == tasks[searching] \in DOMAIN Steps[curr_states[searching]]

SearchInv ==
  /\ LeadInv
  /\ GoalTablesRight
  /\ dummy_goals \in [Agent -> Free]
  /\ stage \in {"initial", "refine", "exited"} => Tasked
  /\ stage = "exited" => searching # None
  /\ searching # None /\ Reachable =>
       /\ stage # "exited"
       /\ Priced(flow, nodes, heuristics[tasks[searching]], curr_states[searching], tasks[searching])

\* Nobody searches at first.
LEMMA SearchInit ==
  ASSUME Init
  PROVE  SearchInv
<1>1. dummy_goals \in [Agent -> Free] /\ stage = "idle" /\ searching = None
  BY PlacementsAssumption DEF Init
<1> QED
  BY <1>1, LeadInit, GoalTablesInit DEF SearchInv

\* A search starts.
LEMMA SearchForPriced ==
  ASSUME GoalTablesRight, curr_states \in [Agent -> Free], Tasked, NEW a \in Agent, SearchFor(a),
         UNCHANGED << tasks, curr_states >>, Reachable'
  PROVE  Priced(flow, nodes, heuristics[tasks[searching]], curr_states[searching], tasks[searching])'
<1> DEFINE start == curr_states[a]
           goal == tasks[a]
<1>1. /\ start \in Free /\ goal \in Free /\ searching' = a /\ StartSearch(start, goal)
      /\ goal \in DOMAIN Steps[start]
  BY DEF Tasked, SearchFor, Reachable
<1>2. tasks'[searching'] = goal /\ curr_states'[searching'] = start
  BY <1>1
<1>3. Right(heuristics[goal], << goal >>) /\ goal \in DOMAIN heuristics
  BY <1>1 DEF GoalTablesRight
<1> HIDE DEF start, goal
<1>4. Priced(flow', nodes', heuristics'[goal], start, goal)
  BY <1>1, <1>3, PricedStart
<1>5. Priced(flow', nodes', heuristics'[tasks'[searching']], curr_states'[searching'], tasks'[searching'])
  BY <1>2, <1>4
<1> QED
  BY <1>5

\* Every step keeps what the nodes have paid right.
LEMMA SearchNext ==
  ASSUME SearchInv, [Next]_vars
  PROVE  SearchInv'
<1>1. /\ LeadInv /\ LeadInv' /\ GoalTablesRight /\ GoalTablesRight' /\ TrafficInv
      /\ curr_states \in [Agent -> Free] /\ dummy_goals \in [Agent -> Free]
      /\ count \in Nat /\ searching \in Agent \cup {None}
  <2>1. LeadInv /\ GoalTablesRight
    BY DEF SearchInv
  <2> QED
    BY <2>1, LeadNext, GoalTablesNext DEF SearchInv, LeadInv, PathInv, TrafficInv
<1>2. None \notin Agent
  BY TeamAssumption DEF Agent, None
<1>3. ASSUME dummy_goals' \in [Agent -> Free], searching' = None, stage' # "exited",
             stage' \in {"initial", "refine"} => Tasked'
      PROVE  SearchInv'
  BY <1>1, <1>3 DEF SearchInv
<1>4. ASSUME stage \in {"initial", "refine"}, NEW a \in Agent, SearchFor(a),
             UNCHANGED << stage, tasks, curr_states, dummy_goals >>
      PROVE  SearchInv'
  <2>1. Tasked
    BY <1>4 DEF SearchInv
  <2>2. Tasked' /\ searching' # None /\ stage' # "exited" /\ dummy_goals' \in [Agent -> Free]
    BY <1>1, <1>2, <1>4, <2>1 DEF SearchFor, Tasked
  <2>3. Reachable' =>
          Priced(flow, nodes, heuristics[tasks[searching]], curr_states[searching], tasks[searching])'
    BY <1>1, <1>4, <2>1, SearchForPriced
  <2> QED
    BY <1>1, <2>2, <2>3 DEF SearchInv
<1>5. CASE UNCHANGED vars
  <2>1. /\ UNCHANGED << flow, nodes, heuristics, tasks, searching, curr_states, stage, dummy_goals >>
    BY <1>5 DEF vars, paths, input, env
  <2> QED
    BY <1>1, <2>1 DEF SearchInv, Tasked, Reachable
<1>6. CASE get_h
  <2>1. UNCHANGED << tasks, searching, curr_states, stage, dummy_goals >> /\ stage = "idle"
    BY <1>6 DEF get_h, input, env
  <2>2. searching = None
    BY <1>1, <2>1 DEF LeadInv
  <2> QED
    BY <1>1, <1>3, <2>1, <2>2
<1>7. CASE plan
  <2>1. /\ UNCHANGED << searching, curr_states >> /\ stage = "idle" /\ stage' = "initial"
        /\ goal_locations' \in Assignments
        /\ dummy_goals' = (IF curr_timestep = 0 THEN curr_states ELSE dummy_goals)
        /\ tasks' = [a \in Agent |-> IF goal_locations'[a] = NoGoals THEN dummy_goals'[a]
                                              ELSE Head(goal_locations'[a])]
    BY <1>7 DEF plan, env
  <2>2. searching' = None
    BY <1>1, <2>1 DEF LeadInv
  <2>3. dummy_goals' \in [Agent -> Free]
    BY <1>1, <2>1
  <2>4. \A a \in Agent : goal_locations'[a] # NoGoals => Head(goal_locations'[a]) \in Free
    <3>1. \A a \in Agent : goal_locations'[a] \in Seq(Free)
      BY <2>1, GoalsAssumption
    <3> QED
      BY <3>1 DEF NoGoals
  <2>5. \A a \in Agent : tasks'[a] \in Free
    BY <2>1, <2>3, <2>4
  <2>6. Tasked'
    BY <2>1, <2>5 DEF Tasked
  <2> QED
    BY <1>3, <2>1, <2>2, <2>3, <2>6
<1>8. CASE plan_pibt
  <2>1. UNCHANGED << searching, dummy_goals >> /\ stage = "idle" /\ stage' = "sort"
    BY <1>8 DEF plan_pibt, env
  <2>2. searching' = None
    BY <1>1, <2>1 DEF LeadInv
  <2> QED
    BY <1>1, <1>3, <2>1, <2>2
<1>9. CASE InitialPath
  <2>1. /\ stage = "initial" /\ searching = None /\ count \in Agent
        /\ UNCHANGED << stage, tasks, curr_states, dummy_goals >>
    BY <1>1, <1>9, TeamAssumption DEF InitialPath, Agent, input, env
  <2>2. CASE SearchFor(count)
    BY <1>4, <2>1, <2>2
  <2>3. CASE searching' = searching
    BY <1>1, <1>3, <2>1, <2>3 DEF SearchInv, Tasked
  <2> QED
    BY <1>9, <2>2, <2>3 DEF InitialPath
<1>10. CASE frank_wolfe
  <2> DEFINE a == replan_order[(count % NumAgents) + 1]
  <2>1. a \in Agent /\ UNCHANGED << stage, tasks, curr_states, dummy_goals >>
        /\ stage = "refine" /\ searching = None
    <3>1. (count % NumAgents) + 1 \in 1 .. NumAgents
      BY <1>1, TeamAssumption
    <3> QED
      BY <1>1, <1>10, <3>1 DEF frank_wolfe, TrafficInv, input, env
  <2>2. CASE SearchFor(a)
    <3> HIDE DEF a
    <3> QED
      BY <1>4, <2>1, <2>2
  <2>3. CASE searching' = searching
    BY <1>1, <1>3, <2>1, <2>3 DEF SearchInv, Tasked
  <2> QED
    BY <1>10, <2>2, <2>3 DEF frank_wolfe
<1>11. CASE Search
  <2> DEFINE start == curr_states[searching]
             goal == tasks[searching]
  <2>1. /\ searching # None /\ searching \in Agent /\ stage # "exited"
        /\ UNCHANGED << flow, tasks, curr_states, searching, dummy_goals >>
        /\ stage' \in {stage, "exited"}
    BY <1>1, <1>11 DEF Search, paths, input, env
  <2>2. PICK curr \in First :
          /\ curr # goal /\ Expand(curr, goal)
          /\ stage' = IF Fails(curr, goal) THEN "exited" ELSE stage
    BY <1>11 DEF Search
  <2>3. stage \in {"initial", "refine"} /\ Tasked /\ Tasked'
    <3>1. stage \in {"initial", "refine"}
      BY <1>1, <2>1 DEF LeadInv
    <3> QED
      BY <2>1, <3>1 DEF SearchInv, Tasked
  <2>4. ASSUME Reachable PROVE ~ Fails(curr, goal) /\ Priced(flow, nodes', heuristics'[goal], start, goal)
    <3>1. Traffic(flow)
      BY <1>1, FlowIsTraffic DEF TrafficInv
    <3>2. Tree(nodes)
      BY <1>1, <2>1 DEF LeadInv, PathInv
    <3>3. start \in Free /\ goal \in Free /\ goal \in DOMAIN Steps[start]
      BY <1>1, <2>1, <2>3, <2>4 DEF Tasked, Reachable
    <3>4. Priced(flow, nodes, heuristics[goal], start, goal)
      BY <2>1, <2>4 DEF SearchInv
    <3> HIDE DEF start, goal
    <3> QED
      BY <1>1, <2>2, <3>1, <3>2, <3>3, <3>4, SearchGoesOn
  <2>5. ASSUME Reachable'
        PROVE  /\ stage' # "exited"
               /\ Priced(flow, nodes, heuristics[tasks[searching]], curr_states[searching], tasks[searching])'
    <3>1. Reachable
      BY <2>1, <2>5 DEF Reachable
    <3>2. stage' = stage
      BY <2>2, <2>4, <3>1
    <3>3. Priced(flow', nodes', heuristics'[tasks'[searching']], curr_states'[searching'], tasks'[searching'])
      BY <2>1, <2>4, <3>1
    <3> QED
      BY <2>1, <3>2, <3>3
  <2>6. dummy_goals' \in [Agent -> Free] /\ searching' # None
    BY <1>1, <2>1
  <2> QED
    BY <1>1, <2>3, <2>5, <2>6 DEF SearchInv
<1>12. CASE Found
  <2>1. /\ searching' = None /\ UNCHANGED << stage, tasks, dummy_goals >> /\ stage # "exited"
    BY <1>12 DEF Found, input, env
  <2> QED
    BY <1>1, <1>3, <2>1 DEF SearchInv, Tasked
<1>13. CASE StartRefinement
  <2>1. /\ searching' = None /\ UNCHANGED << tasks, dummy_goals >> /\ stage = "initial" /\ stage' = "refine"
    BY <1>13 DEF StartRefinement, input, env
  <2> QED
    BY <1>1, <1>3, <2>1 DEF SearchInv, Tasked
<1>14. CASE Stop \/ Sort \/ Execute
  <2>1. CASE Stop
    <3>1. UNCHANGED << searching, dummy_goals >> /\ searching = None /\ stage' = "sort"
      BY <2>1 DEF Stop, input, env
    <3> QED
      BY <1>1, <1>3, <3>1
  <2>2. CASE Sort
    <3>1. UNCHANGED << searching, dummy_goals >> /\ stage = "sort" /\ stage' = "planned"
      BY <2>2 DEF Sort, input, env
    <3> QED
      BY <1>1, <1>3, <3>1 DEF LeadInv
  <2>3. CASE Execute
    <3>1. UNCHANGED << searching, dummy_goals >> /\ stage = "planned" /\ stage' = "idle"
      BY <2>3 DEF Execute, input, env
    <3> QED
      BY <1>1, <1>3, <3>1 DEF LeadInv
  <2> QED
    BY <1>14, <2>1, <2>2, <2>3
<1> QED
  BY <1>5, <1>6, <1>7, <1>8, <1>9, <1>10, <1>11, <1>12, <1>13, <1>14 DEF Next

\* Who walks a path is connected with its end.
LEMMA WalkConnects ==
  ASSUME NEW path \in Seq(Free), Len(path) >= 1, Walkable(path)
  PROVE  \A j \in 1 .. Len(path) : path[Len(path)] \in DOMAIN Steps[path[j]]
<1> DEFINE n == Len(path) - 1
           e == path[Len(path)]
           Q == {k \in 0 .. n : e \in DOMAIN Steps[path[n + 1 - k]]}
<1>1. n \in Nat /\ \A k \in 1 .. n + 1 : path[k] \in Free
  <2>1. Len(path) \in Nat /\ \A k \in 1 .. Len(path) : path[k] \in Free
    BY LenProperties, ElementOfSeq
  <2> QED
    BY <2>1
<1>2. 0 \in Q
  <2>1. n + 1 - 0 = Len(path) /\ Len(path) \in 1 .. n + 1 /\ 0 \in 0 .. n
    BY <1>1
  <2>2. e \in Free /\ path[n + 1 - 0] = e
    BY <1>1, <2>1
  <2>3. e \in DOMAIN Steps[e]
    BY <2>2, NoSteps
  <2> QED
    BY <2>1, <2>2, <2>3
<1>3. ASSUME NEW k \in 1 .. n, k - 1 \in Q PROVE k \in Q
  <2> DEFINE j == n + 1 - k
  <2>1. j \in 1 .. Len(path) - 1 /\ j \in 1 .. n + 1 /\ n + 1 - (k - 1) = j + 1 /\ k \in 0 .. n
    BY <1>1
  <2>2. path[j] \in Free /\ path[j + 1] \in Neighbors(path[j])
    BY <1>1, <2>1 DEF Walkable
  <2>3. e \in DOMAIN Steps[path[j + 1]]
    BY <1>3, <2>1
  <2> HIDE DEF j, e
  <2>4. e \in DOMAIN Steps[path[j]]
    BY <2>2, <2>3, Connection
  <2> QED
    BY <2>1, <2>4 DEF j
<1> HIDE DEF Q
<1>4. \A k \in 0 .. n : k \in Q
  BY <1>1, <1>2, <1>3, NatUpTo
<1>5. ASSUME NEW j \in 1 .. Len(path) PROVE e \in DOMAIN Steps[path[j]]
  <2> DEFINE k == n + 1 - j
  <2>1. k \in 0 .. n /\ n + 1 - k = j
    BY <1>1
  <2>2. k \in Q
    BY <1>4, <2>1
  <2> HIDE DEF k
  <2> QED
    BY <2>1, <2>2 DEF Q
<1> QED
  BY <1>5

\* What the goal has paid is what the trajectory costs.
LEMMA TrajectoryCosts ==
  ASSUME NEW fl, Traffic(fl), Tree(nodes), NEW table, NEW start, NEW goal \in Free,
         Priced(fl, nodes, table, start, goal), Rooted(nodes, start), goal \in DOMAIN nodes
  PROVE  PathCost(fl, Trajectory(goal)) = Paid(nodes, goal)
<1> DEFINE way == Trajectory(goal)
           n == Len(way) - 1
           Q == {k \in 0 .. n : CostTo(fl, way, k) = Paid(nodes, way[k + 1])}
<1>1. /\ Once(way) /\ way[Len(way)] = goal
      /\ \A k \in 1 .. Len(way) : way[k] \in DOMAIN nodes /\ nodes[way[k]].g = k - 1
      /\ \A k \in 1 .. Len(way) - 1 : way[k] = nodes[way[k + 1]].parent
  BY TrajectoryIs
<1>2. way[1] = start
  BY FoundBegins
<1> HIDE DEF way
<1>3. way \in Seq(Free) /\ Len(way) \in Nat /\ Len(way) >= 1 /\ n \in Nat /\ Len(way) = n + 1
  BY <1>1, LenProperties DEF Once
<1>4. /\ CostTo(fl, way, 0) = 0 /\ PathCost(fl, way) = CostTo(fl, way, n)
      /\ \A k \in 1 .. n : CostTo(fl, way, k) = CostTo(fl, way, k - 1) + MoveCost(fl, way[k], way[k + 1])
  BY <1>3, CostsAre
<1>5. 0 \in Q
  <2>1. Paid(nodes, way[1]) = 0 /\ 0 \in 0 .. n
    BY <1>2, <1>3 DEF Priced
  <2> QED
    BY <1>4, <2>1
<1>6. ASSUME NEW k \in 1 .. n, k - 1 \in Q PROVE k \in Q
  <2>1. k \in 0 .. n /\ k \in 1 .. Len(way) - 1 /\ k + 1 \in 1 .. Len(way) /\ (k - 1) + 1 = k /\ (k + 1) - 1 = k
        /\ k # 0
    BY <1>3
  <2> DEFINE c == way[k]
             d == way[k + 1]
  <2>2. d \in DOMAIN nodes /\ nodes[d].g # 0 /\ nodes[d].parent = c
    BY <1>1, <2>1
  <2>3. Paid(nodes, d) = Paid(nodes, c) + MoveCost(fl, c, d)
    BY <2>2 DEF Priced, PaidMove
  <2>4. CostTo(fl, way, k - 1) = Paid(nodes, c)
    BY <1>6, <2>1
  <2>5. CostTo(fl, way, k) = CostTo(fl, way, k - 1) + MoveCost(fl, c, d)
    BY <1>4
  <2> QED
    BY <2>1, <2>3, <2>4, <2>5
<1> HIDE DEF Q
<1>7. n \in Q
  <2>1. \A k \in 0 .. n : k \in Q
    BY <1>3, <1>5, <1>6, NatUpTo
  <2> QED
    BY <1>3, <2>1
<1>8. CostTo(fl, way, n) = Paid(nodes, goal)
  <2>1. CostTo(fl, way, n) = Paid(nodes, way[n + 1])
    BY <1>7 DEF Q
  <2> QED
    BY <1>1, <1>3, <2>1
<1> QED
  BY <1>4, <1>8 DEF way

\* When the goal is the first in the queue, no way to it is cheaper than what it has paid: on
\* every way some open node stands before the goal, or the way is the one that was found.
LEMMA NoneCheaper ==
  ASSUME NEW fl, Traffic(fl), NEW ns, NEW table, NEW start, NEW goal \in Free,
         Priced(fl, ns, table, start, goal), Foremost(ns, goal),
         NEW path \in Seq(Free), Len(path) >= 1, Walkable(path), path[1] = start, path[Len(path)] = goal
  PROVE  Paid(ns, goal) <= PathCost(fl, path)
<1> DEFINE n == Len(path) - 1
           c(k) == path[k + 1]
           spent(k) == CostTo(fl, path, k)
           Left(k) == Paid(ns, goal) <= spent(k) + Guess(table, goal, c(k))
           Q == {k \in 0 .. n : Left(k) \/ (c(k) \in DOMAIN ns /\ Paid(ns, c(k)) <= spent(k))}
<1>1. n \in Nat /\ Len(path) = n + 1 /\ Len(path) \in Nat
  BY LenProperties
<1>2. \A k \in 0 .. n : c(k) \in Free /\ goal \in DOMAIN Steps[c(k)]
  <2>1. \A k \in 0 .. n : k + 1 \in 1 .. Len(path)
    BY <1>1
  <2>2. \A k \in 1 .. Len(path) : path[k] \in Free /\ goal \in DOMAIN Steps[path[k]]
    BY ElementOfSeq, LenProperties, WalkConnects
  <2> QED
    BY <2>1, <2>2
<1>3. /\ spent(0) = 0 /\ PathCost(fl, path) = spent(n)
      /\ \A k \in 0 .. n : spent(k) \in Int
      /\ \A k \in 1 .. n : spent(k) = spent(k - 1) + MoveCost(fl, c(k - 1), c(k))
  <2>1. \A k \in 1 .. n : (k - 1) + 1 = k
    OBVIOUS
  <2>2. /\ CostTo(fl, path, 0) = 0 /\ PathCost(fl, path) = CostTo(fl, path, n)
        /\ \A k \in 0 .. n : CostTo(fl, path, k) \in Int
        /\ \A k \in 1 .. n : CostTo(fl, path, k) = CostTo(fl, path, k - 1) + MoveCost(fl, path[k], path[k + 1])
    BY CostsAre
  <2> QED
    BY <2>1, <2>2
<1>4. \A d \in DOMAIN ns : /\ Paid(ns, d) \in Nat /\ Guess(table, goal, d) \in Nat
                           /\ Total(ns[d]) = Paid(ns, d) + Guess(table, goal, d)
  BY NodeNumbers DEF Priced
<1>5. goal \in DOMAIN ns /\ Paid(ns, goal) \in Nat /\ Total(ns[goal]) = Paid(ns, goal)
  <2>1. goal \in DOMAIN ns
    BY DEF Foremost
  <2>2. Guess(table, goal, goal) = 0
    BY NoSteps, GuessIs
  <2> QED
    BY <1>4, <2>1, <2>2
<1>6. \A k \in 1 .. n : /\ k - 1 \in 0 .. n /\ k \in 0 .. n /\ c(k) \in Neighbors(c(k - 1))
  BY <1>1 DEF Walkable
<1>7. 0 \in Q
  <2>1. c(0) = start /\ 0 \in 0 .. n
    BY <1>1
  <2>2. start \in DOMAIN ns /\ Paid(ns, start) = 0
    BY DEF Priced
  <2> QED
    BY <1>3, <2>1, <2>2
<1> HIDE DEF n, c, spent
<1>8. ASSUME NEW k \in 1 .. n, k - 1 \in Q PROVE k \in Q
  <2> DEFINE a == c(k - 1)
             b == c(k)
             x == spent(k - 1)
             y == spent(k)
             m == MoveCost(fl, a, b)
  <2>1. k - 1 \in 0 .. n /\ k \in 0 .. n /\ b \in Neighbors(a) /\ a \in Free /\ b \in Free
    BY <1>2, <1>6
  <2>2. m \in Nat /\ m >= 1 /\ x \in Int /\ y = x + m /\ y \in Int
    <3>1. m \in Nat /\ m >= 1
      BY <2>1, MoveCostIs
    <3> QED
      BY <1>3, <2>1, <3>1
  <2>3. Guess(table, goal, a) \in Nat /\ Guess(table, goal, b) \in Nat
        /\ Guess(table, goal, a) <= Guess(table, goal, b) + 1
    BY <1>2, <2>1, GuessIs
  <2>4. Left(k - 1) \/ (a \in DOMAIN ns /\ Paid(ns, a) <= x)
    BY <1>8
  <2>5. Left(k - 1) => Left(k)
    <3>1. Left(k - 1) <=> Paid(ns, goal) <= x + Guess(table, goal, a)
      OBVIOUS
    <3>2. Left(k) <=> Paid(ns, goal) <= y + Guess(table, goal, b)
      OBVIOUS
    <3> DEFINE i == Guess(table, goal, a)
               j == Guess(table, goal, b)
               z == Paid(ns, goal)
    <3>3. i \in Nat /\ j \in Nat /\ i <= j + 1 /\ z \in Nat
      BY <1>5, <2>3
    <3> HIDE DEF i, j, z, x, y, m, a, b
    <3>4. z <= x + i => z <= y + j
      BY <2>2, <3>3
    <3> QED
      BY <3>1, <3>2, <3>4 DEF i, j, z
  <2>6. CASE a \in DOMAIN ns /\ Paid(ns, a) <= x /\ ns[a].closed
    <3>1. b \in DOMAIN ns /\ Paid(ns, b) <= Paid(ns, a) + m
      BY <2>1, <2>6 DEF Priced, ToldAround
    <3>2. Paid(ns, a) \in Nat /\ Paid(ns, b) \in Nat
      BY <1>4, <2>6, <3>1
    <3> HIDE DEF x, y, m, a, b
    <3>3. Paid(ns, b) <= y
      BY <2>2, <2>6, <3>1, <3>2
    <3> QED
      BY <2>1, <3>1, <3>3 DEF b, y
  <2>7. CASE a \in DOMAIN ns /\ Paid(ns, a) <= x /\ ~ ns[a].closed
    <3>1. Total(ns[goal]) <= Total(ns[a])
      BY <2>7 DEF Foremost
    <3>2. Paid(ns, a) \in Nat /\ Total(ns[a]) = Paid(ns, a) + Guess(table, goal, a)
      BY <1>4, <2>7
    <3> HIDE DEF x, a
    <3>3. Paid(ns, goal) <= x + Guess(table, goal, a)
      BY <1>5, <2>2, <2>3, <2>7, <3>1, <3>2
    <3>4. Left(k - 1)
      BY <3>3 DEF x, a
    <3> QED
      BY <2>1, <2>5, <3>4
  <2> QED
    BY <2>1, <2>4, <2>5, <2>6, <2>7
<1> HIDE DEF Q
<1>9. n \in Q
  <2>1. \A k \in 0 .. n : k \in Q
    BY <1>1, <1>7, <1>8, NatUpTo
  <2> QED
    BY <1>1, <2>1
<1>10. c(n) = goal
  BY <1>1 DEF c
<1>11. Guess(table, goal, goal) = 0 /\ spent(n) \in Int
  BY <1>1, <1>3, NoSteps, GuessIs
<1>12. Paid(ns, goal) <= spent(n)
  BY <1>9, <1>10, <1>11 DEF Q
<1> QED
  BY <1>3, <1>12

-----------------------------------------------------------------------------
\* What a search has found is a cheapest path.
LEMMA SearchFindsCheapest ==
  ASSUME SearchInv
  PROVE  CheapestFound
<1> SUFFICES ASSUME searching # None, tasks[searching] \in First,
                    NEW path \in PathsBetween[curr_states[searching]][tasks[searching]], Walkable(path)
             PROVE  PathCost(flow, Trajectory(tasks[searching])) <= PathCost(flow, path)
  BY DEF CheapestFound
<1> DEFINE start == curr_states[searching]
           goal == tasks[searching]
           table == heuristics[goal]
<1>1. /\ LeadInv /\ PathInv /\ TrafficInv /\ searching \in Agent /\ start \in Free /\ goal \in Free
      /\ Rooted(nodes, start)
  <2>1. LeadInv /\ PathInv /\ TrafficInv
    BY DEF SearchInv, LeadInv, PathInv
  <2>2. stage \in {"initial", "refine", "exited"} /\ Rooted(nodes, start)
    BY <2>1 DEF LeadInv
  <2>3. Tasked
    BY <2>2 DEF SearchInv
  <2> QED
    BY <2>1, <2>2, <2>3 DEF PathInv, TrafficInv, Tasked
<1>2. SimplePath(path) /\ path[1] = start /\ path[Len(path)] = goal
  BY <1>1, AllPathsBetween
<1>3. path \in Seq(Free) /\ Len(path) \in Nat /\ Len(path) >= 1
  BY <1>2, LenProperties DEF SimplePath
<1>4. goal \in DOMAIN Steps[start]
  <2>1. 1 \in 1 .. Len(path)
    BY <1>3
  <2>2. path[Len(path)] \in DOMAIN Steps[path[1]]
    BY <1>3, <2>1, WalkConnects
  <2> QED
    BY <1>2, <2>2
<1>5. stage # "exited" /\ Priced(flow, nodes, table, start, goal)
  BY <1>4 DEF SearchInv, Reachable
<1>6. Tree(nodes) /\ Traffic(flow) /\ goal \in First
  BY <1>1, <1>5, FlowIsTraffic DEF PathInv, TrafficInv
<1> HIDE DEF start, goal, table
<1>7. goal \in DOMAIN nodes /\ Foremost(nodes, goal)
  BY <1>1, <1>5, <1>6, FirstIsForemost DEF First, Open
<1>8. PathCost(flow, Trajectory(goal)) = Paid(nodes, goal)
  BY <1>1, <1>5, <1>6, <1>7, TrajectoryCosts
<1>9. Paid(nodes, goal) <= PathCost(flow, path)
  BY <1>1, <1>2, <1>3, <1>5, <1>6, <1>7, NoneCheaper
<1> QED
  BY <1>8, <1>9 DEF goal

\* The path that A* gives an agent is a cheapest one in the traffic of the others at that time,
\* whether the guesses come from a table or from the distance as the crow flies.
THEOREM SearchCheapest == Spec => []CheapestFound
<1>1. Init => SearchInv
  BY SearchInit
<1>2. SearchInv /\ [Next]_vars => SearchInv'
  BY SearchNext
<1>3. SearchInv => CheapestFound
  BY SearchFindsCheapest
<1> QED
  BY <1>1, <1>2, <1>3, PTL DEF Spec

-----------------------------------------------------------------------------
(* The goals that can be reached.                                          *)

\* An agent stays where its start can be reached, and gets goals that can be reached from there.
HomeInv ==
  /\ SearchInv
  /\ dummy_goals \in Placements
  /\ curr_timestep \in Nat /\ (curr_timestep = 0 => curr_states = dummy_goals)
  /\ \A a \in Agent : DOMAIN Steps[curr_states[a]] = DOMAIN Steps[dummy_goals[a]]
  /\ stage \in {"initial", "refine", "exited"} =>
       \A a \in Agent : tasks[a] \in DOMAIN Steps[curr_states[a]]

\* The agents are where they start.
LEMMA HomeInit ==
  ASSUME Init
  PROVE  HomeInv
<1>1. dummy_goals = curr_states /\ dummy_goals \in Placements /\ curr_timestep = 0 /\ stage = "idle"
  BY DEF Init
<1> QED
  BY <1>1, SearchInit DEF HomeInv

\* Every step keeps the agents there.
LEMMA HomeNext ==
  ASSUME GoalsReachable, HomeInv, [Next]_vars
  PROVE  HomeInv'
<1>1. SearchInv /\ SearchInv' /\ curr_states \in [Agent -> Free] /\ dummy_goals \in [Agent -> Free]
  <2>1. SearchInv
    BY DEF HomeInv
  <2> QED
    BY <2>1, SearchNext DEF SearchInv, LeadInv, PathInv
<1>2. ASSUME UNCHANGED << tasks, curr_states, dummy_goals, curr_timestep >>,
             \/ stage' \notin {"initial", "refine", "exited"}
             \/ stage \in {"initial", "refine", "exited"}
      PROVE  HomeInv'
  BY <1>1, <1>2 DEF HomeInv
<1>3. CASE plan
  <2>1. /\ UNCHANGED << curr_states, curr_timestep >>
        /\ goal_locations' \in Assignments
        /\ dummy_goals' = (IF curr_timestep = 0 THEN curr_states ELSE dummy_goals)
        /\ tasks' = [a \in Agent |-> IF goal_locations'[a] = NoGoals THEN dummy_goals'[a]
                                              ELSE Head(goal_locations'[a])]
    BY <1>3 DEF plan, env
  <2>2. dummy_goals' = dummy_goals
    BY <2>1 DEF HomeInv
  <2>3. ASSUME NEW a \in Agent PROVE tasks'[a] \in DOMAIN Steps[curr_states[a]]
    <3>1. dummy_goals[a] \in Free /\ DOMAIN Steps[curr_states[a]] = DOMAIN Steps[dummy_goals[a]]
      BY <1>1 DEF HomeInv
    <3>2. dummy_goals[a] \in DOMAIN Steps[dummy_goals[a]]
      BY <3>1, NoSteps
    <3>3. goal_locations'[a] # NoGoals => Head(goal_locations'[a]) \in DOMAIN Steps[dummy_goals[a]]
      BY <2>1 DEF HomeInv, GoalsReachable
    <3> QED
      BY <2>1, <2>2, <3>1, <3>2, <3>3
  <2> QED
    BY <1>1, <2>1, <2>2, <2>3 DEF HomeInv
<1>4. CASE plan_pibt
  <2>1. UNCHANGED << curr_states, curr_timestep, dummy_goals >> /\ stage' = "sort"
    BY <1>4 DEF plan_pibt, env
  <2> QED
    BY <1>1, <2>1 DEF HomeInv
<1>5. CASE Execute
  <2>1. /\ curr_timestep' = curr_timestep + 1 /\ UNCHANGED << dummy_goals >> /\ stage' = "idle"
        /\ \A a \in Agent : curr_states'[a] \in Successors(curr_states[a])
    BY <1>5 DEF Execute
  <2>2. curr_timestep' \in Nat /\ curr_timestep' # 0
    BY <2>1 DEF HomeInv
  <2>3. ASSUME NEW a \in Agent PROVE DOMAIN Steps[curr_states'[a]] = DOMAIN Steps[curr_states[a]]
    <3> DEFINE c == curr_states[a]
               d == curr_states'[a]
    <3>1. c \in Free /\ (d = c \/ d \in Neighbors(c))
      BY <1>1, <2>1 DEF Successors
    <3> HIDE DEF c, d
    <3>2. \A q : q \in DOMAIN Steps[c] <=> q \in DOMAIN Steps[d]
      BY <3>1, Connection
    <3>3. DOMAIN Steps[d] = DOMAIN Steps[c]
      BY <3>2
    <3> QED
      BY <3>3 DEF c, d
  <2> QED
    BY <1>1, <2>1, <2>2, <2>3 DEF HomeInv
<1>6. CASE get_h \/ InitialPath \/ frank_wolfe \/ Search \/ Found
  <2>1. CASE get_h
    BY <1>2, <2>1 DEF get_h, input, env
  <2>2. CASE InitialPath
    BY <1>2, <2>2 DEF InitialPath, input, env
  <2>3. CASE frank_wolfe
    BY <1>2, <2>3 DEF frank_wolfe, input, env
  <2>4. CASE Found
    BY <1>2, <2>4 DEF Found, input, env
  <2>5. CASE Search
    <3>1. stage \in {"initial", "refine", "exited"}
      BY <1>1, <2>5 DEF Search, SearchInv, LeadInv
    <3> QED
      BY <1>2, <2>5, <3>1 DEF Search, input, env
  <2> QED
    BY <1>6, <2>1, <2>2, <2>3, <2>4, <2>5
<1>7. CASE StartRefinement \/ Stop \/ Sort
  BY <1>2, <1>7 DEF StartRefinement, Stop, Sort, input, env
<1>8. CASE UNCHANGED vars
  BY <1>2, <1>8 DEF vars, input, env
<1> QED
  BY <1>3, <1>4, <1>5, <1>6, <1>7, <1>8 DEF Next

\* As long as no agent gets a goal that cannot be reached from its start, the searches end with
\* a path: none improves a node that it has expanded, none runs out of nodes, and the planner
\* never ends the program.
THEOREM SearchNeverFails ==
  ASSUME GoalsReachable
  PROVE  Spec => []NeverExits
<1>1. Init => HomeInv
  BY HomeInit
<1>2. HomeInv /\ [Next]_vars => HomeInv'
  BY HomeNext
<1>3. ASSUME HomeInv PROVE NeverExits
  <2> SUFFICES ASSUME stage = "exited" PROVE FALSE
    BY DEF NeverExits
  <2>1. SearchInv /\ searching # None /\ searching \in Agent
    BY <1>3 DEF HomeInv, SearchInv, LeadInv, PathInv, TrafficInv
  <2>2. Reachable
    BY <1>3, <2>1 DEF HomeInv, Reachable
  <2> QED
    BY <2>1, <2>2 DEF SearchInv
<1> QED
  BY <1>1, <1>2, <1>3, PTL DEF Spec

-----------------------------------------------------------------------------
(* What ways cost.                                                         *)

CostsIn(traffic) == [arc \in Arcs |-> Cost(traffic, arc)]

LEMMA CostIsNat ==
  ASSUME NEW traffic \in BackgroundFlows
  PROVE  \A arc \in Arcs : CostsIn(traffic)[arc] = Cost(traffic, arc) /\ Cost(traffic, arc) \in Nat
<1> SUFFICES ASSUME NEW arc \in Arcs PROVE Cost(traffic, arc) \in Nat
  BY DEF CostsIn
<1> DEFINE d == get_d(arc[1] - arc[2])
           here == traffic[arc[1]]
           there == traffic[arc[2]]
<1>1. traffic \in [Cell -> [0 .. 3 -> Nat]] /\ arc[1] \in Cell /\ arc[2] \in Cell
  BY BackgroundFlowsAssumption, ArcsFinite DEF Free
<1>2. here \in [0 .. 3 -> Nat] /\ there \in [0 .. 3 -> Nat]
  BY <1>1
<1>3. d \in 0 .. 3 /\ (d + 2) % 4 \in 0 .. 3
  <2>1. d \in {0, 1, 2, 3}
    BY DEF get_d
  <2> HIDE DEF d
  <2> QED
    BY <2>1
<1>4. SumOn(there, 0 .. 3) \in Nat
  <2>1. IsFiniteSet(0 .. 3)
    <3>1. 0 \in Int /\ 3 \in Int
      OBVIOUS
    <3> QED
      BY <3>1, FS_Interval
  <2>2. \A j \in 0 .. 3 : there[j] \in Nat
    BY <1>2
  <2> HIDE DEF there
  <2> QED
    BY <2>1, <2>2, SumNat
<1>5. Cost(traffic, arc) = 1 + (here[d] + 1) * there[(d + 2) % 4] + SumOn(there, 0 .. 3) \div 2
  BY DEF Cost, SumOn
<1>6. here[d] \in Nat /\ there[(d + 2) % 4] \in Nat
  BY <1>2, <1>3
<1> HIDE DEF here, there, d
<1>7. (here[d] + 1) * there[(d + 2) % 4] \in Nat
  BY <1>6
<1>8. SumOn(there, 0 .. 3) \div 2 \in Nat
  BY <1>4
<1> QED
  BY <1>5, <1>7, <1>8

LEMMA WayCosts ==
  ASSUME NEW traffic \in BackgroundFlows, NEW path, SimplePath(path)
  PROVE  /\ ArcsOf(path) \subseteq Arcs /\ IsFiniteSet(ArcsOf(path))
         /\ WayCost(traffic, path) = SumOn(CostsIn(traffic), ArcsOf(path))
         /\ WayCost(traffic, path) \in Nat
<1>1. ArcsOf(path) \subseteq Arcs
  BY DEF SimplePath, ArcsOf
<1>2. IsFiniteSet(ArcsOf(path))
  BY <1>1, ArcsFinite, FS_Subset
<1>3. WayCost(traffic, path) = SumOn(CostsIn(traffic), ArcsOf(path))
  BY DEF WayCost, SumOn, CostsIn
<1>4. \A arc \in ArcsOf(path) : CostsIn(traffic)[arc] \in Nat
  BY <1>1, CostIsNat
<1>5. SumOn(CostsIn(traffic), ArcsOf(path)) \in Nat
  BY <1>2, <1>4, SumNat
<1> QED
  BY <1>1, <1>2, <1>3, <1>5

-----------------------------------------------------------------------------
(* Distances.                                                              *)

Joined(from, to) == PathsBetween[from][to] # {}

\* Where there is a path there is a cheapest one, and they all have the same cost.
LEMMA DistanceIs ==
  ASSUME NEW traffic \in BackgroundFlows, NEW from \in Free, NEW to \in Free, Joined(from, to)
  PROVE  /\ CheapestPaths[traffic][from][to] # {}
         /\ Distances[traffic][from][to] \in Nat
         /\ \A path \in PathsBetween[from][to] : /\ SimplePath(path)
                                                 /\ Distances[traffic][from][to] <= WayCost(traffic, path)
         /\ \A path \in CheapestPaths[traffic][from][to] :
              /\ path \in PathsBetween[from][to]
              /\ Distances[traffic][from][to] = WayCost(traffic, path)
<1> DEFINE between == PathsBetween[from][to]
           cost == [path \in between |-> WayCost(traffic, path)]
           cheapest == CheapestPaths[traffic][from][to]
<1>1. \A path \in between : SimplePath(path) /\ WayCost(traffic, path) \in Nat
  BY AllPathsBetween, WayCosts
<1>2. cheapest = {path \in between : \A other \in between : WayCost(traffic, path) <= WayCost(traffic, other)}
  BY DEF CheapestPaths
<1>3. Distances[traffic][from][to] = WayCost(traffic, CHOOSE path \in cheapest : TRUE)
  BY DEF Distances, Joined
<1>4. between # {}
  BY DEF Joined
<1> HIDE DEF between, cheapest
<1>5. cheapest # {}
  <2> DEFINE Costs == {WayCost(traffic, path) : path \in between}
  <2>1. Costs \in SUBSET Nat /\ Costs # {}
    BY <1>1, <1>4
  <2> HIDE DEF Costs
  <2>2. PICK least \in Costs : \A c \in Costs : least <= c
    BY <2>1, LeastNat
  <2>3. PICK path \in between : least = WayCost(traffic, path)
    BY <2>2 DEF Costs
  <2>4. \A other \in between : WayCost(traffic, other) \in Costs
    BY DEF Costs
  <2> QED
    BY <1>2, <2>2, <2>3, <2>4
<1>6. (CHOOSE path \in cheapest : TRUE) \in cheapest
  BY <1>5
<1> DEFINE one == CHOOSE path \in cheapest : TRUE
<1> HIDE DEF one
<1>7. one \in between /\ \A other \in between : WayCost(traffic, one) <= WayCost(traffic, other)
  BY <1>2, <1>6 DEF one
<1>8. Distances[traffic][from][to] = WayCost(traffic, one)
  BY <1>3 DEF one
<1>9. \A path \in cheapest : path \in between /\ WayCost(traffic, path) <= WayCost(traffic, one)
  BY <1>2, <1>7
<1>10. \A path \in cheapest : WayCost(traffic, path) = WayCost(traffic, one)
  BY <1>1, <1>7, <1>9
<1> QED
  BY <1>1, <1>5, <1>7, <1>8, <1>9, <1>10 DEF between, cheapest

LEMMA NoDistance ==
  ASSUME NEW traffic \in BackgroundFlows, NEW c \in Free
  PROVE  Joined(c, c) /\ Distances[traffic][c][c] = 0
<1> DEFINE path == << c >>
<1>1. path \in Seq(Free) /\ Len(path) = 1 /\ path[1] = c
  OBVIOUS
<1> HIDE DEF path
<1>2. SimplePath(path)
  <2>1. \A j \in 1 .. Len(path) : j = 1
    BY <1>1
  <2>2. \A j \in 1 .. Len(path) - 1 : FALSE
    BY <1>1
  <2> QED
    BY <1>1, <2>1, <2>2 DEF SimplePath
<1>3. path \in PathsBetween[c][c]
  BY <1>1, <1>2, AllPathsBetween
<1>4. ArcsOf(path) = {}
  <2>1. \A j \in 1 .. Len(path) - 1 : FALSE
    BY <1>1
  <2> QED
    BY <2>1 DEF ArcsOf
<1>5. WayCost(traffic, path) = 0
  BY <1>2, <1>4, WayCosts, SumEmpty
<1>6. Joined(c, c)
  BY <1>3 DEF Joined
<1>7. Distances[traffic][c][c] \in Nat /\ Distances[traffic][c][c] <= 0
  BY <1>3, <1>5, <1>6, DistanceIs
<1> QED
  BY <1>6, <1>7

\* Who is led over one more arc has not come further from his cell than the arc costs.
LEMMA OneArcMore ==
  ASSUME NEW traffic \in BackgroundFlows, NEW from \in Free, NEW arc \in Arcs, Joined(from, arc[1])
  PROVE  /\ Joined(from, arc[2])
         /\ Distances[traffic][from][arc[2]] <= Distances[traffic][from][arc[1]] + Cost(traffic, arc)
<1> DEFINE here == arc[1]
           next == arc[2]
<1>1. here \in Free /\ next \in Free /\ arc = << here, next >>
  BY ArcsFinite
<1> HIDE DEF here, next
<1>2. Joined(from, here)
  BY DEF here
<1>3. PICK path \in CheapestPaths[traffic][from][here] : TRUE
  BY <1>1, <1>2, DistanceIs
<1>4. /\ SimplePath(path) /\ path[1] = from /\ path[Len(path)] = here
      /\ path \in Seq(Free) /\ Len(path) \in Nat /\ Len(path) >= 1
      /\ Distances[traffic][from][here] = WayCost(traffic, path)
  <2>1. path \in PathsBetween[from][here] /\ Distances[traffic][from][here] = WayCost(traffic, path)
    BY <1>1, <1>2, <1>3, DistanceIs
  <2>2. SimplePath(path) /\ path[1] = from /\ path[Len(path)] = here
    BY <1>1, <2>1, AllPathsBetween
  <2> QED
    BY <2>1, <2>2 DEF SimplePath
<1>5. /\ WayCost(traffic, path) = SumOn(CostsIn(traffic), ArcsOf(path)) /\ WayCost(traffic, path) \in Nat
      /\ ArcsOf(path) \subseteq Arcs /\ IsFiniteSet(ArcsOf(path))
  BY <1>4, WayCosts
<1>6. Cost(traffic, arc) \in Nat /\ CostsIn(traffic)[arc] = Cost(traffic, arc)
  BY CostIsNat
<1>7. ASSUME NEW other, SimplePath(other), other[1] = from, other[Len(other)] = next,
             WayCost(traffic, other) <= WayCost(traffic, path) + Cost(traffic, arc)
      PROVE  /\ Joined(from, next)
             /\ Distances[traffic][from][next] <= Distances[traffic][from][here] + Cost(traffic, arc)
  <2>1. other \in PathsBetween[from][next]
    <3>1. other \in Seq(Free)
      BY <1>7 DEF SimplePath
    <3> QED
      BY <1>1, <1>7, <3>1, AllPathsBetween
  <2>2. Joined(from, next)
    BY <2>1 DEF Joined
  <2>3. Distances[traffic][from][next] \in Nat /\ Distances[traffic][from][next] <= WayCost(traffic, other)
    BY <1>1, <2>1, <2>2, DistanceIs
  <2>4. WayCost(traffic, other) \in Nat
    BY <1>7, WayCosts
  <2> QED
    BY <1>4, <1>5, <1>6, <1>7, <2>2, <2>3, <2>4
<1>8. CASE \A k \in 1 .. Len(path) : path[k] # next
  <2> DEFINE other == Append(path, next)
  <2>1. /\ SimplePath(other) /\ Len(other) = Len(path) + 1
        /\ \A k \in 1 .. Len(path) : other[k] = path[k]
        /\ other[Len(path) + 1] = next
    BY <1>1, <1>4, <1>8, LongerIsPath
  <2> HIDE DEF other
  <2>2. ArcsOf(other) = ArcsOf(path) \cup {arc}
    <3>1. ASSUME NEW k \in 1 .. Len(other) - 1
          PROVE  << other[k], other[k + 1] >> \in ArcsOf(path) \cup {arc}
      <4>1. CASE k = Len(path)
        <5>1. k \in 1 .. Len(path)
          BY <1>4, <4>1
        <5> QED
          BY <1>1, <1>4, <2>1, <4>1, <5>1
      <4>2. CASE k # Len(path)
        <5>1. k \in 1 .. Len(path) - 1 /\ k \in 1 .. Len(path) /\ k + 1 \in 1 .. Len(path)
          BY <1>4, <2>1, <4>2
        <5> QED
          BY <2>1, <5>1 DEF ArcsOf
      <4> QED
        BY <4>1, <4>2
    <3>2. ASSUME NEW k \in 1 .. Len(path) - 1
          PROVE  << path[k], path[k + 1] >> \in ArcsOf(other)
      <4>1. k \in 1 .. Len(other) - 1 /\ k \in 1 .. Len(path) /\ k + 1 \in 1 .. Len(path)
        BY <1>4, <2>1
      <4>2. path[k] = other[k] /\ path[k + 1] = other[k + 1]
        BY <2>1, <4>1
      <4> QED
        BY <4>1, <4>2 DEF ArcsOf
    <3>3. arc \in ArcsOf(other)
      <4>1. Len(path) \in 1 .. Len(other) - 1 /\ Len(path) \in 1 .. Len(path)
        BY <1>4, <2>1
      <4>2. other[Len(path)] = here /\ other[Len(path) + 1] = next
        BY <1>4, <2>1, <4>1
      <4> QED
        BY <1>1, <4>1, <4>2 DEF ArcsOf
    <3>4. ArcsOf(other) \subseteq ArcsOf(path) \cup {arc}
      BY <3>1 DEF ArcsOf
    <3>5. ArcsOf(path) \subseteq ArcsOf(other)
      BY <3>2 DEF ArcsOf
    <3> QED
      BY <3>3, <3>4, <3>5
  <2>3. arc \notin ArcsOf(path)
    <3>1. \A k \in 1 .. Len(path) - 1 : k + 1 \in 1 .. Len(path)
      BY <1>4
    <3>2. \A k \in 1 .. Len(path) - 1 : << path[k], path[k + 1] >> # arc
      BY <1>1, <1>8, <3>1
    <3> QED
      BY <3>2 DEF ArcsOf
  <2>4. WayCost(traffic, other) = Cost(traffic, arc) + WayCost(traffic, path)
    <3> DEFINE S == ArcsOf(path) \cup {arc}
    <3>1. IsFiniteSet(S) /\ arc \in S /\ S \ {arc} = ArcsOf(path)
      BY <1>5, <2>3, FS_AddElement
    <3>2. \A a \in S : CostsIn(traffic)[a] \in Int
      BY <1>5, CostIsNat
    <3> HIDE DEF S
    <3>3. SumOn(CostsIn(traffic), S) = CostsIn(traffic)[arc] + SumOn(CostsIn(traffic), S \ {arc})
      BY <3>1, <3>2, SumRemove
    <3>4. WayCost(traffic, other) = SumOn(CostsIn(traffic), S)
      BY <2>1, <2>2, WayCosts DEF S
    <3> QED
      BY <1>5, <1>6, <3>1, <3>3, <3>4
  <2>5. other[1] = from /\ other[Len(other)] = next
    <3>1. 1 \in 1 .. Len(path)
      BY <1>4
    <3> QED
      BY <1>4, <2>1, <3>1
  <2> QED
    BY <1>5, <1>6, <1>7, <2>1, <2>4, <2>5 DEF here, next
<1>9. CASE \E k \in 1 .. Len(path) : path[k] = next
  <2>1. PICK j \in 1 .. Len(path) : path[j] = next
    BY <1>9
  <2> DEFINE other == Start(path, j)
  <2>2. SimplePath(other) /\ Len(other) = j /\ \A k \in 1 .. j : other[k] = path[k]
    BY <1>4, StartIsPath
  <2> HIDE DEF other
  <2>3. other[1] = from /\ other[Len(other)] = next
    <3>1. 1 \in 1 .. j /\ j \in 1 .. j
      BY <1>4
    <3> QED
      BY <1>4, <2>1, <2>2, <3>1
  <2>4. ArcsOf(other) \subseteq ArcsOf(path)
    <3>1. \A k \in 1 .. j - 1 : k \in 1 .. Len(path) - 1 /\ k \in 1 .. j /\ k + 1 \in 1 .. j
      BY <1>4
    <3> QED
      BY <2>2, <3>1 DEF ArcsOf
  <2>5. WayCost(traffic, other) <= WayCost(traffic, path)
    <3>1. \A a \in ArcsOf(path) : CostsIn(traffic)[a] \in Nat
      BY <1>5, CostIsNat
    <3>2. SumOn(CostsIn(traffic), ArcsOf(other)) <= SumOn(CostsIn(traffic), ArcsOf(path))
      BY <1>5, <2>4, <3>1, SumNat
    <3>3. WayCost(traffic, other) = SumOn(CostsIn(traffic), ArcsOf(other))
      BY <2>2, WayCosts
    <3> QED
      BY <1>5, <3>2, <3>3
  <2>6. WayCost(traffic, other) \in Nat
    BY <2>2, WayCosts
  <2> QED
    BY <1>5, <1>6, <1>7, <2>2, <2>3, <2>5, <2>6 DEF here, next
<1> QED
  BY <1>8, <1>9

-----------------------------------------------------------------------------
(* The flow of paths.                                                      *)

Keys == Arcs \cup (Free \X {Sink})

Leaving(c)  == {k \in Keys : k[1] = c}
Entering(c) == {k \in Keys : k[2] = c}

LEMMA WorkersFinite == IsFiniteSet(Worker) /\ NumWorkers \in Nat \ {0} /\ 1 \in Worker
<1>1. NumWorkers \in Nat \ {0}
  BY WorkersAssumption, TeamAssumption
<1>2. 1 \in Int /\ NumWorkers \in Int
  BY <1>1
<1> QED
  BY <1>1, <1>2, FS_Interval DEF Worker

LEMMA KeysFinite ==
  /\ IsFiniteSet(Keys)
  /\ \A k \in Keys : k = << k[1], k[2] >> /\ k[1] \in Free /\ (k \in Arcs \/ k[2] = Sink)
  /\ \A k \in Arcs : k \in Keys /\ k[2] \in Free /\ k[2] # Sink
  /\ \A c \in Free : << c, Sink >> \in Keys /\ << c, Sink >> \notin Arcs
  /\ \A c \in Free : IsFiniteSet(Leaving(c)) /\ IsFiniteSet(Entering(c))
<1>1. IsFiniteSet(Free \X {Sink})
  BY FreeFinite, FS_Singleton, FS_Product
<1>2. IsFiniteSet(Keys)
  BY <1>1, ArcsFinite, FS_Union DEF Keys
<1>3. Sink \notin Free
  BY FreeFinite DEF Sink
<1>4. \A k \in Arcs : k \in Keys /\ k[2] \in Free /\ k[2] # Sink
  BY <1>3, ArcsFinite DEF Keys
<1>5. \A k \in Free \X {Sink} : k = << k[1], k[2] >> /\ k[1] \in Free /\ k[2] = Sink
  OBVIOUS
<1>6. \A k \in Keys : k = << k[1], k[2] >> /\ k[1] \in Free /\ (k \in Arcs \/ k[2] = Sink)
  BY <1>5, ArcsFinite DEF Keys
<1>7. \A c \in Free : << c, Sink >> \in Keys /\ << c, Sink >> \notin Arcs
  <2> SUFFICES ASSUME NEW c \in Free
               PROVE  << c, Sink >> \in Keys /\ << c, Sink >> \notin Arcs
    OBVIOUS
  <2> DEFINE k == << c, Sink >>
  <2>1. k[2] = Sink /\ k \in Free \X {Sink}
    OBVIOUS
  <2> HIDE DEF k
  <2>2. k \in Keys /\ k \notin Arcs
    BY <1>4, <2>1 DEF Keys
  <2> QED
    BY <2>2 DEF k
<1>8. \A c \in Free : IsFiniteSet(Leaving(c)) /\ IsFiniteSet(Entering(c))
  <2>1. \A c \in Free : Leaving(c) \subseteq Keys /\ Entering(c) \subseteq Keys
    BY DEF Leaving, Entering
  <2> QED
    BY <1>2, <2>1, FS_Subset
<1> QED
  BY <1>2, <1>4, <1>6, <1>7, <1>8

LEMMA CarriedKeys ==
  ASSUME NEW path, SimplePath(path)
  PROVE  /\ Carried(path) \subseteq Keys /\ IsFiniteSet(Carried(path)) /\ path[Len(path)] \in Free
         /\ Carried(path) = ArcsOf(path) \cup {<< path[Len(path)], Sink >>}
         /\ ArcsOf(path) \subseteq Arcs
<1>1. path[Len(path)] \in Free
  BY DEF SimplePath
<1>2. ArcsOf(path) \subseteq Arcs
  BY DEF SimplePath, ArcsOf
<1>3. Carried(path) = ArcsOf(path) \cup {<< path[Len(path)], Sink >>}
  BY DEF Carried, Last
<1>4. Carried(path) \subseteq Keys
  BY <1>1, <1>2, <1>3, KeysFinite
<1> QED
  BY <1>1, <1>2, <1>3, <1>4, KeysFinite, FS_Subset

\* A path leaves a cell as often as it enters it, but for its first cell.
LEMMA InAndOut ==
  ASSUME NEW path, SimplePath(path), NEW c \in Free
  PROVE  Cardinality(Leaving(c) \cap Carried(path))
           = Cardinality(Entering(c) \cap Carried(path)) + (IF path[1] = c THEN 1 ELSE 0)
<1> DEFINE out == Leaving(c) \cap Carried(path)
           in  == Entering(c) \cap Carried(path)
           sink == << path[Len(path)], Sink >>
           arc == [k \in 1 .. Len(path) - 1 |-> << path[k], path[k + 1] >>]
<1>1. /\ path \in Seq(Free) /\ Len(path) \in Nat /\ Len(path) >= 1
      /\ \A j, k \in 1 .. Len(path) : path[j] = path[k] => j = k
      /\ \A k \in 1 .. Len(path) : path[k] \in Free
  BY DEF SimplePath
<1>2. /\ Carried(path) \subseteq Keys
      /\ \A x : x \in Carried(path) <=> x = sink \/ \E k \in 1 .. Len(path) - 1 : x = arc[k]
  BY CarriedKeys DEF ArcsOf
<1>3. \A k \in 1 .. Len(path) - 1 :
        arc[k][1] = path[k] /\ arc[k][2] = path[k + 1] /\ k \in 1 .. Len(path) /\ k + 1 \in 1 .. Len(path)
  BY <1>1
<1>4. sink[1] = path[Len(path)] /\ sink[2] = Sink /\ Len(path) \in 1 .. Len(path) /\ Sink \notin Free
  BY <1>1, FreeFinite DEF Sink
<1>5. \A x : x \in out <=> x[1] = c /\ x \in Carried(path)
  BY <1>2 DEF Leaving
<1>6. \A x : x \in in <=> x[2] = c /\ x \in Carried(path)
  BY <1>2 DEF Entering
<1> HIDE DEF out, in, sink, arc
<1>7. CASE \A k \in 1 .. Len(path) : path[k] # c
  <2>1. out = {}
    BY <1>2, <1>3, <1>4, <1>5, <1>7
  <2>2. in = {}
    BY <1>2, <1>3, <1>4, <1>6, <1>7
  <2>3. path[1] # c
    BY <1>1, <1>7
  <2> QED
    BY <2>1, <2>2, <2>3, FS_EmptySet DEF out, in
<1>8. ASSUME NEW i \in 1 .. Len(path), path[i] = c
      PROVE  Cardinality(out) = Cardinality(in) + (IF path[1] = c THEN 1 ELSE 0)
  <2>1. \A k \in 1 .. Len(path) : path[k] = c => k = i
    BY <1>1, <1>8
  <2>2. Cardinality(out) = 1
    <3>1. CASE i = Len(path)
      <4>1. \A x : x \in out <=> x = sink
        <5>1. \A k \in 1 .. Len(path) - 1 : arc[k][1] # c
          BY <1>1, <1>3, <2>1, <3>1
        <5> QED
          BY <1>2, <1>4, <1>5, <1>8, <3>1, <5>1
      <4>2. out = {sink}
        BY <4>1
      <4> QED
        BY <4>2, FS_Singleton
    <3>2. CASE i # Len(path)
      <4>1. \A x : x \in out <=> x = arc[i]
        <5>1. i \in 1 .. Len(path) - 1
          BY <1>1, <3>2
        <5>2. \A k \in 1 .. Len(path) - 1 : arc[k][1] = c <=> k = i
          BY <1>3, <1>8, <2>1
        <5>3. sink[1] # c
          BY <1>4, <2>1, <3>2
        <5> QED
          BY <1>2, <1>5, <5>1, <5>2, <5>3
      <4>2. out = {arc[i]}
        BY <4>1
      <4> QED
        BY <4>2, FS_Singleton
    <3> QED
      BY <3>1, <3>2
  <2>3. CASE i = 1
    <3>1. in = {}
      <4>1. \A k \in 1 .. Len(path) - 1 : arc[k][2] # c
        <5>1. \A k \in 1 .. Len(path) - 1 : k + 1 # 1
          BY <1>1
        <5> QED
          BY <1>3, <2>1, <2>3, <5>1
      <4>2. sink[2] # c
        BY <1>4
      <4> QED
        BY <1>2, <1>6, <4>1, <4>2
    <3> QED
      BY <1>8, <2>2, <2>3, <3>1, FS_EmptySet
  <2>4. CASE i # 1
    <3>1. i - 1 \in 1 .. Len(path) - 1 /\ (i - 1) + 1 = i
      BY <1>1, <2>4
    <3>2. \A x : x \in in <=> x = arc[i - 1]
      <4>1. \A k \in 1 .. Len(path) - 1 : arc[k][2] = c => k = i - 1
        <5>1. \A k \in 1 .. Len(path) - 1 : k + 1 = i => k = i - 1
          BY <1>1
        <5> QED
          BY <1>3, <2>1, <5>1
      <4>2. arc[i - 1][2] = c
        BY <1>3, <1>8, <3>1
      <4>3. sink[2] # c
        BY <1>4
      <4> QED
        BY <1>2, <1>6, <3>1, <4>1, <4>2, <4>3
    <3>3. in = {arc[i - 1]}
      BY <3>2
    <3>4. path[1] # c
      BY <1>1, <2>1, <2>4
    <3> QED
      <4>1. Cardinality(in) = 1
        BY <3>3, FS_Singleton
      <4> QED
        BY <2>2, <3>4, <4>1
  <2> QED
    BY <2>3, <2>4
<1> QED
  BY <1>7, <1>8 DEF out, in

\* What a path contributes to the keys that it uses.
Share(path, price, K) == [k \in K |-> IF k \in Carried(path) THEN price[k] ELSE 0]

\* What a flow of paths adds up to over some keys: what the paths do, one by one.
LEMMA FlowSum ==
  ASSUME NEW routes, NEW K \in SUBSET Keys,
         NEW price, \A k \in K : price[k] \in Int,
         NEW priced, \A k \in K : priced[k] = price[k] * FlowOf(routes)[k],
         NEW share, \A w \in Worker :
           share[w] = SumOn(Share(routes[w], price, K), K)
  PROVE  SumOn(priced, K) = SumOn(share, Worker)
<1> DEFINE m == [w \in Worker |-> Share(routes[w], price, K)]
<1>1. IsFiniteSet(K)
  BY KeysFinite, FS_Subset
<1>2. \A w \in Worker, k \in K : m[w][k] \in Int
  BY DEF Share
<1>3. \A w \in Worker : share[w] = SumOn(m[w], K)
  OBVIOUS
<1>4. ASSUME NEW k \in K
      PROVE  priced[k] = SumOn(Column(m, Worker, k), Worker)
  <2> DEFINE h == Column(m, Worker, k)
             T == {w \in Worker : k \in Carried(routes[w])}
  <2>1. T \in SUBSET Worker /\ \A w \in Worker : h[w] = IF w \in T THEN price[k] ELSE 0
    BY DEF Share, Column
  <2>2. FlowOf(routes)[k] = Cardinality(T)
    BY DEF FlowOf, Keys
  <2> HIDE DEF h, T, m
  <2>3. SumOn(h, Worker) = price[k] * Cardinality(T)
    BY <2>1, WorkersFinite, SumOfEqual
  <2> QED
    BY <2>2, <2>3 DEF h
<1> HIDE DEF m
<1>5. SumOn(share, Worker) = SumOn(priced, K)
  BY <1>1, <1>2, <1>3, <1>4, WorkersFinite, SumSwap
<1> QED
  BY <1>5

-----------------------------------------------------------------------------
(* The flow at the start.                                                  *)

Had(c)   == IF c \in DOMAIN flexible_tasks THEN flexible_tasks[c] ELSE 0
Price    == [k \in Keys |-> IF k \in Arcs THEN Cost(background_flow, k) ELSE 0]

\* What the flow that is not used up costs.
FlowCost(f) == SumOn([k \in Keys |-> Price[k] * f[k]], Keys)

Problem ==
  /\ background_flow \in BackgroundFlows
  /\ start_locations \in Injection(Worker, Free)
  /\ flexible_tasks \in Workloads

LEMMA ProblemTypes ==
  ASSUME Problem
  PROVE  /\ \A w \in Worker : start_locations[w] \in Free
         /\ \A v, w \in Worker : start_locations[v] = start_locations[w] => v = w
         /\ DOMAIN flexible_tasks \subseteq Free
         /\ \A c \in DOMAIN flexible_tasks : flexible_tasks[c] \in Nat \ {0}
         /\ \A c \in Free : Had(c) \in Nat
         /\ \A k \in Keys : Price[k] \in Nat
         /\ \A k \in Arcs : Price[k] = Cost(background_flow, k)
<1>1. /\ \A w \in Worker : start_locations[w] \in Free
      /\ \A v, w \in Worker : start_locations[v] = start_locations[w] => v = w
  BY DEF Problem, Injection, IsInjective
<1>2. DOMAIN flexible_tasks \subseteq Free /\ \A c \in DOMAIN flexible_tasks : flexible_tasks[c] \in Nat \ {0}
  BY WorkloadsAssumption DEF Problem
<1>3. \A c \in Free : Had(c) \in Nat
  BY <1>2 DEF Had
<1>4. \A k \in Arcs : k \in Keys /\ Price[k] = Cost(background_flow, k)
  BY KeysFinite DEF Price
<1>5. \A k \in Keys : Price[k] \in Nat
  BY CostIsNat DEF Price, Problem
<1> QED
  BY <1>1, <1>2, <1>3, <1>4, <1>5

\* The paths that a cheapest flow is made of.
LEMMA ThePaths ==
  ASSUME Problem, NEW ends \in Matchings, NEW routes \in PathsOf(ends)
  PROVE  \A w \in Worker :
           /\ ends[w] \in DOMAIN flexible_tasks /\ ends[w] \in Free
           /\ Joined(start_locations[w], ends[w])
           /\ SimplePath(routes[w]) /\ routes[w][1] = start_locations[w] /\ routes[w][Len(routes[w])] = ends[w]
           /\ WayCost(background_flow, routes[w]) = Distances[background_flow][start_locations[w]][ends[w]]
<1> SUFFICES ASSUME NEW w \in Worker
             PROVE  /\ ends[w] \in DOMAIN flexible_tasks /\ ends[w] \in Free
                    /\ Joined(start_locations[w], ends[w])
                    /\ SimplePath(routes[w]) /\ routes[w][1] = start_locations[w]
                    /\ routes[w][Len(routes[w])] = ends[w]
                    /\ WayCost(background_flow, routes[w])
                         = Distances[background_flow][start_locations[w]][ends[w]]
  OBVIOUS
<1> DEFINE from == start_locations[w]
           to   == ends[w]
           path == routes[w]
<1>1. to \in DOMAIN flexible_tasks
  BY DEF Matchings
<1>2. from \in Free /\ to \in Free /\ background_flow \in BackgroundFlows
  BY <1>1, ProblemTypes DEF Problem
<1>3. path \in CheapestPaths[background_flow][from][to]
  BY DEF PathsOf, PathsTo
<1>4. path \in PathsBetween[from][to]
  <2>1. CheapestPaths[background_flow][from][to] \subseteq PathsBetween[from][to]
    BY <1>2 DEF CheapestPaths
  <2> QED
    BY <1>3, <2>1
<1>5. Joined(from, to)
  BY <1>4 DEF Joined
<1> HIDE DEF from, to, path
<1>6. WayCost(background_flow, path) = Distances[background_flow][from][to]
  BY <1>2, <1>3, <1>5, DistanceIs
<1>7. SimplePath(path) /\ path[1] = from /\ path[Len(path)] = to
  BY <1>2, <1>4, AllPathsBetween
<1> QED
  BY <1>1, <1>2, <1>5, <1>6, <1>7 DEF from, to, path

LEMMA FlowType ==
  ASSUME NEW routes
  PROVE  /\ FlowOf(routes) \in [Keys -> Nat]
         /\ \A k \in Keys : FlowOf(routes)[k] = Cardinality({w \in Worker : k \in Carried(routes[w])})
<1>1. FlowOf(routes) = [k \in Keys |-> Cardinality({w \in Worker : k \in Carried(routes[w])})]
  BY DEF FlowOf, Keys
<1>2. \A k \in Keys : Cardinality({w \in Worker : k \in Carried(routes[w])}) \in Nat
  <2> SUFFICES ASSUME NEW k \in Keys
               PROVE  Cardinality({w \in Worker : k \in Carried(routes[w])}) \in Nat
    OBVIOUS
  <2>1. {w \in Worker : k \in Carried(routes[w])} \subseteq Worker
    OBVIOUS
  <2> QED
    BY <2>1, WorkersFinite, FS_Subset, FS_CardinalityType
<1> QED
  BY <1>1, <1>2

\* No more ends in a cell than it has tasks.
LEMMA EndsFit ==
  ASSUME Problem, NEW ends \in Matchings, NEW routes \in PathsOf(ends), NEW c \in Free
  PROVE  FlowOf(routes)[<< c, Sink >>] <= Had(c)
<1> DEFINE k == << c, Sink >>
           T == {w \in Worker : k \in Carried(routes[w])}
           E == {w \in Worker : ends[w] = c}
<1>1. k \in Keys /\ k \notin Arcs
  BY KeysFinite
<1>2. \A d \in Free : k = << d, Sink >> => d = c
  OBVIOUS
<1> HIDE DEF k
<1>3. T \subseteq E
  <2> SUFFICES ASSUME NEW w \in Worker, k \in Carried(routes[w]) PROVE ends[w] = c
    OBVIOUS
  <2>1. SimplePath(routes[w]) /\ routes[w][Len(routes[w])] = ends[w] /\ ends[w] \in Free
    BY ThePaths
  <2>2. Carried(routes[w]) = ArcsOf(routes[w]) \cup {<< ends[w], Sink >>} /\ ArcsOf(routes[w]) \subseteq Arcs
    BY <2>1, CarriedKeys
  <2>3. k = << ends[w], Sink >>
    BY <1>1, <2>2
  <2> QED
    BY <1>2, <2>1, <2>3
<1>4. FlowOf(routes)[k] = Cardinality(T)
  BY <1>1, FlowType
<1> HIDE DEF T
<1>5. IsFiniteSet(E) /\ Cardinality(T) <= Cardinality(E) /\ Cardinality(T) \in Nat /\ Cardinality(E) \in Nat
  <2>1. E \subseteq Worker
    OBVIOUS
  <2> HIDE DEF E
  <2>2. IsFiniteSet(E)
    BY <2>1, WorkersFinite, FS_Subset
  <2>3. IsFiniteSet(T) /\ Cardinality(T) <= Cardinality(E)
    BY <1>3, <2>2, FS_Subset
  <2> QED
    BY <2>2, <2>3, FS_CardinalityType
<1>6. CASE c \in DOMAIN flexible_tasks
  <2>1. Cardinality(E) <= flexible_tasks[c]
    BY <1>6 DEF Matchings
  <2>2. flexible_tasks[c] \in Nat
    BY <1>6, ProblemTypes
  <2> HIDE DEF E
  <2> QED
    BY <1>4, <1>5, <1>6, <2>1, <2>2 DEF Had, k
<1>7. CASE c \notin DOMAIN flexible_tasks
  <2>1. E = {}
    <3>1. \A w \in Worker : ends[w] \in DOMAIN flexible_tasks
      BY DEF Matchings
    <3> QED
      BY <1>7, <3>1
  <2> HIDE DEF E
  <2>2. Cardinality(E) = 0
    BY <2>1, FS_EmptySet
  <2> QED
    BY <1>4, <1>5, <1>7, <2>2 DEF Had, k
<1> QED
  BY <1>6, <1>7

\* The sum over the keys of K, when they all count alike.
LEMMA FlowThrough ==
  ASSUME NEW routes, NEW K \in SUBSET Keys,
         NEW share, \A w \in Worker : share[w] = Cardinality(K \cap Carried(routes[w]))
  PROVE  SumOn(FlowOf(routes), K) = SumOn(share, Worker)
<1> DEFINE price == [k \in K |-> 1]
<1>1. \A k \in K : price[k] = 1 /\ price[k] \in Int
  OBVIOUS
<1>2. \A k \in K : FlowOf(routes)[k] = price[k] * FlowOf(routes)[k]
  BY <1>1, FlowType
<1>3. ASSUME NEW w \in Worker
      PROVE  share[w] = SumOn(Share(routes[w], price, K), K)
  <2> DEFINE h == Share(routes[w], price, K)
             T == K \cap Carried(routes[w])
  <2>1. T \in SUBSET K /\ \A k \in K : h[k] = IF k \in T THEN 1 ELSE 0
    BY DEF Share
  <2>2. IsFiniteSet(K)
    BY KeysFinite, FS_Subset
  <2> HIDE DEF h, T
  <2>3. Cardinality(T) \in Nat /\ SumOn(h, K) = 1 * Cardinality(T)
    BY <2>1, <2>2, SumOfEqual
  <2>4. share[w] = Cardinality(T)
    BY DEF T
  <2>5. share[w] = SumOn(h, K)
    BY <2>3, <2>4
  <2> QED
    BY <2>5 DEF h
<1> HIDE DEF price
<1> QED
  BY <1>1, <1>2, <1>3, FlowSum

\* At the start the flow leaves a cell as often as it enters it, but for the workers there.
LEMMA FlowConserved ==
  ASSUME Problem, NEW ends \in Matchings, NEW routes \in PathsOf(ends), NEW c \in Free
  PROVE  SumOn(FlowOf(routes), Leaving(c))
           = SumOn(FlowOf(routes), Entering(c)) + (IF \E w \in Worker : start_locations[w] = c THEN 1 ELSE 0)
<1> DEFINE out == [w \in Worker |-> Cardinality(Leaving(c) \cap Carried(routes[w]))]
           in  == [w \in Worker |-> Cardinality(Entering(c) \cap Carried(routes[w]))]
           at  == [w \in Worker |-> IF start_locations[w] = c THEN 1 ELSE 0]
           T   == {w \in Worker : start_locations[w] = c}
<1>1. \A w \in Worker : out[w] = in[w] + at[w]
  <2> SUFFICES ASSUME NEW w \in Worker PROVE out[w] = in[w] + at[w]
    OBVIOUS
  <2>1. SimplePath(routes[w]) /\ routes[w][1] = start_locations[w]
    BY ThePaths
  <2>2. Cardinality(Leaving(c) \cap Carried(routes[w]))
          = Cardinality(Entering(c) \cap Carried(routes[w])) + (IF routes[w][1] = c THEN 1 ELSE 0)
    BY <2>1, InAndOut
  <2> QED
    BY <2>1, <2>2
<1>2. \A w \in Worker : in[w] \in Int /\ at[w] \in Int
  <2> SUFFICES ASSUME NEW w \in Worker PROVE in[w] \in Int
    OBVIOUS
  <2>1. IsFiniteSet(Carried(routes[w]))
    BY ThePaths, CarriedKeys
  <2>2. IsFiniteSet(Entering(c) \cap Carried(routes[w]))
    BY <2>1, FS_Subset
  <2> QED
    BY <2>2, FS_CardinalityType
<1>3. Leaving(c) \in SUBSET Keys /\ Entering(c) \in SUBSET Keys
  BY DEF Leaving, Entering
<1>4. SumOn(FlowOf(routes), Leaving(c)) = SumOn(out, Worker)
  <2>1. \A w \in Worker : out[w] = Cardinality(Leaving(c) \cap Carried(routes[w]))
    OBVIOUS
  <2> HIDE DEF out
  <2> QED
    BY <1>3, <2>1, FlowThrough
<1>5. SumOn(FlowOf(routes), Entering(c)) = SumOn(in, Worker)
  <2>1. \A w \in Worker : in[w] = Cardinality(Entering(c) \cap Carried(routes[w]))
    OBVIOUS
  <2> HIDE DEF in
  <2> QED
    BY <1>3, <2>1, FlowThrough
<1>6. SumOn(at, Worker) = 1 * Cardinality(T) /\ Cardinality(T) \in Nat
  <2>1. T \in SUBSET Worker /\ \A w \in Worker : at[w] = IF w \in T THEN 1 ELSE 0
    OBVIOUS
  <2> HIDE DEF at, T
  <2> QED
    BY <2>1, WorkersFinite, SumOfEqual
<1>7. Cardinality(T) = IF \E w \in Worker : start_locations[w] = c THEN 1 ELSE 0
  <2>1. CASE \E w \in Worker : start_locations[w] = c
    <3>1. PICK w \in Worker : start_locations[w] = c
      BY <2>1
    <3>2. T = {w}
      BY <3>1, ProblemTypes
    <3> HIDE DEF T
    <3> QED
      BY <2>1, <3>2, FS_Singleton
  <2>2. CASE ~ \E w \in Worker : start_locations[w] = c
    <3>1. T = {}
      BY <2>2
    <3> HIDE DEF T
    <3> QED
      BY <2>2, <3>1, FS_EmptySet
  <2> QED
    BY <2>1, <2>2
<1> HIDE DEF out, in, at, T
<1>8. SumOn(out, Worker) = SumOn(in, Worker) + SumOn(at, Worker)
  BY <1>1, <1>2, WorkersFinite, SumPlus
<1> QED
  BY <1>4, <1>5, <1>6, <1>7, <1>8

\* What the flow costs is what the workers' distances add up to.
LEMMA FlowCosts ==
  ASSUME Problem, NEW ends \in Matchings, NEW routes \in PathsOf(ends)
  PROVE  FlowCost(FlowOf(routes)) = TotalDistance(ends)
<1> DEFINE priced == [k \in Keys |-> Price[k] * FlowOf(routes)[k]]
           distance == [w \in Worker |-> Distances[background_flow][start_locations[w]][ends[w]]]
<1>1. \A k \in Keys : Price[k] \in Int /\ priced[k] = Price[k] * FlowOf(routes)[k]
  BY ProblemTypes
<1>2. ASSUME NEW w \in Worker
      PROVE  distance[w] = SumOn(Share(routes[w], Price, Keys), Keys)
  <2> DEFINE h == Share(routes[w], Price, Keys)
             A == ArcsOf(routes[w])
  <2>1. SimplePath(routes[w]) /\ WayCost(background_flow, routes[w]) = distance[w]
    BY ThePaths
  <2>2. A \in SUBSET Keys /\ A \subseteq Arcs /\ IsFiniteSet(A)
    BY <2>1, CarriedKeys, ArcsFinite, FS_Subset, KeysFinite
  <2>3. /\ \A k \in Keys : h[k] \in Int
        /\ \A k \in Keys \ A : h[k] = 0
        /\ \A k \in A : h[k] = CostsIn(background_flow)[k]
    <3>1. \A k \in Keys : h[k] = IF k \in Carried(routes[w]) THEN Price[k] ELSE 0
      BY DEF Share
    <3>2. Carried(routes[w]) = A \cup {<< routes[w][Len(routes[w])], Sink >>} /\ routes[w][Len(routes[w])] \in Free
      BY <2>1, CarriedKeys
    <3>3. \A k \in Keys : k \notin Arcs => Price[k] = 0
      BY DEF Price
    <3>4. << routes[w][Len(routes[w])], Sink >> \notin Arcs
      BY <3>2, KeysFinite
    <3>5. \A k \in Arcs : Price[k] = CostsIn(background_flow)[k]
      BY ProblemTypes, CostIsNat DEF Problem
    <3> HIDE DEF h, A
    <3> QED
      BY <1>1, <2>2, <3>1, <3>2, <3>3, <3>4, <3>5
  <2> HIDE DEF h
  <2>4. SumOn(h, Keys) = SumOn(h, A)
    <3>1. \A k \in Keys \ A : h[k] <= 0
      BY <2>3
    <3> HIDE DEF A
    <3> QED
      BY <2>2, <2>3, <3>1, KeysFinite, SumSubset
  <2>5. SumOn(h, A) = SumOn(CostsIn(background_flow), A)
    <3> HIDE DEF A
    <3> QED
      BY <2>2, <2>3, SumCongruent
  <2>6. distance[w] = SumOn(CostsIn(background_flow), A)
    BY <2>1, WayCosts DEF Problem
  <2> QED
    BY <2>4, <2>5, <2>6 DEF h
<1>3. SumOn(priced, Keys) = SumOn(distance, Worker)
  <2> HIDE DEF priced, distance
  <2> QED
    BY <1>1, <1>2, FlowSum
<1>4. TotalDistance(ends) = SumOn(distance, Worker)
  BY DEF TotalDistance, SumOn
<1> QED
  BY <1>3, <1>4 DEF FlowCost

-----------------------------------------------------------------------------
(* The inductive invariant.                                                *)

Left(c)  == IF c \in DOMAIN task_loc_ids THEN task_loc_ids[c] ELSE 0
Taken(c) == Cardinality({w \in DOMAIN proposed : proposed[w] = c})

\* The workers in a cell who have still to go, in a cell or at their start.
Waiting(c) ==
  (IF worker \in Worker /\ current = c THEN 1 ELSE 0)
  + (IF \E w \in Worker : w > worker /\ start_locations[w] = c THEN 1 ELSE 0)

\* The workers before the current one.
Served == {w \in Worker : w < worker}

Reading ==
  /\ edge_flows \in [Keys -> Nat]
  /\ worker \in 1 .. NumWorkers + 1
  /\ worker \in Worker => current \in Free
  /\ DOMAIN task_loc_ids \subseteq DOMAIN flexible_tasks
  /\ \A c \in DOMAIN task_loc_ids : task_loc_ids[c] \in Nat \ {0}
  /\ proposed \in [Served -> DOMAIN flexible_tasks]

\* No task is taken twice or lost.
TasksCounted == \A c \in DOMAIN flexible_tasks : Taken(c) + Left(c) = flexible_tasks[c]

SinkFits == \A c \in Free : edge_flows[<< c, Sink >>] <= Had(c)

\* Out of every cell leads as much flow as leads into it, workers wait in it and have taken a
\* task in it.
Conserved ==
  \A c \in Free :
    SumOn(edge_flows, Leaving(c)) = SumOn(edge_flows, Entering(c)) + Waiting(c) + Taken(c)

\* Nobody is where he could not have come to.
WithinReach ==
  /\ \A w \in Served : Joined(start_locations[w], proposed[w])
  /\ worker \in Worker => Joined(start_locations[worker], current)

Walked == [w \in Served |-> Distances[background_flow][start_locations[w]][proposed[w]]]
Spent  == SumOn(Walked, Served)
Ahead  == IF worker \in Worker THEN Distances[background_flow][start_locations[worker]][current] ELSE 0

\* The distances so far and the flow that is left cost no more than any assignment.
WithinBudget ==
  \A ends \in Matchings : Spent + Ahead + FlowCost(edge_flows) <= TotalDistance(ends)

ReadInv == Problem /\ Reading /\ TasksCounted /\ SinkFits /\ Conserved /\ WithinReach /\ WithinBudget

Ways(ends) == [w \in Worker |-> Distances[background_flow][start_locations[w]][ends[w]]]

LEMMA TotalOfWays == \A ends : TotalDistance(ends) = SumOn(Ways(ends), Worker)
  BY DEF TotalDistance, SumOn, Ways

LEMMA SameProblem ==
  ASSUME UNCHANGED problem
  PROVE  /\ flexible_tasks' = flexible_tasks /\ start_locations' = start_locations
         /\ background_flow' = background_flow
         /\ Problem => Problem'
         /\ \A c \in Free : Had(c)' = Had(c)
         /\ \A f : FlowCost(f)' = FlowCost(f)
         /\ Matchings' = Matchings
         /\ \A ends \in Matchings : TotalDistance(ends)' = TotalDistance(ends)
<1>1. /\ flexible_tasks' = flexible_tasks /\ start_locations' = start_locations
      /\ background_flow' = background_flow
  BY DEF problem
<1>2. Problem => Problem'
  BY <1>1 DEF Problem
<1>3. \A c \in Free : Had(c)' = Had(c)
  BY <1>1 DEF Had
<1>4. Price' = Price
  BY <1>1 DEF Price
<1>5. \A f : FlowCost(f)' = FlowCost(f)
  BY <1>4 DEF FlowCost
<1>6. Matchings' = Matchings
  BY <1>1 DEF Matchings, PathsTo
<1>7. \A ends \in Matchings : TotalDistance(ends)' = TotalDistance(ends)
  <2>1. (\A ends : TotalDistance(ends) = SumOn(Ways(ends), Worker))'
    BY TotalOfWays, PTL
  <2>2. \A ends : Ways(ends)' = Ways(ends)
    BY <1>1 DEF Ways
  <2> QED
    BY <2>1, <2>2, TotalOfWays
<1> QED
  BY <1>1, <1>2, <1>3, <1>5, <1>6, <1>7

LEMMA ServedTypes ==
  ASSUME worker \in 1 .. NumWorkers + 1
  PROVE  /\ IsFiniteSet(Served) /\ worker \notin Served /\ Served \subseteq Worker
         /\ worker \in Worker <=> worker # NumWorkers + 1
         /\ worker = NumWorkers + 1 => Served = Worker
         /\ worker = 1 => Served = {}
<1>1. Served \subseteq Worker /\ worker \in Int /\ NumWorkers \in Nat \ {0}
  BY WorkersFinite DEF Served
<1>2. IsFiniteSet(Served)
  BY <1>1, WorkersFinite, FS_Subset
<1>3. worker \notin Served
  BY <1>1 DEF Served
<1>4. worker = NumWorkers + 1 => Served = Worker
  BY <1>1 DEF Served, Worker
<1>5. worker = 1 => Served = {}
  BY <1>1 DEF Served, Worker
<1> QED
  BY <1>1, <1>2, <1>3, <1>4, <1>5 DEF Worker

LEMMA TakenTypes ==
  ASSUME Reading, NEW c
  PROVE  /\ {w \in Served : proposed[w] = c} \subseteq Served
         /\ Taken(c) = Cardinality({w \in Served : proposed[w] = c})
         /\ IsFiniteSet({w \in Served : proposed[w] = c}) /\ Taken(c) \in Nat
<1>1. DOMAIN proposed = Served /\ worker \in 1 .. NumWorkers + 1
  BY DEF Reading
<1>2. {w \in Served : proposed[w] = c} \subseteq Served
  OBVIOUS
<1>3. Taken(c) = Cardinality({w \in Served : proposed[w] = c})
  BY <1>1 DEF Taken
<1>4. IsFiniteSet({w \in Served : proposed[w] = c})
  BY <1>1, <1>2, ServedTypes, FS_Subset
<1> QED
  BY <1>2, <1>3, <1>4, FS_CardinalityType

LEMMA FlowAtStart == FlowInit => ReadInv
<1> SUFFICES ASSUME FlowInit PROVE ReadInv
  OBVIOUS
<1>1. Problem /\ worker = 1 /\ worker \in 1 .. NumWorkers + 1 /\ 1 \in Worker /\ current = start_locations[1]
  BY WorkersFinite DEF FlowInit, Problem
<1>2. Served = {} /\ DOMAIN proposed = {} /\ proposed \in [Served -> DOMAIN flexible_tasks]
  BY <1>1, ServedTypes DEF FlowInit
<1>3. PICK ends \in CheapestMatchings : \E routes \in PathsOf(ends) : edge_flows = FlowOf(routes)
  BY DEF FlowInit, CheapestFlows
<1>4. PICK routes \in PathsOf(ends) : edge_flows = FlowOf(routes)
  BY <1>3
<1>5. ends \in Matchings /\ \A other \in Matchings : TotalDistance(ends) <= TotalDistance(other)
  BY DEF CheapestMatchings
<1>6. Reading
  <2>1. \A c \in DOMAIN task_loc_ids : task_loc_ids[c] \in Nat \ {0}
    BY <1>1, ProblemTypes DEF FlowInit
  <2>2. current \in Free
    BY <1>1, ProblemTypes
  <2>3. edge_flows \in [Keys -> Nat]
    BY <1>4, FlowType
  <2> QED
    BY <1>1, <1>2, <2>1, <2>2, <2>3 DEF Reading, FlowInit
<1>7. \A c : Taken(c) = 0
  BY <1>2, FS_EmptySet DEF Taken
<1>8. TasksCounted
  <2>1. \A c \in DOMAIN flexible_tasks : flexible_tasks[c] \in Nat
    BY <1>1, ProblemTypes
  <2> QED
    BY <1>7, <2>1 DEF TasksCounted, Left, FlowInit
<1>9. SinkFits
  BY <1>1, <1>4, <1>5, EndsFit DEF SinkFits
<1>10. Conserved
  <2> SUFFICES ASSUME NEW c \in Free
               PROVE  SumOn(edge_flows, Leaving(c)) = SumOn(edge_flows, Entering(c)) + Waiting(c) + Taken(c)
    BY DEF Conserved
  <2>1. Waiting(c) = IF \E w \in Worker : start_locations[w] = c THEN 1 ELSE 0
    <3>1. \A w \in Worker : w = 1 \/ w > 1
      BY WorkersFinite DEF Worker
    <3>2. \A w \in Worker : start_locations[w] = start_locations[1] => w = 1
      BY <1>1, ProblemTypes
    <3>3. ~ (1 > 1)
      OBVIOUS
    <3>4. CASE start_locations[1] = c
      BY <1>1, <3>2, <3>3, <3>4 DEF Waiting
    <3>5. CASE start_locations[1] # c
      BY <1>1, <3>1, <3>5 DEF Waiting
    <3> QED
      BY <3>4, <3>5
  <2>2. SumOn(edge_flows, Leaving(c))
          = SumOn(edge_flows, Entering(c)) + (IF \E w \in Worker : start_locations[w] = c THEN 1 ELSE 0)
    BY <1>1, <1>4, <1>5, FlowConserved
  <2>3. SumOn(edge_flows, Entering(c)) \in Nat
    <3>1. \A k \in Entering(c) : edge_flows[k] \in Nat
      BY <1>6 DEF Reading, Entering
    <3> QED
      BY <3>1, KeysFinite, SumNat
  <2> HIDE DEF Reading
  <2> QED
    BY <1>7, <2>1, <2>2, <2>3
<1>11. start_locations[1] \in Free /\ background_flow \in BackgroundFlows
  BY <1>1, ProblemTypes DEF Problem
<1>12. WithinReach
  BY <1>1, <1>2, <1>11, NoDistance DEF WithinReach
<1>13. Spent = 0 /\ Ahead = 0
  BY <1>1, <1>2, <1>11, NoDistance, SumEmpty DEF Spent, Ahead
<1>14. WithinBudget
  <2> SUFFICES ASSUME NEW other \in Matchings
               PROVE  Spent + Ahead + FlowCost(edge_flows) <= TotalDistance(other)
    BY DEF WithinBudget
  <2>1. FlowCost(edge_flows) = TotalDistance(ends)
    BY <1>1, <1>4, <1>5, FlowCosts
  <2>2. FlowCost(edge_flows) \in Int
    <3> DEFINE priced == [k \in Keys |-> Price[k] * edge_flows[k]]
    <3>1. \A k \in Keys : priced[k] \in Int
      <4>1. \A k \in Keys : Price[k] \in Nat /\ edge_flows[k] \in Nat
        BY <1>1, <1>6, ProblemTypes DEF Reading
      <4> QED
        BY <4>1
    <3> HIDE DEF priced
    <3>2. SumOn(priced, Keys) \in Int
      BY <3>1, KeysFinite, SumType
    <3> QED
      BY <3>2 DEF FlowCost, priced
  <2>3. TotalDistance(ends) <= TotalDistance(other)
    BY <1>5
  <2> QED
    BY <1>13, <2>1, <2>2, <2>3
<1> QED
  BY <1>1, <1>6, <1>8, <1>9, <1>10, <1>12, <1>14 DEF ReadInv

\* The parts of the budget are numbers.
LEMMA BudgetTypes ==
  ASSUME ReadInv
  PROVE  /\ Spent \in Nat /\ Ahead \in Nat /\ FlowCost(edge_flows) \in Nat
         /\ \A c \in Free : /\ SumOn(edge_flows, Leaving(c)) \in Nat
                            /\ SumOn(edge_flows, Entering(c)) \in Nat
                            /\ Waiting(c) \in Nat /\ Taken(c) \in Nat
<1>1. /\ Problem /\ Reading /\ WithinReach /\ background_flow \in BackgroundFlows
      /\ edge_flows \in [Keys -> Nat] /\ worker \in 1 .. NumWorkers + 1
      /\ \A w \in Served : proposed[w] \in Free
      /\ worker \in Worker => current \in Free
  BY ProblemTypes DEF ReadInv, Reading, Problem
<1>2. Spent \in Nat
  <2>1. ASSUME NEW w \in Served PROVE Walked[w] \in Nat
    <3>1. w \in Worker /\ Joined(start_locations[w], proposed[w])
      BY <1>1, ServedTypes DEF WithinReach
    <3>2. start_locations[w] \in Free /\ proposed[w] \in Free
      BY <1>1, <3>1, ProblemTypes
    <3>3. Distances[background_flow][start_locations[w]][proposed[w]] \in Nat
      BY <1>1, <3>1, <3>2, DistanceIs
    <3> QED
      BY <3>3 DEF Walked
  <2>2. IsFiniteSet(Served)
    BY <1>1, ServedTypes
  <2> QED
    BY <2>1, <2>2, SumNat DEF Spent
<1>3. Ahead \in Nat
  <2>1. CASE worker \in Worker
    <3>1. start_locations[worker] \in Free /\ current \in Free /\ Joined(start_locations[worker], current)
      BY <1>1, <2>1, ProblemTypes DEF WithinReach
    <3>2. Distances[background_flow][start_locations[worker]][current] \in Nat
      BY <1>1, <3>1, DistanceIs
    <3> QED
      BY <2>1, <3>2 DEF Ahead
  <2>2. CASE worker \notin Worker
    BY <2>2 DEF Ahead
  <2> QED
    BY <2>1, <2>2
<1>4. FlowCost(edge_flows) \in Nat
  <2> DEFINE priced == [k \in Keys |-> Price[k] * edge_flows[k]]
  <2>1. \A k \in Keys : priced[k] \in Nat
    <3>1. \A k \in Keys : Price[k] \in Nat /\ edge_flows[k] \in Nat
      BY <1>1, ProblemTypes
    <3> QED
      BY <3>1
  <2> HIDE DEF priced
  <2>2. SumOn(priced, Keys) \in Nat
    BY <2>1, KeysFinite, SumNat
  <2> QED
    BY <2>2 DEF FlowCost, priced
<1>5. ASSUME NEW c \in Free
      PROVE  /\ SumOn(edge_flows, Leaving(c)) \in Nat /\ SumOn(edge_flows, Entering(c)) \in Nat
             /\ Waiting(c) \in Nat /\ Taken(c) \in Nat
  <2>1. /\ \A k \in Leaving(c) : edge_flows[k] \in Nat
        /\ \A k \in Entering(c) : edge_flows[k] \in Nat
    BY <1>1 DEF Leaving, Entering
  <2>2. SumOn(edge_flows, Leaving(c)) \in Nat /\ SumOn(edge_flows, Entering(c)) \in Nat
    BY <2>1, KeysFinite, SumNat
  <2>3. Waiting(c) \in Nat
    BY DEF Waiting
  <2> QED
    BY <1>1, <2>2, <2>3, TakenTypes
<1> QED
  BY <1>2, <1>3, <1>4, <1>5

\* The turn of the next worker: the one before waits no more, and the next has not gone yet.
LEMMA TurnTaken ==
  ASSUME ReadInv, worker \in Worker, NextWorker
  PROVE  /\ worker' = worker + 1 /\ worker' \in 1 .. NumWorkers + 1
         /\ worker' \in Worker => current' = start_locations[worker'] /\ current' \in Free
         /\ Served' = Served \cup {worker}
         /\ Ahead' = 0
         /\ \A c \in Free : Waiting(c) = Waiting(c)' + (IF current = c THEN 1 ELSE 0)
<1>1. /\ Problem /\ worker \in 1 .. NumWorkers /\ NumWorkers \in Nat \ {0}
      /\ background_flow \in BackgroundFlows
  BY WorkersFinite DEF ReadInv, Problem, Worker
<1>2. /\ start_locations' = start_locations /\ background_flow' = background_flow
      /\ worker' = worker + 1
      /\ current' = IF worker < NumWorkers THEN start_locations[worker + 1] ELSE Sink
  BY SameProblem DEF NextWorker
<1>3. worker' \in 1 .. NumWorkers + 1 /\ (worker' \in Worker <=> worker < NumWorkers)
  BY <1>1, <1>2 DEF Worker
<1>4. worker' \in Worker => current' = start_locations[worker'] /\ current' \in Free
  BY <1>1, <1>2, <1>3, ProblemTypes
<1>5. Served' = Served \cup {worker}
  <2>1. \A w \in Worker : w < worker + 1 <=> w < worker \/ w = worker
    BY <1>1 DEF Worker
  <2>2. Served' = {w \in Worker : w < worker + 1}
    BY <1>2 DEF Served
  <2> QED
    BY <2>1, <2>2 DEF Served
<1>6. Ahead' = 0
  <2>1. CASE worker' \in Worker
    <3>1. start_locations[worker'] \in Free
      BY <1>1, <2>1, ProblemTypes
    <3>2. Distances[background_flow][start_locations[worker']][start_locations[worker']] = 0
      BY <1>1, <3>1, NoDistance
    <3> QED
      BY <1>2, <1>4, <2>1, <3>2 DEF Ahead
  <2>2. CASE worker' \notin Worker
    BY <2>2 DEF Ahead
  <2> QED
    BY <2>1, <2>2
<1>7. ASSUME NEW c \in Free
      PROVE  Waiting(c) = Waiting(c)' + (IF current = c THEN 1 ELSE 0)
  <2> DEFINE later == \E w \in Worker : w > worker /\ start_locations[w] = c
             much  == \E w \in Worker : w > worker + 1 /\ start_locations[w] = c
             next  == worker + 1 \in Worker /\ start_locations[worker + 1] = c
  <2>1. Waiting(c) = (IF current = c THEN 1 ELSE 0) + (IF later THEN 1 ELSE 0)
    BY DEF Waiting
  <2>2. Waiting(c)' = (IF next THEN 1 ELSE 0) + (IF much THEN 1 ELSE 0)
    <3>1. worker' \in Worker /\ current' = c <=> next
      BY <1>2, <1>4
    <3> QED
      BY <1>2, <3>1 DEF Waiting
  <2>3. \A w \in Worker : w > worker <=> w = worker + 1 \/ w > worker + 1
    BY <1>1 DEF Worker
  <2>4. ~ (worker + 1 > worker + 1)
    BY <1>1
  <2>5. later <=> next \/ much
    <3>1. worker + 1 > worker
      BY <1>1
    <3> QED
      BY <2>3, <3>1
  <2>6. ~ (next /\ much)
    <3> SUFFICES ASSUME next, NEW w \in Worker, w > worker + 1, start_locations[w] = c PROVE FALSE
      OBVIOUS
    <3>1. w = worker + 1
      BY <1>1, ProblemTypes
    <3> QED
      BY <2>4, <3>1
  <2> HIDE DEF later, much, next
  <2> QED
    BY <2>1, <2>2, <2>5, <2>6
<1> QED
  BY <1>2, <1>3, <1>4, <1>5, <1>6, <1>7

\* Who is in a cell without a task of his own finds flow that leads on.
LEMMA NotLost ==
  ASSUME ReadInv, worker \in Worker, current \notin DOMAIN task_loc_ids
  PROVE  /\ OutArcs(current) # {}
         /\ \A arc \in OutArcs(current) : /\ arc \in Arcs /\ arc[1] = current /\ arc[2] \in Free
                                          /\ edge_flows[arc] \in Nat \ {0}
<1> DEFINE c == current
           sink == << c, Sink >>
<1>1. c \in Free /\ edge_flows \in [Keys -> Nat] /\ Problem /\ Reading
  BY DEF ReadInv, Reading
<1>2. Taken(c) >= Had(c) /\ Had(c) \in Nat
  <2>1. Had(c) \in Nat /\ Taken(c) \in Nat
    BY <1>1, ProblemTypes, BudgetTypes
  <2>2. CASE c \in DOMAIN flexible_tasks
    <3>1. Taken(c) + Left(c) = flexible_tasks[c]
      BY <2>2 DEF ReadInv, TasksCounted
    <3>2. Left(c) = 0
      BY DEF Left
    <3> QED
      BY <2>1, <2>2, <3>1, <3>2 DEF Had
  <2>3. CASE c \notin DOMAIN flexible_tasks
    BY <2>1, <2>3 DEF Had
  <2> QED
    BY <2>1, <2>2, <2>3
<1>3. sink \in Leaving(c) /\ edge_flows[sink] <= Had(c)
  <2>1. sink \in Keys /\ sink[1] = c
    BY <1>1, KeysFinite
  <2>2. edge_flows[sink] <= Had(c)
    BY <1>1 DEF ReadInv, SinkFits
  <2> HIDE DEF sink
  <2> QED
    BY <2>1, <2>2 DEF Leaving
<1>4. Waiting(c) >= 1
  BY DEF Waiting
<1>5. SumOn(edge_flows, Leaving(c)) > edge_flows[sink] /\ edge_flows[sink] \in Nat
  <2>1. SumOn(edge_flows, Leaving(c)) = SumOn(edge_flows, Entering(c)) + Waiting(c) + Taken(c)
    BY <1>1 DEF ReadInv, Conserved
  <2>2. /\ SumOn(edge_flows, Entering(c)) \in Nat /\ Waiting(c) \in Nat /\ Taken(c) \in Nat
        /\ SumOn(edge_flows, Leaving(c)) \in Nat
    BY <1>1, BudgetTypes
  <2>3. edge_flows[sink] \in Nat
    BY <1>1, <1>3 DEF Leaving
  <2> HIDE DEF c, sink
  <2> QED
    BY <1>2, <1>3, <1>4, <2>1, <2>2, <2>3
<1>6. \E arc \in Leaving(c) : arc # sink /\ edge_flows[arc] # 0
  <2> SUFFICES ASSUME \A arc \in Leaving(c) : arc # sink => edge_flows[arc] = 0 PROVE FALSE
    OBVIOUS
  <2> DEFINE S == Leaving(c)
             T == {sink}
  <2>1. IsFiniteSet(S) /\ T \in SUBSET S /\ \A k \in S : edge_flows[k] \in Int
    BY <1>1, <1>3, KeysFinite DEF Leaving
  <2>2. \A k \in S \ T : edge_flows[k] <= 0
    OBVIOUS
  <2> HIDE DEF S, sink
  <2>3. SumOn(edge_flows, S) <= SumOn(edge_flows, T)
    BY <2>1, <2>2, SumSubset
  <2>4. SumOn(edge_flows, T) = edge_flows[sink]
    <3>1. IsFiniteSet(T) /\ sink \in T /\ T \ {sink} = {} /\ \A k \in T : edge_flows[k] \in Int
      BY <2>1, FS_Singleton
    <3> HIDE DEF T
    <3>2. SumOn(edge_flows, T) = edge_flows[sink] + SumOn(edge_flows, {})
      BY <3>1, SumRemove
    <3> QED
      BY <1>5, <3>2, SumEmpty
  <2>5. SumOn(edge_flows, S) \in Nat
    BY <1>1, BudgetTypes DEF S
  <2> QED
    BY <1>5, <2>3, <2>4, <2>5 DEF S
<1>7. PICK arc \in Leaving(c) : arc # sink /\ edge_flows[arc] # 0
  BY <1>6
<1>8. arc \in Arcs /\ arc \in DOMAIN edge_flows /\ arc[1] = current /\ edge_flows[arc] > 0
  <2>1. arc \in Keys /\ arc[1] = c
    BY <1>7 DEF Leaving
  <2>2. arc \in Arcs
    BY <1>7, <2>1, KeysFinite
  <2> QED
    BY <1>1, <1>7, <2>1, <2>2
<1>9. arc \in WithFlow(current) \cap Arcs
  BY <1>8 DEF WithFlow
<1>10. OutArcs(current) = WithFlow(current) \cap Arcs
  BY <1>9 DEF OutArcs
<1>11. \A a \in OutArcs(current) : a \in Arcs /\ a[1] = current /\ a[2] \in Free /\ edge_flows[a] \in Nat \ {0}
  <2>1. \A a \in OutArcs(current) : a \in Arcs /\ a \in Keys /\ a[1] = current /\ edge_flows[a] > 0
    BY <1>1, <1>10 DEF WithFlow
  <2> QED
    BY <1>1, <2>1, KeysFinite
<1> QED
  BY <1>9, <1>10, <1>11

\* A worker takes a task: what waited in the cell has been taken from it.
LEMMA TakeReads == ASSUME ReadInv, Take PROVE ReadInv'
<1> DEFINE c == current
<1>1. /\ Problem /\ Reading /\ worker \in Worker /\ NextWorker /\ c \in DOMAIN task_loc_ids
      /\ edge_flows' = edge_flows /\ task_loc_ids' = TakenFrom(c)
      /\ proposed' = [w \in DOMAIN proposed \cup {worker} |-> IF w = worker THEN c ELSE proposed[w]]
  BY DEF ReadInv, Take
<1>2. /\ worker' = worker + 1 /\ worker' \in 1 .. NumWorkers + 1
      /\ worker' \in Worker => current' = start_locations[worker'] /\ current' \in Free
      /\ Served' = Served \cup {worker} /\ Ahead' = 0
      /\ \A d \in Free : Waiting(d) = Waiting(d)' + (IF c = d THEN 1 ELSE 0)
  BY <1>1, TurnTaken
<1>3. /\ flexible_tasks' = flexible_tasks /\ start_locations' = start_locations
      /\ background_flow' = background_flow /\ background_flow \in BackgroundFlows /\ Problem'
  BY <1>1, SameProblem DEF NextWorker, Problem
<1>4. /\ c \in Free /\ c \in DOMAIN flexible_tasks /\ DOMAIN flexible_tasks \subseteq Free
      /\ DOMAIN task_loc_ids \subseteq DOMAIN flexible_tasks
      /\ \A d \in DOMAIN task_loc_ids : task_loc_ids[d] \in Nat \ {0}
      /\ proposed \in [Served -> DOMAIN flexible_tasks] /\ DOMAIN proposed = Served
      /\ worker \in 1 .. NumWorkers + 1 /\ edge_flows \in [Keys -> Nat]
  BY <1>1, ProblemTypes DEF Reading
<1>5. worker \notin Served /\ IsFiniteSet(Served) /\ Served \subseteq Worker
  BY <1>4, ServedTypes
<1>6. /\ proposed'[worker] = c /\ DOMAIN proposed' = Served'
      /\ \A w \in Served : proposed'[w] = proposed[w]
      /\ proposed' \in [Served' -> DOMAIN flexible_tasks]
  BY <1>1, <1>2, <1>4, <1>5
<1>7. /\ DOMAIN task_loc_ids' = DOMAIN task_loc_ids \ (IF task_loc_ids[c] = 1 THEN {c} ELSE {})
      /\ \A d \in DOMAIN task_loc_ids' : task_loc_ids'[d] = IF d = c THEN task_loc_ids[d] - 1 ELSE task_loc_ids[d]
  BY <1>1 DEF TakenFrom
<1>8. Reading'
  <2>1. \A d \in DOMAIN task_loc_ids' : task_loc_ids'[d] \in Nat \ {0}
    BY <1>4, <1>7
  <2>2. DOMAIN task_loc_ids' \subseteq DOMAIN flexible_tasks'
    BY <1>3, <1>4, <1>7
  <2> QED
    BY <1>1, <1>2, <1>3, <1>4, <1>6, <2>1, <2>2 DEF Reading
<1>9. ASSUME NEW d \in Free
      PROVE  Taken(d)' = Taken(d) + (IF c = d THEN 1 ELSE 0)
  <2> DEFINE T  == {w \in Served : proposed[w] = d}
             T1 == {w \in Served' : proposed'[w] = d}
  <2>1. /\ T \subseteq Served /\ Taken(d) = Cardinality(T) /\ IsFiniteSet(T) /\ Taken(d) \in Nat
    BY <1>1, TakenTypes
  <2>2. Taken(d)' = Cardinality(T1)
    BY <1>6 DEF Taken
  <2>3. worker \notin T /\ T1 = T \cup (IF c = d THEN {worker} ELSE {})
    BY <1>2, <1>5, <1>6
  <2> HIDE DEF T, T1
  <2>4. CASE c = d
    <3>1. T1 = T \cup {worker}
      BY <2>3, <2>4
    <3>2. Cardinality(T1) = Cardinality(T) + 1
      BY <2>1, <2>3, <3>1, FS_AddElement
    <3> QED
      BY <2>1, <2>2, <2>4, <3>2
  <2>5. CASE c # d
    BY <2>1, <2>2, <2>3, <2>5
  <2> QED
    BY <2>4, <2>5
<1>10. TasksCounted'
  <2> SUFFICES ASSUME NEW d \in DOMAIN flexible_tasks
               PROVE  Taken(d)' + Left(d)' = flexible_tasks[d]
    BY <1>3 DEF TasksCounted
  <2>1. d \in Free /\ Taken(d) \in Nat /\ Taken(d) + Left(d) = flexible_tasks[d]
    BY <1>1, <1>4, TakenTypes DEF ReadInv, TasksCounted
  <2>2. Taken(d)' = Taken(d) + (IF c = d THEN 1 ELSE 0)
    BY <1>9, <2>1
  <2>3. Left(d) = Left(d)' + (IF c = d THEN 1 ELSE 0) /\ Left(d)' \in Nat
    <3>1. CASE c = d
      <4>1. CASE task_loc_ids[c] = 1
        <5>1. Left(d) = 1 /\ Left(d)' = 0
          BY <1>1, <1>7, <3>1, <4>1 DEF Left
        <5> QED
          BY <3>1, <5>1
      <4>2. CASE task_loc_ids[c] # 1
        <5>1. Left(d) = task_loc_ids[c] /\ Left(d)' = task_loc_ids[c] - 1 /\ task_loc_ids[c] \in Nat \ {0}
          BY <1>1, <1>4, <1>7, <3>1, <4>2 DEF Left
        <5> QED
          BY <3>1, <5>1
      <4> QED
        BY <4>1, <4>2
    <3>2. CASE c # d
      <4>1. Left(d)' = Left(d) /\ Left(d) \in Nat
        BY <1>4, <1>7, <3>2 DEF Left
      <4> QED
        BY <3>2, <4>1
    <3> QED
      BY <3>1, <3>2
  <2> QED
    BY <2>1, <2>2, <2>3
<1>11. SinkFits'
  BY <1>1, SameProblem DEF SinkFits, ReadInv, NextWorker
<1>12. Conserved'
  <2> SUFFICES ASSUME NEW d \in Free
               PROVE  SumOn(edge_flows', Leaving(d)) = SumOn(edge_flows', Entering(d)) + Waiting(d)' + Taken(d)'
    BY DEF Conserved, Leaving, Entering
  <2>1. /\ SumOn(edge_flows, Leaving(d)) = SumOn(edge_flows, Entering(d)) + Waiting(d) + Taken(d)
        /\ Waiting(d) = Waiting(d)' + (IF c = d THEN 1 ELSE 0)
        /\ Taken(d)' = Taken(d) + (IF c = d THEN 1 ELSE 0)
    BY <1>2, <1>9 DEF ReadInv, Conserved
  <2>2. SumOn(edge_flows, Entering(d)) \in Nat /\ Waiting(d) \in Nat /\ Taken(d) \in Nat
    BY BudgetTypes
  <2>3. Waiting(d)' \in Nat
    BY DEF Waiting
  <2> QED
    BY <1>1, <2>1, <2>2, <2>3
<1>13. WithinReach'
  <2>1. /\ \A w \in Served : Joined(start_locations[w], proposed[w])
        /\ Joined(start_locations[worker], c)
    BY <1>1 DEF ReadInv, WithinReach
  <2>2. \A w \in Served' : Joined(start_locations[w], proposed'[w])
    BY <1>2, <1>6, <2>1
  <2>3. worker' \in Worker => Joined(start_locations[worker'], current')
    BY <1>2, <1>3, NoDistance
  <2> QED
    BY <1>3, <2>2, <2>3 DEF WithinReach
<1>14. Spent' = Spent + Ahead
  <2> DEFINE S == Served \cup {worker}
             walked == [w \in S |-> Distances[background_flow][start_locations[w]][proposed'[w]]]
  <2>1. Spent' = SumOn(walked, S)
    BY <1>2, <1>3 DEF Spent, Walked
  <2>2. IsFiniteSet(S) /\ worker \in S /\ S \ {worker} = Served
    BY <1>5, FS_AddElement
  <2>3. walked[worker] = Ahead /\ \A w \in Served : walked[w] = Walked[w]
    BY <1>1, <1>6 DEF Ahead, Walked
  <2>4. \A w \in S : walked[w] \in Int
    <3>1. \A w \in Served : Walked[w] \in Int
      <4>1. ASSUME NEW w \in Served PROVE Walked[w] \in Nat
        <5>1. w \in Worker /\ Joined(start_locations[w], proposed[w])
          BY <1>5 DEF ReadInv, WithinReach
        <5>2. start_locations[w] \in Free /\ proposed[w] \in Free
          BY <1>1, <1>4, <5>1, ProblemTypes
        <5>3. Distances[background_flow][start_locations[w]][proposed[w]] \in Nat
          BY <1>3, <5>1, <5>2, DistanceIs
        <5> QED
          BY <5>3 DEF Walked
      <4> QED
        BY <4>1
    <3>2. walked[worker] \in Int
      BY <2>3, BudgetTypes
    <3>3. \A w \in S : w \in Served \/ w = worker
      OBVIOUS
    <3> HIDE DEF walked, S
    <3> QED
      BY <2>3, <3>1, <3>2, <3>3
  <2> HIDE DEF walked, S
  <2>5. SumOn(walked, S) = walked[worker] + SumOn(walked, Served)
    BY <2>2, <2>4, SumRemove
  <2>6. SumOn(walked, Served) = SumOn(Walked, Served)
    BY <1>5, <2>3, SumCongruent
  <2>7. SumOn(Walked, Served) = Spent /\ Spent \in Nat /\ Ahead \in Nat
    BY BudgetTypes DEF Spent
  <2> QED
    BY <2>1, <2>3, <2>5, <2>6, <2>7
<1>15. WithinBudget'
  <2> SUFFICES ASSUME NEW ends \in Matchings
               PROVE  Spent' + Ahead' + FlowCost(edge_flows)' <= TotalDistance(ends)'
    BY <1>1, SameProblem DEF WithinBudget, NextWorker
  <2>1. Spent + Ahead + FlowCost(edge_flows) <= TotalDistance(ends)
    BY DEF ReadInv, WithinBudget
  <2>2. TotalDistance(ends)' = TotalDistance(ends)
    BY <1>1, SameProblem DEF NextWorker
  <2>3. FlowCost(edge_flows)' = FlowCost(edge_flows)
    <3>1. Price' = Price
      BY <1>3 DEF Price
    <3> QED
      BY <1>1, <3>1 DEF FlowCost
  <2>4. Spent \in Nat /\ Ahead \in Nat /\ FlowCost(edge_flows) \in Nat
    BY BudgetTypes
  <2> QED
    BY <1>2, <1>14, <2>1, <2>2, <2>3, <2>4
<1> QED
  BY <1>3, <1>8, <1>10, <1>11, <1>12, <1>13, <1>15 DEF ReadInv

\* One unit of flow less over an arc: that is one less in every sum that the arc is part of.
LEMMA OneLess ==
  ASSUME NEW K \in SUBSET Keys, NEW f \in [Keys -> Nat], NEW arc \in Keys, f[arc] > 0,
         NEW g, g = [f EXCEPT ![arc] = @ - 1]
  PROVE  /\ g \in [Keys -> Nat]
         /\ SumOn(g, K) = SumOn(f, K) - (IF arc \in K THEN 1 ELSE 0)
<1>1. /\ g \in [Keys -> Nat] /\ g[arc] = f[arc] - 1
      /\ \A k \in Keys : k # arc => g[k] = f[k]
  OBVIOUS
<1>2. IsFiniteSet(K) /\ \A k \in K : f[k] \in Int /\ g[k] \in Int
  BY <1>1, KeysFinite, FS_Subset
<1>3. SumOn(g, K) \in Int /\ SumOn(f, K) \in Int
  BY <1>2, SumType
<1>4. CASE arc \in K
  <2> DEFINE R == K \ {arc}
  <2>1. IsFiniteSet(R) /\ \A k \in R : g[k] = f[k] /\ f[k] \in Int
    BY <1>1, <1>2, FS_RemoveElement
  <2>2. SumOn(g, K) = g[arc] + SumOn(g, R) /\ SumOn(f, K) = f[arc] + SumOn(f, R)
    BY <1>2, <1>4, SumRemove
  <2> HIDE DEF R
  <2>3. SumOn(g, R) = SumOn(f, R) /\ SumOn(f, R) \in Int
    BY <2>1, SumCongruent, SumType
  <2>4. f[arc] \in Int
    BY <1>2, <1>4
  <2> QED
    BY <1>1, <1>3, <1>4, <2>2, <2>3, <2>4
<1>5. CASE arc \notin K
  <2>1. \A k \in K : g[k] = f[k]
    BY <1>1, <1>5
  <2>2. SumOn(g, K) = SumOn(f, K)
    BY <1>2, <2>1, SumCongruent
  <2> QED
    BY <1>3, <1>5, <2>2
<1> QED
  BY <1>1, <1>4, <1>5

\* What a flow costs falls by what the arc does.
LEMMA OneCheaper ==
  ASSUME Problem, NEW f \in [Keys -> Nat], NEW arc \in Keys, f[arc] > 0,
         NEW g, g = [f EXCEPT ![arc] = @ - 1]
  PROVE  FlowCost(g) = FlowCost(f) - Price[arc]
<1> DEFINE old == [k \in Keys |-> Price[k] * f[k]]
           new == [k \in Keys |-> Price[k] * g[k]]
<1>1. /\ g[arc] = f[arc] - 1
      /\ \A k \in Keys : k # arc => g[k] = f[k]
  OBVIOUS
<1>2. \A k \in Keys : Price[k] \in Nat /\ f[k] \in Nat /\ g[k] \in Nat
  BY <1>1, ProblemTypes
<1>3. \A k \in Keys : old[k] = Price[k] * f[k] /\ new[k] = Price[k] * g[k]
  OBVIOUS
<1>4. FlowCost(f) = SumOn(old, Keys) /\ FlowCost(g) = SumOn(new, Keys)
  BY DEF FlowCost
<1> HIDE DEF old, new
<1>5. \A k \in Keys : old[k] \in Int /\ new[k] \in Int
  BY <1>2, <1>3
<1>6. \A k \in Keys \ {arc, arc} : new[k] = old[k]
  BY <1>1, <1>3
<1>7. /\ SumOn(new, Keys) \in Int /\ SumOn(old, Keys) \in Int
      /\ SumOn(new, Keys) - new[arc] = SumOn(old, Keys) - old[arc]
  BY <1>5, <1>6, KeysFinite, SumChanged
<1>8. new[arc] = old[arc] - Price[arc]
  <2> DEFINE each == Price[arc]
             n    == f[arc]
  <2>1. each \in Int /\ n \in Int /\ new[arc] = each * (n - 1) /\ old[arc] = each * n
    BY <1>1, <1>2, <1>3
  <2> HIDE DEF each, n
  <2>2. each * (n - 1) = each * n - each
    BY <2>1
  <2> QED
    BY <2>1, <2>2 DEF each
<1>9. Price[arc] \in Int /\ old[arc] \in Int
  BY <1>2, <1>5
<1> QED
  BY <1>4, <1>7, <1>8, <1>9

LEMMA TotalType ==
  ASSUME Problem, NEW ends \in Matchings
  PROVE  TotalDistance(ends) \in Nat
<1>1. ASSUME NEW w \in Worker PROVE Ways(ends)[w] \in Nat
  <2>1. ends[w] \in Free /\ start_locations[w] \in Free /\ background_flow \in BackgroundFlows
    BY ProblemTypes DEF Matchings, Problem
  <2>2. PathsTo(w, ends[w]) # {}
    BY DEF Matchings
  <2>3. CheapestPaths[background_flow][start_locations[w]][ends[w]] \subseteq PathsBetween[start_locations[w]][ends[w]]
    BY <2>1 DEF CheapestPaths
  <2>4. Joined(start_locations[w], ends[w])
    BY <2>2, <2>3 DEF PathsTo, Joined
  <2>5. Distances[background_flow][start_locations[w]][ends[w]] \in Nat
    BY <2>1, <2>4, DistanceIs
  <2> QED
    BY <2>5 DEF Ways
<1>2. SumOn(Ways(ends), Worker) \in Nat
  BY <1>1, WorkersFinite, SumNat
<1> QED
  BY <1>2, TotalOfWays

\* A worker goes on: what flowed over the arc is the worker who waits at its end.
LEMMA WalkReads == ASSUME ReadInv, Walk PROVE ReadInv'
<1> DEFINE c == current
<1>1. /\ Problem /\ Reading /\ worker \in Worker /\ c \notin DOMAIN task_loc_ids
      /\ task_loc_ids' = task_loc_ids /\ proposed' = proposed
  BY DEF ReadInv, Walk
<1>2. OutArcs(c) # {}
  BY <1>1, NotLost
<1>3. PICK arc \in OutArcs(c) : current' = arc[2] /\ edge_flows' = Used(arc)
  BY <1>2 DEF Walk
<1>4. UNCHANGED problem /\ worker' = worker
  BY <1>2 DEF Walk
<1>5. /\ flexible_tasks' = flexible_tasks /\ start_locations' = start_locations
      /\ background_flow' = background_flow /\ background_flow \in BackgroundFlows /\ Problem'
  BY <1>1, <1>4, SameProblem DEF Problem
<1>6. /\ arc \in Arcs /\ arc \in Keys /\ arc[1] = c /\ arc[2] \in Free /\ c \in Free
      /\ edge_flows[arc] > 0 /\ edge_flows \in [Keys -> Nat]
      /\ edge_flows' = [edge_flows EXCEPT ![arc] = @ - 1]
  <2>1. arc \in Arcs /\ arc[1] = c /\ arc[2] \in Free /\ edge_flows[arc] \in Nat \ {0}
    BY <1>1, NotLost
  <2>2. edge_flows' = [edge_flows EXCEPT ![arc] = @ - 1]
    BY <1>3 DEF Used
  <2>3. edge_flows \in [Keys -> Nat] /\ c \in Free
    BY <1>1 DEF Reading
  <2> QED
    BY <2>1, <2>2, <2>3, KeysFinite
<1> DEFINE f == edge_flows
           g == edge_flows'
<1>7. /\ f = edge_flows /\ g = edge_flows'
       /\ f \in [Keys -> Nat] /\ f[arc] > 0 /\ g = [f EXCEPT ![arc] = @ - 1]
  BY <1>6 DEF f, g
<1> HIDE DEF f, g
<1>8. Served' = Served /\ \A d : Taken(d)' = Taken(d) /\ Left(d)' = Left(d)
  BY <1>1, <1>4 DEF Served, Taken, Left
<1>9. Reading'
  <2>1. edge_flows' \in [Keys -> Nat]
    BY <1>6, OneLess
  <2> QED
    BY <1>1, <1>3, <1>4, <1>5, <1>6, <1>8, <2>1 DEF Reading
<1>10. TasksCounted'
  BY <1>5, <1>8 DEF TasksCounted, ReadInv
<1>11. SinkFits'
  <2> SUFFICES ASSUME NEW d \in Free PROVE edge_flows'[<< d, Sink >>] <= Had(d)'
    BY DEF SinkFits
  <2> DEFINE sink == << d, Sink >>
  <2>1. sink \in Keys /\ sink # arc
    BY <1>6, KeysFinite
  <2>2. edge_flows[sink] <= Had(d) /\ Had(d)' = Had(d)
    BY <1>4, SameProblem DEF ReadInv, SinkFits
  <2> HIDE DEF sink
  <2> QED
    BY <1>6, <2>1, <2>2 DEF sink
<1>12. Conserved'
  <2> SUFFICES ASSUME NEW d \in Free
               PROVE  SumOn(edge_flows', Leaving(d)) = SumOn(edge_flows', Entering(d)) + Waiting(d)' + Taken(d)'
    BY DEF Conserved, Leaving, Entering
  <2>1. SumOn(edge_flows, Leaving(d)) = SumOn(edge_flows, Entering(d)) + Waiting(d) + Taken(d)
    BY DEF ReadInv, Conserved
  <2>2. /\ SumOn(edge_flows, Leaving(d)) \in Nat /\ SumOn(edge_flows, Entering(d)) \in Nat
        /\ Waiting(d) \in Nat /\ Taken(d) \in Nat
    BY BudgetTypes
  <2>3. SumOn(edge_flows', Leaving(d)) = SumOn(edge_flows, Leaving(d)) - (IF c = d THEN 1 ELSE 0)
    <3>1. Leaving(d) \in SUBSET Keys /\ (arc \in Leaving(d) <=> c = d)
      BY <1>6 DEF Leaving
    <3> DEFINE K == Leaving(d)
    <3>2. K \in SUBSET Keys
      BY <3>1
    <3> HIDE DEF K
    <3>3. SumOn(g, K) = SumOn(f, K) - (IF arc \in K THEN 1 ELSE 0)
      BY <1>6, <1>7, <3>2, OneLess
    <3> QED
      BY <1>7, <3>1, <3>3 DEF K
  <2>4. SumOn(edge_flows', Entering(d)) = SumOn(edge_flows, Entering(d)) - (IF arc[2] = d THEN 1 ELSE 0)
    <3>1. Entering(d) \in SUBSET Keys /\ (arc \in Entering(d) <=> arc[2] = d)
      BY <1>6 DEF Entering
    <3> DEFINE K == Entering(d)
    <3>2. K \in SUBSET Keys
      BY <3>1
    <3> HIDE DEF K
    <3>3. SumOn(g, K) = SumOn(f, K) - (IF arc \in K THEN 1 ELSE 0)
      BY <1>6, <1>7, <3>2, OneLess
    <3> QED
      BY <1>7, <3>1, <3>3 DEF K
  <2>5. Waiting(d)' = Waiting(d) - (IF c = d THEN 1 ELSE 0) + (IF arc[2] = d THEN 1 ELSE 0)
    <3> DEFINE later == \E w \in Worker : w > worker /\ start_locations[w] = d
    <3>1. Waiting(d) = (IF c = d THEN 1 ELSE 0) + (IF later THEN 1 ELSE 0)
      BY <1>1 DEF Waiting
    <3>2. Waiting(d)' = (IF arc[2] = d THEN 1 ELSE 0) + (IF later THEN 1 ELSE 0)
      BY <1>1, <1>3, <1>4, <1>5 DEF Waiting
    <3> HIDE DEF later
    <3> QED
      BY <3>1, <3>2
  <2> QED
    BY <1>8, <2>1, <2>2, <2>3, <2>4, <2>5
<1>13. /\ Joined(start_locations[worker], arc[2])
       /\ Distances[background_flow][start_locations[worker]][arc[2]] <= Ahead + Price[arc]
  <2>1. Joined(start_locations[worker], arc[1]) /\ start_locations[worker] \in Free
    BY <1>1, <1>6, ProblemTypes DEF ReadInv, WithinReach
  <2>2. Ahead = Distances[background_flow][start_locations[worker]][arc[1]]
    BY <1>1, <1>6 DEF Ahead
  <2>3. Price[arc] = Cost(background_flow, arc)
    BY <1>1, <1>6, ProblemTypes
  <2> QED
    BY <1>5, <1>6, <2>1, <2>2, <2>3, OneArcMore
<1>14. WithinReach'
  BY <1>1, <1>3, <1>4, <1>5, <1>8, <1>13 DEF ReadInv, WithinReach
<1>15. Spent' = Spent /\ Ahead' <= Ahead + Price[arc] /\ Ahead' \in Nat
  <2>1. Spent' = Spent
    BY <1>1, <1>5, <1>8 DEF Spent, Walked
  <2>2. Ahead' = Distances[background_flow][start_locations[worker]][arc[2]]
    BY <1>1, <1>3, <1>4, <1>5 DEF Ahead
  <2>3. Distances[background_flow][start_locations[worker]][arc[2]] \in Nat
    BY <1>1, <1>5, <1>6, <1>13, ProblemTypes, DistanceIs
  <2> QED
    BY <1>13, <2>1, <2>2, <2>3
<1>16. FlowCost(edge_flows)' = FlowCost(edge_flows) - Price[arc]
  <2>1. Price' = Price
    BY <1>5 DEF Price
  <2>2. FlowCost(edge_flows)' = FlowCost(edge_flows')
    BY <2>1 DEF FlowCost
  <2> QED
    BY <1>1, <1>6, <2>2, OneCheaper
<1>17. WithinBudget'
  <2> SUFFICES ASSUME NEW ends \in Matchings
               PROVE  Spent' + Ahead' + FlowCost(edge_flows)' <= TotalDistance(ends)'
    BY <1>4, SameProblem DEF WithinBudget
  <2>1. Spent + Ahead + FlowCost(edge_flows) <= TotalDistance(ends)
    BY DEF ReadInv, WithinBudget
  <2>2. TotalDistance(ends)' = TotalDistance(ends)
    BY <1>4, SameProblem
  <2>3. Spent \in Nat /\ Ahead \in Nat /\ FlowCost(edge_flows) \in Nat /\ Price[arc] \in Nat
    BY <1>1, <1>6, BudgetTypes, ProblemTypes
  <2>4. TotalDistance(ends) \in Nat
    BY <1>1, TotalType
  <2> QED
    BY <1>15, <1>16, <2>1, <2>2, <2>3, <2>4
<1> QED
  BY <1>5, <1>9, <1>10, <1>11, <1>12, <1>14, <1>17 DEF ReadInv

LEMMA StillReads == ASSUME ReadInv, UNCHANGED flowVars PROVE ReadInv'
<1>1. /\ UNCHANGED problem /\ task_loc_ids' = task_loc_ids /\ edge_flows' = edge_flows
      /\ worker' = worker /\ current' = current /\ proposed' = proposed
  BY DEF flowVars
<1>2. /\ flexible_tasks' = flexible_tasks /\ start_locations' = start_locations
      /\ background_flow' = background_flow /\ Problem'
  BY <1>1, SameProblem DEF ReadInv
<1>3. /\ Served' = Served /\ \A c : Taken(c)' = Taken(c) /\ Left(c)' = Left(c)
      /\ Ahead' = Ahead /\ Spent' = Spent /\ \A c : Waiting(c)' = Waiting(c)
  BY <1>1, <1>2 DEF Served, Taken, Left, Ahead, Spent, Walked, Waiting
<1>4. Reading'
  BY <1>1, <1>2, <1>3 DEF ReadInv, Reading
<1>5. TasksCounted'
  BY <1>2, <1>3 DEF ReadInv, TasksCounted
<1>6. SinkFits'
  BY <1>1, SameProblem DEF ReadInv, SinkFits
<1>7. Conserved'
  <2> SUFFICES ASSUME NEW c \in Free
               PROVE  SumOn(edge_flows', Leaving(c)) = SumOn(edge_flows', Entering(c)) + Waiting(c)' + Taken(c)'
    BY DEF Conserved, Leaving, Entering
  <2>1. SumOn(edge_flows, Leaving(c)) = SumOn(edge_flows, Entering(c)) + Waiting(c) + Taken(c)
    BY DEF ReadInv, Conserved
  <2> QED
    BY <1>1, <1>3, <2>1
<1>8. WithinReach'
  BY <1>1, <1>2, <1>3 DEF ReadInv, WithinReach
<1>9. WithinBudget'
  <2> SUFFICES ASSUME NEW ends \in Matchings
               PROVE  Spent' + Ahead' + FlowCost(edge_flows)' <= TotalDistance(ends)'
    BY <1>1, SameProblem DEF WithinBudget
  <2>1. Spent + Ahead + FlowCost(edge_flows) <= TotalDistance(ends)
    BY DEF ReadInv, WithinBudget
  <2>2. TotalDistance(ends)' = TotalDistance(ends)
    BY <1>1, SameProblem
  <2>3. FlowCost(edge_flows)' = FlowCost(edge_flows)
    <3>1. Price' = Price
      BY <1>2 DEF Price
    <3> QED
      BY <1>1, <3>1 DEF FlowCost
  <2> QED
    BY <1>3, <2>1, <2>2, <2>3
<1> QED
  BY <1>2, <1>4, <1>5, <1>6, <1>7, <1>8, <1>9 DEF ReadInv

\* Reading a schedule off a flow keeps the account of tasks, flow and costs.
THEOREM FlowRead == FlowSpec => []ReadInv
<1>1. FlowInit => ReadInv
  BY FlowAtStart
<1>2. ReadInv /\ [FlowNext]_flowVars => ReadInv'
  BY TakeReads, WalkReads, StillReads DEF FlowNext
<1> QED
  BY <1>1, <1>2, PTL DEF FlowSpec

\* No worker finds himself in a cell without a task and without flow that leads on ("No
\* solution found."), even after others have taken the tasks that the flow meant for him.
THEOREM AllServed == FlowSpec => []WorkersServed
<1>1. ReadInv => WorkersServed
  BY DEF ReadInv, Reading, Served, WorkersServed
<1> QED
  BY <1>1, FlowRead, PTL

\* The schedule that the flow schedulers read off is a cheapest one, whatever the order in
\* which the workers take their tasks and whichever of the arcs they follow.
THEOREM CheapestRead == FlowSpec => []CheapestScheduleRead
<1>1. ASSUME ReadInv, worker > NumWorkers PROVE proposed \in CheapestMatchings
  <2>1. /\ Problem /\ Reading /\ worker = NumWorkers + 1 /\ worker \in 1 .. NumWorkers + 1
        /\ background_flow \in BackgroundFlows
    BY <1>1, WorkersFinite DEF ReadInv, Reading, Problem
  <2>2. Served = Worker /\ worker \notin Worker
    BY <2>1, ServedTypes
  <2>3. proposed \in [Worker -> DOMAIN flexible_tasks]
    BY <2>1, <2>2 DEF Reading
  <2>4. ASSUME NEW c \in DOMAIN flexible_tasks
        PROVE  Cardinality({w \in Worker : proposed[w] = c}) <= flexible_tasks[c]
    <3>1. /\ Taken(c) = Cardinality({w \in Worker : proposed[w] = c}) /\ Taken(c) \in Nat
      BY <2>1, <2>2, TakenTypes
    <3>2. Taken(c) + Left(c) = flexible_tasks[c]
      BY <1>1 DEF ReadInv, TasksCounted
    <3>3. Left(c) \in Nat
      BY <2>1 DEF Left, Reading
    <3> QED
      BY <3>1, <3>2, <3>3
  <2>5. ASSUME NEW w \in Worker
        PROVE  PathsTo(w, proposed[w]) # {}
    <3>1. Joined(start_locations[w], proposed[w])
      BY <1>1, <2>2 DEF ReadInv, WithinReach
    <3>2. start_locations[w] \in Free /\ proposed[w] \in Free
      BY <2>1, <2>3, ProblemTypes
    <3> QED
      BY <2>1, <3>1, <3>2, DistanceIs DEF PathsTo
  <2>6. proposed \in Matchings
    BY <2>3, <2>4, <2>5 DEF Matchings
  <2>7. Spent = TotalDistance(proposed)
    <3>1. Walked = Ways(proposed)
      BY <2>2 DEF Walked, Ways
    <3> QED
      BY <2>2, <3>1, TotalOfWays DEF Spent
  <2>8. \A other \in Matchings : TotalDistance(proposed) <= TotalDistance(other)
    <3> SUFFICES ASSUME NEW other \in Matchings
                 PROVE  TotalDistance(proposed) <= TotalDistance(other)
      OBVIOUS
    <3>1. Spent + Ahead + FlowCost(edge_flows) <= TotalDistance(other)
      BY <1>1 DEF ReadInv, WithinBudget
    <3>2. Spent \in Nat /\ Ahead \in Nat /\ FlowCost(edge_flows) \in Nat /\ TotalDistance(other) \in Nat
      BY <1>1, <2>1, BudgetTypes, TotalType
    <3> QED
      BY <2>7, <3>1, <3>2
  <2> QED
    BY <2>6, <2>8 DEF CheapestMatchings
<1>2. ReadInv => CheapestScheduleRead
  BY <1>1 DEF CheapestScheduleRead
<1> QED
  BY <1>2, FlowRead, PTL

=============================================================================
