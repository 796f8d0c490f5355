---------------------- MODULE CompetitionSystemProofs ----------------------
(***************************************************************************)
(* Proofs about the simulation loop and the simulator in it, for every     *)
(* map, team, task file, horizon, commit window, scheduler and planner.    *)
(*                                                                         *)
(* First the simulator by itself.  The action model compares each agent    *)
(* with those of lower index only; that this is enough for every pair, and *)
(* that the linear order of the cells agrees with the map when it has two  *)
(* columns at least, is what its theorems rest on.                         *)
(*                                                                         *)
(* Then the system.  Its invariant has a part for each of the things that  *)
(* have to fit together: the clock, the environment given to the planner   *)
(* thread, the waiting counters, and the invariants of the simulator and   *)
(* of the task manager, the latter by an instance of TaskManagerProofs.    *)
(***************************************************************************)
EXTENDS CompetitionSystem, Lemmas, SequenceTheorems

-----------------------------------------------------------------------------
(* What an action does, in the code's arithmetic and on the map.           *)

\* Cells are natural numbers.
LEMMA CellIsNat ==
  ASSUME NEW c \in Cell
  PROVE  c \in Nat
  BY GridAssumption DEF Cell

\* The distance of two cells is that of their rows and columns on a map of this width.
LEMMA DistanceOfCells ==
  ASSUME NEW c \in Cell, NEW d \in Cell
  PROVE  /\ c \in Nat /\ d \in Nat /\ Cols \in Nat \ {0}
         /\ Distance(c, d) = CellDistance(c, d, Cols) /\ Distance(d, c) = CellDistance(d, c, Cols)
  BY CellIsNat, GridAssumption DEF Distance, CellDistance, Abs, Magnitude

\* Row and column of a cell.
LEMMA RowCol ==
  ASSUME NEW c \in Cell
  PROVE  /\ c \div Cols \in Nat /\ c % Cols \in 0 .. Cols - 1
         /\ c = Cols * (c \div Cols) + (c % Cols)
<1>1. c \in Nat /\ Cols \in Nat \ {0}
  BY CellIsNat, GridAssumption
<1> QED
  BY <1>1, DivMod

\* On maps of two columns at least, a move that the action model allows leads to the cell
\* that the action names, and every such cell is allowed.
LEMMA AllowedIsHeads ==
  ASSUME Cols > 1, NEW c \in Free, NEW action \in Action, NEW d \in Free
  PROVE  Heads(c, action, d) <=> d = c + Moves(action) /\ Allowed(c, d)
<1> DEFINE q == c \div Cols
           r == c % Cols
           q2 == d \div Cols
           r2 == d % Cols
<1>1. c \in Cell /\ d \in Cell /\ c \in Nat /\ d \in Nat /\ d \notin Obstacles /\ Cols \in Nat \ {0}
  BY CellIsNat, GridAssumption DEF Free
<1>2. q \in Nat /\ r \in Nat /\ c = Cols * q + r
  BY <1>1, RowCol
<1>3. q2 \in Nat /\ r2 \in Nat /\ d = Cols * q2 + r2
  BY <1>1, RowCol
<1>4. Allowed(c, d) <=> Distance(c, d) <= 1
  BY <1>1 DEF Allowed
<1>5. CASE action = "N"
  <2>1. Heads(c, action, d) <=> q2 = q - 1 /\ r2 = r
    BY <1>5 DEF Heads
  <2>2. q2 = q - 1 /\ r2 = r => d = c - Cols
    <3> HIDE DEF q, r, q2, r2
    <3> QED
      BY <1>1, <1>2, <1>3
  <2>3. ASSUME d = c - Cols
        PROVE  q2 = q - 1 /\ r2 = r /\ Distance(c, d) = 1
    <3>1. c = d + Cols
      BY <1>1, <2>3
    <3>2. q = q2 + 1 /\ r = r2 /\ Distance(c, d) = 1
      <4>1. Distance(c, d) = CellDistance(c, d, Cols)
        BY <1>1, DistanceOfCells
      <4> QED
        BY <1>1, <3>1, <4>1, StepSouth
    <3> HIDE DEF q, r, q2, r2
    <3> QED
      BY <1>2, <1>3, <3>2
  <2>4. c + Moves(action) = c - Cols
    BY <1>1, <1>5 DEF Moves
  <2> QED
    BY <1>4, <2>1, <2>2, <2>3, <2>4
<1>6. CASE action = "S"
  <2>1. Heads(c, action, d) <=> q2 = q + 1 /\ r2 = r
    BY <1>6 DEF Heads
  <2>2. q2 = q + 1 /\ r2 = r => d = c + Cols
    <3> HIDE DEF q, r, q2, r2
    <3> QED
      BY <1>1, <1>2, <1>3
  <2>3. ASSUME d = c + Cols
        PROVE  q2 = q + 1 /\ r2 = r /\ Distance(c, d) = 1
    <3>1. Distance(c, d) = CellDistance(c, d, Cols)
      BY <1>1, DistanceOfCells
    <3> QED
      BY <1>1, <2>3, <3>1, StepSouth
  <2>4. c + Moves(action) = c + Cols
    BY <1>1, <1>6 DEF Moves
  <2> QED
    BY <1>4, <2>1, <2>2, <2>3, <2>4
<1>7. CASE action = "E"
  <2>1. Heads(c, action, d) <=> q2 = q /\ r2 = r + 1
    BY <1>7 DEF Heads
  <2>2. q2 = q /\ r2 = r + 1 => d = c + 1
    <3> HIDE DEF q, r, q2, r2
    <3> QED
      BY <1>1, <1>2, <1>3
  <2>3. ASSUME d = c + 1
        PROVE  Distance(c, d) <= 1 <=> q2 = q /\ r2 = r + 1
    BY <1>1, <2>3, DistanceOfCells, StepEast
  <2>4. c + Moves(action) = c + 1
    BY <1>1, <1>7 DEF Moves
  <2> QED
    BY <1>4, <2>1, <2>2, <2>3, <2>4
<1>8. CASE action = "WE"
  <2>1. Heads(c, action, d) <=> q2 = q /\ r2 = r - 1
    BY <1>8 DEF Heads
  <2>2. q2 = q /\ r2 = r - 1 => d = c - 1
    <3> HIDE DEF q, r, q2, r2
    <3> QED
      BY <1>1, <1>2, <1>3
  <2>3. ASSUME d = c - 1
        PROVE  Distance(c, d) <= 1 <=> q2 = q /\ r2 = r - 1
    <3>1. c = d + 1
      BY <1>1, <2>3
    <3>2. Distance(c, d) <= 1 <=> q = q2 /\ r = r2 + 1
      BY <1>1, <3>1, DistanceOfCells, StepEast
    <3> HIDE DEF q, r, q2, r2
    <3> QED
      BY <1>2, <1>3, <3>2
  <2>4. c + Moves(action) = c - 1
    BY <1>1, <1>8 DEF Moves
  <2> QED
    BY <1>4, <2>1, <2>2, <2>3, <2>4
<1>9. CASE action \in {"WA", "NA"}
  <2>1. Heads(c, action, d) <=> d = c
    BY <1>9 DEF Heads
  <2>2. c + Moves(action) = c
    BY <1>1, <1>9 DEF Moves
  <2>3. d = c => Distance(c, d) <= 1
    BY <1>1, DistanceOfCells, DistanceZero
  <2> QED
    BY <1>4, <2>1, <2>2, <2>3
<1> QED
  BY <1>5, <1>6, <1>7, <1>8, <1>9 DEF Action

-----------------------------------------------------------------------------
(* Least and greatest agents: the first faulty one, the one in its way.    *)

\* Every set of natural numbers but the empty one has a least element.
LEMMA LeastOf ==
  ASSUME NEW S \in SUBSET Nat, S # {}
  PROVE  \E m \in S : \A k \in S : m <= k
<1> DEFINE R == OpToRel(<, Nat)
<1>1. IsWellFoundedOn(R, Nat)
  BY NatLessThanWellFounded
<1>2. \A x, y \in Nat : x < y => << x, y >> \in R
  BY DEF OpToRel
<1> HIDE DEF R
<1>3. PICK m \in S : \A k \in S : ~ (<< k, m >> \in R)
  BY <1>1, WFMin
<1>4. \A k \in S : ~ (k < m)
  BY <1>2, <1>3
<1> QED
  BY <1>4

LEMMA MinOf ==
  ASSUME NEW S \in SUBSET Nat, S # {}
  PROVE  Min(S) \in S /\ \A k \in S : Min(S) <= k
  BY LeastOf DEF Min

\* A bounded set has a greatest element: look for the least distance to the bound.
LEMMA MaxOf ==
  ASSUME NEW n \in Nat, NEW S \in SUBSET (0 .. n), S # {}
  PROVE  Max(S) \in S
<1> DEFINE T == {x \in 0 .. n : n - x \in S}
<1>1. T \in SUBSET Nat /\ T # {}
  <2>1. PICK k \in S : TRUE
    OBVIOUS
  <2>2. k \in 0 .. n /\ n - k \in 0 .. n
    BY <2>1
  <2>3. n - (n - k) = k
    BY <2>2
  <2>4. n - (n - k) \in S
    BY <2>1, <2>3, Zenon
  <2>5. n - k \in T
    BY <2>2, <2>4, Zenon
  <2>6. T \in SUBSET Nat
    OBVIOUS
  <2> QED
    BY <2>5, <2>6, Zenon
<1>2. PICK m \in T : \A k \in T : m <= k
  <2> HIDE DEF T
  <2> QED
    BY <1>1, LeastOf
<1>3. n - m \in S /\ m \in 0 .. n
  BY <1>2
<1>4. \A y \in S : n - m >= y
  <2>1. ASSUME NEW y \in S
        PROVE  n - m >= y
    <3>1. y \in 0 .. n /\ n - y \in 0 .. n /\ n - (n - y) = y
      OBVIOUS
    <3>2. n - y \in T
      BY <3>1
    <3>3. m <= n - y
      BY <1>2, <3>2
    <3> QED
      BY <1>3, <3>1, <3>3
  <2> QED
    BY <2>1
<1> QED
  BY <1>3, <1>4 DEF Max

-----------------------------------------------------------------------------
(* What is_valid guarantees.                                               *)

AgentsOf(S) == {b \in Agent : b \in S}

LEMMA AgentIsNat ==
  /\ Agent \subseteq Nat
  /\ \A a \in Agent : 0 .. a - 1 \subseteq Agent /\ a \notin 0 .. a - 1
  /\ \A a, b \in Agent : a # b => a \in 0 .. b - 1 \/ b \in 0 .. a - 1
  BY TeamAssumption DEF Agent

\* An agent that is not faulty conflicts with no agent of lower index.
LEMMA NotFaulty ==
  ASSUME NEW from, NEW to, NEW a, ~ Faulty(from, to, a)
  PROVE  /\ Allowed(from[a], to[a])
         /\ \A b \in 0 .. a - 1 : /\ to[b] # to[a]
                                  /\ ~ (to[b] = from[a] /\ from[b] = to[a])
  BY DEF Faulty, VertexConflicts, EdgeConflicts

\* Comparing with lower indices only is enough: a valid vector has no conflict at all.
LEMMA ValidIsConflictFree ==
  ASSUME NEW prev, NEW actions, is_valid(prev, actions)
  PROVE  /\ DOMAIN actions = Agent
         /\ \A a \in Agent : Allowed(prev[a], result_states(prev, actions)[a])
         /\ MAPFModel!ConflictFree(prev, result_states(prev, actions))
<1> DEFINE to == result_states(prev, actions)
<1>1. DOMAIN actions = Agent /\ \A a \in Agent : ~ Faulty(prev, to, a)
  BY DEF is_valid, SizeMatches
<1> HIDE DEF to
<1>2. \A a \in Agent : Allowed(prev[a], to[a])
  BY <1>1, NotFaulty
<1>3. ASSUME NEW a \in Agent, NEW b \in Agent, a # b
      PROVE  to[a] # to[b] /\ ~ (to[a] = prev[b] /\ to[b] = prev[a])
  <2>1. CASE b \in 0 .. a - 1
    BY <1>1, <2>1, NotFaulty
  <2>2. CASE a \in 0 .. b - 1
    BY <1>1, <2>2, NotFaulty
  <2> QED
    BY <1>3, <2>1, <2>2, AgentIsNat
<1>4. MAPFModel!ConflictFree(prev, to)
  BY <1>3 DEF MAPFModel!ConflictFree
<1> QED
  BY <1>1, <1>2, <1>4 DEF to

\* Waiting changes nothing.
LEMMA WaitStays ==
  ASSUME NEW s \in [Agent -> Free]
  PROVE  result_states(s, [a \in Agent |-> "WA"]) = s
<1>1. \A a \in Agent : s[a] \in Int
  BY CellIsNat DEF Free
<1> QED
  BY <1>1 DEF result_states, Moves

\* What a move does to the locations, whatever the vector of actions is.
LEMMA MoveStates ==
  ASSUME NEW actions, move(actions), curr_states \in [Agent -> Free], NoCollision
  PROVE  /\ curr_states' \in [Agent -> Free]
         /\ \A a \in Agent : Allowed(curr_states[a], curr_states'[a]) \/ curr_states'[a] = curr_states[a]
         /\ MAPFModel!ConflictFree(curr_states, curr_states')
         /\ ~ is_valid(curr_states, actions) => curr_states' = curr_states
         /\ is_valid(curr_states, actions) => curr_states' = result_states(curr_states, actions)
<1>1. CASE is_valid(curr_states, actions)
  <2>1. curr_states' = result_states(curr_states, actions)
    BY <1>1 DEF move, Executed
  <2>2. \A a \in Agent : Allowed(curr_states[a], curr_states'[a])
    BY <1>1, <2>1, ValidIsConflictFree
  <2>3. \A a \in Agent : curr_states'[a] \in Free
    BY <2>2 DEF Allowed, Free
  <2>4. curr_states' \in [Agent -> Free]
    BY <2>1, <2>3 DEF result_states
  <2> QED
    BY <1>1, <2>1, <2>2, <2>4, ValidIsConflictFree
<1>2. CASE ~ is_valid(curr_states, actions)
  <2>1. curr_states' = curr_states
    BY <1>2, WaitStays DEF move, Executed
  <2> QED
    BY <1>2, <2>1 DEF NoCollision, MAPFModel!ConflictFree
<1> QED
  BY <1>1, <1>2

-----------------------------------------------------------------------------
(* The invariant.                                                          *)

\* The error that is recorded for a refused vector names agents of the team, the first of
\* which is faulty while none before it is.
LEMMA FirstErrorType ==
  ASSUME NEW prev, NEW actions, ~ is_valid(prev, actions), NEW time \in Nat
  PROVE  /\ FirstError(prev, actions, time) \in ErrorRecord
         /\ SizeMatches(actions) =>
              \E a \in Agent :
                LET to == result_states(prev, actions) IN
                /\ FirstError(prev, actions, time) = ErrorOfAgent(prev, to, a, time)
                /\ Faulty(prev, to, a)
                /\ \A b \in 0 .. a - 1 : ~ Faulty(prev, to, b)
<1> DEFINE to == result_states(prev, actions)
           F  == {a \in Agent : Faulty(prev, to, a)}
<1>1. CASE ~ SizeMatches(actions)
  BY <1>1 DEF FirstError, ErrorEntry, ErrorRecord, ErrorKind
<1>2. CASE SizeMatches(actions)
  <2>1. F # {} /\ F \in SUBSET Nat
    BY <1>2, AgentIsNat DEF is_valid
  <2> DEFINE a == Min(F)
  <2>2. a \in F /\ \A k \in F : a <= k
    BY <2>1, MinOf
  <2>3. a \in Agent /\ Faulty(prev, to, a)
    BY <2>2
  <2>4. FirstError(prev, actions, time) = ErrorOfAgent(prev, to, a, time)
    BY <1>2 DEF FirstError
  <2> HIDE DEF a
  <2>5. \A b \in 0 .. a - 1 : ~ Faulty(prev, to, b)
    BY <2>2, <2>3, AgentIsNat
  <2> HIDE DEF F, to
  <2>6. VertexConflicts(to, a) \subseteq Agent /\ EdgeConflicts(prev, to, a) \subseteq Agent
    BY <2>3, AgentIsNat DEF VertexConflicts, EdgeConflicts
  <2>7. VertexConflicts(to, a) # {} => Max(VertexConflicts(to, a)) \in Agent
    <3>1. VertexConflicts(to, a) \in SUBSET (0 .. a)
      BY <2>3, AgentIsNat DEF VertexConflicts
    <3> QED
      BY <2>3, <2>6, <3>1, MaxOf, AgentIsNat
  <2>8. EdgeConflicts(prev, to, a) # {} => Max(EdgeConflicts(prev, to, a)) \in Agent
    <3>1. EdgeConflicts(prev, to, a) \in SUBSET (0 .. a)
      BY <2>3, AgentIsNat DEF EdgeConflicts
    <3> QED
      BY <2>3, <2>6, <3>1, MaxOf, AgentIsNat
  <2>9. ErrorOfAgent(prev, to, a, time) \in ErrorRecord
    BY <2>3, <2>7, <2>8 DEF ErrorOfAgent, ErrorEntry, ErrorRecord, ErrorKind, Faulty
  <2> QED
    BY <2>3, <2>4, <2>5, <2>9 DEF to
<1> QED
  BY <1>1, <1>2

SimInv == TypeOK /\ NoCollision

LEMMA InitSimInv == Init => SimInv
  BY DEF Init, SimInv, TypeOK, NoCollision, Placements, Action

LEMMA MoveInv ==
  ASSUME SimInv, NEW actions \in ActionVectors, move(actions)
  PROVE  SimInv'
<1>1. curr_states' \in [Agent -> Free] /\ NoCollision'
  BY MoveStates DEF SimInv, TypeOK, NoCollision, MAPFModel!ConflictFree
<1>2. timestep' \in Nat /\ accu_waitings' \in [Agent -> Nat]
  BY DEF SimInv, TypeOK, move
<1>3. planner_movement' \in [Agent -> Action]
  <2>1. \A a \in DOMAIN actions : actions[a] \in Action
    <3>1. CASE actions \in LongVectors
      BY <3>1 DEF LongVectors, Action
    <3>2. ASSUME NEW n \in 0 .. NumAgents, actions \in Vectors(n)
          PROVE  \A a \in DOMAIN actions : actions[a] \in Action
      BY <3>2 DEF Vectors
    <3>3. CASE actions \in FittingVectors
      <4>1. PICK V \in {Vectors(n) : n \in 0 .. NumAgents} : actions \in V
        BY <3>3, Zenon DEF FittingVectors
      <4>2. PICK n \in 0 .. NumAgents : V = Vectors(n)
        OBVIOUS
      <4> QED
        BY <3>2, <4>1, <4>2
    <3> QED
      BY <3>1, <3>3 DEF ActionVectors
  <2> QED
    BY <2>1 DEF move, Proposed, Action
<1>4. errors' \in Seq(ErrorRecord)
  <2>1. ~ is_valid(curr_states, actions) =>
          FirstError(curr_states, actions, timestep + 1) \in ErrorRecord
    BY FirstErrorType DEF SimInv, TypeOK
  <2> QED
    BY <2>1 DEF move, SimInv, TypeOK
<1> QED
  BY <1>1, <1>2, <1>3, <1>4 DEF SimInv, TypeOK

LEMMA SyncInv ==
  ASSUME SimInv, sync_shared_env
  PROVE  SimInv'
<1>1. accu_waitings' \in [Agent -> Nat]
  BY DEF SimInv, TypeOK, sync_shared_env
<1> QED
  BY <1>1 DEF SimInv, TypeOK, NoCollision, sync_shared_env

LEMMA NextSimInv == SimInv /\ [Next]_vars => SimInv'
<1> SUFFICES ASSUME SimInv, [Next]_vars
             PROVE  SimInv'
  OBVIOUS
<1>1. CASE Move
  BY <1>1, MoveInv DEF Move
<1>2. CASE Sync
  BY <1>2, SyncInv DEF Sync
<1>3. CASE UNCHANGED vars
  BY <1>3 DEF SimInv, TypeOK, NoCollision, vars
<1> QED
  BY <1>1, <1>2, <1>3 DEF Next

\* Whatever the planner returns, the agents are on distinct free cells of the map, and the
\* records of the simulator are well formed.
THEOREM SimInvariance == Spec => []SimInv
<1> QED
  BY InitSimInv, NextSimInv, PTL DEF Spec

\* Types.
THEOREM TypeCorrect == Spec => []TypeOK
<1>1. SimInv => TypeOK
  BY DEF SimInv
<1> QED
  BY <1>1, SimInvariance, PTL

\* No two agents are ever in one cell.
THEOREM CollisionFree == Spec => []NoCollision
<1>1. SimInv => NoCollision
  BY DEF SimInv
<1> QED
  BY <1>1, SimInvariance, PTL

-----------------------------------------------------------------------------
(* Every step is a step of multi-agent path finding.                       *)

LEMMA AllowedIsAdjacent ==
  ASSUME NEW c \in Free, NEW d \in Free, Allowed(c, d)
  PROVE  c = d \/ Distance(c, d) = 1
<1>1. c \in Cell /\ d \in Cell
  BY DEF Free
<1>2. Distance(c, d) \in Nat /\ (Distance(c, d) = 0 <=> c = d) /\ Distance(c, d) <= 1
  <2>1. c \in Nat /\ d \in Nat /\ Cols \in Nat \ {0} /\ Distance(c, d) = CellDistance(c, d, Cols)
    BY <1>1, DistanceOfCells
  <2>2. CellDistance(c, d, Cols) \in Nat /\ (CellDistance(c, d, Cols) = 0 <=> c = d)
    BY <2>1, DistanceZero
  <2> QED
    BY <2>1, <2>2 DEF Allowed
<1> QED
  BY <1>2

LEMMA MoveIsMoveAll ==
  ASSUME SimInv, NEW actions, move(actions)
  PROVE  MAPFModel!MoveAll
<1>1. curr_states \in [Agent -> Free] /\ NoCollision
  BY DEF SimInv, TypeOK
<1>2. /\ curr_states' \in [Agent -> Free]
      /\ \A a \in Agent : Allowed(curr_states[a], curr_states'[a]) \/ curr_states'[a] = curr_states[a]
      /\ MAPFModel!ConflictFree(curr_states, curr_states')
  BY <1>1, MoveStates
<1>3. \A a \in Agent : \/ curr_states'[a] = curr_states[a]
                       \/ Distance(curr_states[a], curr_states'[a]) = 1
  BY <1>1, <1>2, AllowedIsAdjacent
<1> QED
  BY <1>2, <1>3 DEF MAPFModel!MoveAll

\* The simulator implements multi-agent path finding: whatever the planner returns, agents
\* move by at most one cell, and no two meet in a cell or on an edge.
THEOREM MovesCorrect == Spec => MovesConflictFree
<1>1. Init => MAPFModel!Init
  BY DEF Init, Placements, MAPFModel!Init, MAPFModel!Placements
<1>2. SimInv /\ [Next]_vars => [MAPFModel!Next]_curr_states
  <2> SUFFICES ASSUME SimInv, [Next]_vars
               PROVE  MAPFModel!Next \/ curr_states' = curr_states
    OBVIOUS
  <2>1. CASE Move
    BY <2>1, MoveIsMoveAll DEF Move, MAPFModel!Next
  <2>2. CASE Sync
    BY <2>2 DEF Sync, sync_shared_env
  <2>3. CASE UNCHANGED vars
    BY <2>3 DEF vars
  <2> QED
    BY <2>1, <2>2, <2>3 DEF Next
<1> QED
  BY <1>1, <1>2, SimInvariance, PTL DEF Spec, MovesConflictFree, MAPFModel!Spec

-----------------------------------------------------------------------------
(* Legal plans are executed, illegal ones refused with a true reason.      *)

\* The cell an allowed action leads to is the one it names.
LEMMA TargetIsResult ==
  ASSUME Cols > 1, NEW c \in Free, NEW action \in Action, Allowed(c, c + Moves(action))
  PROVE  /\ Heads(c, action, c + Moves(action))
         /\ Target(c, action) = c + Moves(action)
         /\ c + Moves(action) \in Free
<1>1. c + Moves(action) \in Free
  BY DEF Allowed, Free
<1>2. Heads(c, action, c + Moves(action))
  BY <1>1, AllowedIsHeads
<1>3. \A d \in Free : Heads(c, action, d) => d = c + Moves(action)
  BY AllowedIsHeads
<1>4. Target(c, action) = c + Moves(action)
  BY <1>1, <1>2, <1>3 DEF Target
<1> QED
  BY <1>1, <1>2, <1>4

\* An action that is not allowed names no free cell.
LEMMA NoTarget ==
  ASSUME Cols > 1, NEW c \in Free, NEW action \in Action, ~ Allowed(c, c + Moves(action)),
         NEW d \in Free
  PROVE  ~ Heads(c, action, d)
  BY AllowedIsHeads

\* is_valid accepts exactly the legal vectors.
LEMMA ValidIffLegal ==
  ASSUME Cols > 1, SimInv, NEW actions \in [Agent -> Action]
  PROVE  is_valid(curr_states, actions) <=> Legal(actions)
<1> DEFINE to == result_states(curr_states, actions)
           target == [a \in Agent |-> Target(curr_states[a], actions[a])]
<1>1. \A a \in Agent : /\ curr_states[a] \in Free /\ actions[a] \in Action
                       /\ to[a] = curr_states[a] + Moves(actions[a])
  BY DEF SimInv, TypeOK, result_states
<1>2. \A a \in Agent : Allowed(curr_states[a], to[a]) =>
        /\ Heads(curr_states[a], actions[a], to[a])
        /\ target[a] = to[a]
        /\ to[a] \in Free
  BY <1>1, TargetIsResult
<1>3. ASSUME is_valid(curr_states, actions)
      PROVE  Legal(actions)
  <2>1. \A a \in Agent : Allowed(curr_states[a], to[a])
    BY <1>3, ValidIsConflictFree
  <2>2. MAPFModel!ConflictFree(curr_states, to)
    BY <1>3, ValidIsConflictFree
  <2>3. \A a \in Agent : target[a] = to[a]
    BY <1>2, <2>1
  <2>4. \A a \in Agent : \E d \in Free : Heads(curr_states[a], actions[a], d)
    BY <1>2, <2>1
  <2> HIDE DEF to, target
  <2>5. MAPFModel!ConflictFree(curr_states, target)
    BY <2>2, <2>3 DEF MAPFModel!ConflictFree
  <2> QED
    BY <2>4, <2>5 DEF Legal, target
<1>4. ASSUME Legal(actions)
      PROVE  is_valid(curr_states, actions)
  <2>1. \A a \in Agent : Allowed(curr_states[a], to[a])
    BY <1>1, <1>4, NoTarget DEF Legal
  <2>2. \A a \in Agent : target[a] = to[a]
    BY <1>2, <2>1
  <2>3. MAPFModel!ConflictFree(curr_states, target)
    BY <1>4 DEF Legal
  <2> HIDE DEF to, target
  <2>4. MAPFModel!ConflictFree(curr_states, to)
    BY <2>2, <2>3 DEF MAPFModel!ConflictFree
  <2>5. ASSUME NEW a \in Agent
        PROVE  ~ Faulty(curr_states, to, a)
    <3>1. \A b \in 0 .. a - 1 : b \in Agent /\ a # b
      BY AgentIsNat
    <3> QED
      BY <2>1, <2>4, <3>1 DEF Faulty, VertexConflicts, EdgeConflicts, MAPFModel!ConflictFree
  <2> QED
    BY <2>5 DEF is_valid, SizeMatches, to
<1> QED
  BY <1>3, <1>4

LEMMA MoveExecutesLegal ==
  ASSUME Cols > 1, SimInv, SimInv', NEW actions, move(actions)
  PROVE  ExecutesLegal
<1>0. curr_states \in [Agent -> Free] /\ NoCollision /\ errors \in Seq(ErrorRecord)
  BY DEF SimInv, TypeOK
<1>1. CASE is_valid(curr_states, actions)
  <2>1. DOMAIN actions = Agent /\ planner_movement' = [a \in Agent |-> actions[a]]
    BY <1>1, ValidIsConflictFree DEF move, Proposed
  <2> DEFINE acts == planner_movement'
  <2>2. acts \in [Agent -> Action]
    BY DEF SimInv, TypeOK
  <2>3. \A a \in Agent : acts[a] = actions[a]
    BY <2>1
  <2>4. curr_states' = result_states(curr_states, actions)
    BY <1>0, <1>1, MoveStates
  <2>5. \A a \in Agent : Allowed(curr_states[a], curr_states[a] + Moves(actions[a]))
    BY <1>1, ValidIsConflictFree DEF result_states
  <2>6. \A a \in Agent : Heads(curr_states[a], acts[a], curr_states'[a])
    BY <1>0, <2>2, <2>3, <2>4, <2>5, TargetIsResult DEF result_states
  <2>7. is_valid(curr_states, acts)
    <3>1. result_states(curr_states, acts) = result_states(curr_states, actions)
      BY <2>3 DEF result_states
    <3>2. DOMAIN acts = DOMAIN actions
      BY <2>1, <2>2
    <3> QED
      BY <1>1, <3>1, <3>2 DEF is_valid, SizeMatches
  <2>8. Legal(acts)
    BY <2>2, <2>7, ValidIffLegal
  <2>9. errors' = errors
    BY <1>1 DEF move
  <2> QED
    BY <2>6, <2>8, <2>9 DEF ExecutesLegal
<1>2. CASE ~ is_valid(curr_states, actions)
  <2> DEFINE e == FirstError(curr_states, actions, timestep + 1)
  <2>1. curr_states' = curr_states
    BY <1>0, <1>2, MoveStates
  <2>2. errors' = Append(errors, e) /\ e \in ErrorRecord
    BY <1>2, FirstErrorType DEF move, SimInv, TypeOK
  <2>3. Len(errors') = Len(errors) + 1 /\ errors'[Len(errors')] = e
    <3> HIDE DEF e
    <3> QED
      BY <1>0, <2>2
  <2>4. ASSUME e.kind # "incorrect vector size"
        PROVE  ~ Legal(planner_movement')
    <3>1. SizeMatches(actions)
      BY <2>4 DEF FirstError, ErrorEntry
    <3>2. planner_movement' = [a \in Agent |-> actions[a]] /\ planner_movement' \in [Agent -> Action]
      BY <3>1 DEF move, Proposed, SizeMatches, SimInv, TypeOK
    <3>3. result_states(curr_states, planner_movement') = result_states(curr_states, actions)
      BY <3>2 DEF result_states
    <3>4. ~ is_valid(curr_states, planner_movement')
      BY <1>2, <3>1, <3>2, <3>3 DEF is_valid, SizeMatches
    <3> QED
      BY <3>2, <3>4, ValidIffLegal
  <2> QED
    BY <2>1, <2>3, <2>4 DEF ExecutesLegal
<1> QED
  BY <1>1, <1>2

\* On every map of two columns at least, a legal plan is executed as it is and any other is
\* refused as a whole.
THEOREM LegalExecuted == Cols > 1 /\ Spec => LegalPlansExecuted
<1>1. Cols > 1 /\ SimInv /\ SimInv' /\ [Next]_vars => [ExecutesLegal]_vars
  <2> SUFFICES ASSUME Cols > 1, SimInv, SimInv', [Next]_vars
               PROVE  ExecutesLegal \/ UNCHANGED vars
    OBVIOUS
  <2>1. CASE Move
    BY <2>1, MoveExecutesLegal DEF Move
  <2>2. CASE Sync
    BY <2>2 DEF Sync, sync_shared_env, ExecutesLegal
  <2> QED
    BY <2>1, <2>2 DEF Next
<1>2. Cols > 1 => [](Cols > 1)
  OBVIOUS
<1> QED
  BY <1>1, <1>2, SimInvariance, PTL DEF Spec, LegalPlansExecuted

\* The entry made for a faulty agent is true of the agents it names.
LEMMA EntryNamesConflict ==
  ASSUME Cols > 1, SimInv, NEW acts \in [Agent -> Action], NEW a \in Agent, NEW time,
         LET to == result_states(curr_states, acts) IN
           Faulty(curr_states, to, a) /\ \A b \in 0 .. a - 1 : ~ Faulty(curr_states, to, b)
  PROVE  TrueEntry(ErrorOfAgent(curr_states, result_states(curr_states, acts), a, time), acts)
<1> DEFINE to == result_states(curr_states, acts)
           e  == ErrorOfAgent(curr_states, to, a, time)
           target == [b \in Agent |-> Target(curr_states[b], acts[b])]
<1>1. \A b \in Agent : /\ curr_states[b] \in Free /\ acts[b] \in Action
                       /\ to[b] = curr_states[b] + Moves(acts[b])
  BY DEF SimInv, TypeOK, result_states
<1>2. \A b \in Agent : Allowed(curr_states[b], to[b]) => target[b] = to[b]
  BY <1>1, TargetIsResult
<1>3. \A b \in 0 .. a - 1 : b \in Agent /\ b # a /\ target[b] = to[b]
  BY <1>2, AgentIsNat, NotFaulty
<1>4. Faulty(curr_states, to, a)
  OBVIOUS
<1>5. ~ Allowed(curr_states[a], to[a]) =>
        \A d \in Free : ~ Heads(curr_states[a], acts[a], d)
  BY <1>1, NoTarget
<1> HIDE DEF to, target
<1>6. ASSUME ~ Allowed(curr_states[a], to[a])
      PROVE  TrueEntry(e, acts)
  <2>1. e = ErrorEntry("unallowed move", a, None, time)
    BY <1>6 DEF ErrorOfAgent
  <2> HIDE DEF e
  <2>2. e.kind = "unallowed move" /\ e.agent = a
    BY <2>1 DEF ErrorEntry
  <2> QED
    BY <1>5, <1>6, <2>2 DEF TrueEntry
<1>7. ASSUME Allowed(curr_states[a], to[a]), VertexConflicts(to, a) # {}
      PROVE  TrueEntry(e, acts)
  <2> DEFINE b == Max(VertexConflicts(to, a))
  <2>1. e = ErrorEntry("vertex conflict", a, b, time)
    BY <1>7 DEF ErrorOfAgent
  <2>2. VertexConflicts(to, a) \in SUBSET (0 .. a)
    BY AgentIsNat DEF VertexConflicts
  <2>3. b \in VertexConflicts(to, a)
    BY <1>7, <2>2, MaxOf, AgentIsNat
  <2>4. b \in 0 .. a - 1 /\ to[b] = to[a]
    BY <2>3 DEF VertexConflicts
  <2>5. b # a /\ target[b] = target[a]
    BY <1>2, <1>3, <1>7, <2>4
  <2> HIDE DEF b, e
  <2>6. e.kind = "vertex conflict" /\ e.agent = a /\ e.other = b
    BY <2>1 DEF ErrorEntry
  <2> QED
    BY <2>4, <2>5, <2>6 DEF TrueEntry, target
<1>8. ASSUME Allowed(curr_states[a], to[a]), VertexConflicts(to, a) = {}
      PROVE  TrueEntry(e, acts)
  <2> DEFINE b == Max(EdgeConflicts(curr_states, to, a))
  <2>1. e = ErrorEntry("edge conflict", a, b, time)
    BY <1>8 DEF ErrorOfAgent
  <2>2. EdgeConflicts(curr_states, to, a) \in SUBSET (0 .. a)
    BY AgentIsNat DEF EdgeConflicts
  <2>3. EdgeConflicts(curr_states, to, a) # {}
    BY <1>4, <1>8 DEF Faulty
  <2>4. b \in EdgeConflicts(curr_states, to, a)
    BY <2>2, <2>3, MaxOf, AgentIsNat
  <2>5. b \in 0 .. a - 1 /\ to[b] = curr_states[a] /\ curr_states[b] = to[a]
    BY <2>4 DEF EdgeConflicts
  <2>6. b # a /\ target[b] = curr_states[a] /\ target[a] = curr_states[b]
    BY <1>2, <1>3, <1>8, <2>5
  <2> HIDE DEF b, e
  <2>7. e.kind = "edge conflict" /\ e.agent = a /\ e.other = b
    BY <2>1 DEF ErrorEntry
  <2> QED
    BY <2>5, <2>6, <2>7 DEF TrueEntry, target
<1> QED
  BY <1>6, <1>7, <1>8 DEF to

LEMMA MoveNamesConflict ==
  ASSUME Cols > 1, SimInv, SimInv', NEW actions, move(actions)
  PROVE  NamesConflict
<1> SUFFICES ASSUME errors' # errors
             PROVE  NamesConflict
  BY DEF NamesConflict
<1> DEFINE e == FirstError(curr_states, actions, timestep + 1)
           acts == planner_movement'
<1>1. ~ is_valid(curr_states, actions) /\ errors' = Append(errors, e)
  BY DEF move
<1>2. e \in ErrorRecord /\ errors \in Seq(ErrorRecord)
  BY <1>1, FirstErrorType DEF SimInv, TypeOK
<1>3. errors'[Len(errors')] = e
  <2> HIDE DEF e
  <2> QED
    BY <1>1, <1>2
<1>4. CASE ~ SizeMatches(actions)
  <2>1. e.kind = "incorrect vector size"
    BY <1>4 DEF FirstError, ErrorEntry
  <2> HIDE DEF e, acts
  <2>2. TrueEntry(e, acts)
    BY <2>1 DEF TrueEntry
  <2> QED
    BY <1>3, <2>2 DEF NamesConflict, acts
<1>5. CASE SizeMatches(actions)
  <2>1. acts = [a \in Agent |-> actions[a]] /\ acts \in [Agent -> Action]
    BY <1>5 DEF move, Proposed, SizeMatches, SimInv, TypeOK
  <2>2. result_states(curr_states, acts) = result_states(curr_states, actions)
    BY <2>1 DEF result_states
  <2>3. timestep + 1 \in Nat
    BY DEF SimInv, TypeOK
  <2>4. PICK a \in Agent :
          LET to == result_states(curr_states, acts) IN
          /\ e = ErrorOfAgent(curr_states, to, a, timestep + 1)
          /\ Faulty(curr_states, to, a)
          /\ \A b \in 0 .. a - 1 : ~ Faulty(curr_states, to, b)
    BY <1>1, <1>5, <2>2, <2>3, FirstErrorType
  <2> HIDE DEF e, acts
  <2>5. TrueEntry(e, acts)
    BY <2>1, <2>4, EntryNamesConflict
  <2> QED
    BY <1>3, <2>5 DEF NamesConflict, acts
<1> QED
  BY <1>4, <1>5

\* On every map of two columns at least, a recorded error is one the refused plan has.
THEOREM ErrorsTrue == Cols > 1 /\ Spec => ErrorsNameConflicts
<1>1. Cols > 1 /\ SimInv /\ SimInv' /\ [Next]_vars => [NamesConflict]_vars
  <2> SUFFICES ASSUME Cols > 1, SimInv, SimInv', [Next]_vars
               PROVE  NamesConflict \/ UNCHANGED vars
    OBVIOUS
  <2>1. CASE Move
    BY <2>1, MoveNamesConflict DEF Move
  <2>2. CASE Sync
    BY <2>2 DEF Sync, sync_shared_env, NamesConflict
  <2> QED
    BY <2>1, <2>2 DEF Next
<1>2. Cols > 1 => [](Cols > 1)
  OBVIOUS
<1> QED
  BY <1>1, <1>2, SimInvariance, PTL DEF Spec, ErrorsNameConflicts


-----------------------------------------------------------------------------
(* The clock: timesteps, lost timesteps and the planner thread.            *)

\* The planner thread is joined.
Joined == ~ started /\ compute = "none"

ClockTyped ==
  /\ timestep \in Nat /\ timeout_timesteps \in Nat /\ late_moves \in Nat
  /\ total_timeouts \in Nat /\ planner_times \in Nat
  /\ started \in BOOLEAN
  /\ compute \in {"none", "schedule", "plan", "ready"}
  /\ timestep <= SimulationTime
  /\ main \in {"initialize", "sync", "wait", "late", "execute", "done", "exit124"}

\* In a call of plan, late_moves of the lost timesteps are executed.
Clock ==
  /\ ClockTyped
  /\ main \in {"initialize", "sync", "execute", "exit124"} => Joined
  /\ main \in {"initialize", "exit124"} =>
       timestep = 0 /\ total_timeouts = 0 /\ planner_times = 0
  /\ main \in {"sync", "wait", "execute"} => timestep = total_timeouts + planner_times
  /\ main = "wait" => timestep + timeout_timesteps <= SimulationTime
  /\ main = "late" =>
       /\ timestep = total_timeouts + planner_times + late_moves
       /\ late_moves <= timeout_timesteps
       /\ timestep + timeout_timesteps <= SimulationTime + late_moves
       /\ Joined \/ timestep + timeout_timesteps = SimulationTime + late_moves
  /\ main = "execute" => timestep < SimulationTime
  /\ main = "done" =>
       /\ timestep = SimulationTime
       /\ \/ total_timeouts + planner_times = timestep
          \/ total_timeouts + planner_times = timestep + 1

LEMMA InitClock == SystemInit => Clock
<1> SUFFICES ASSUME SystemInit PROVE Clock
  OBVIOUS
<1>1. Joined /\ started \in BOOLEAN
  BY DEF SystemInit, Joined
<1>2. /\ main = "initialize" /\ compute = "none" /\ timestep = 0
      /\ timeout_timesteps = 0 /\ late_moves = 0 /\ total_timeouts = 0 /\ planner_times = 0
  BY DEF SystemInit, Init
<1> QED
  BY <1>1, <1>2, SimulationTimeAssumption DEF Clock, ClockTyped

LEMMA NextClock ==
  ASSUME Clock, [SystemNext]_system
  PROVE  Clock'
<1> USE SimulationTimeAssumption DEF Clock, ClockTyped, Joined
<1>1. CASE Initialize
  BY <1>1 DEF Initialize
<1>2. CASE InitializeTimeout
  BY <1>2 DEF InitializeTimeout, sim, plan
<1>3. CASE Launch
  BY <1>3 DEF Launch
<1>4. CASE Finish
  BY <1>4 DEF Finish, sim, plan
<1>5. CASE PlanReady
  <2>1. Joined' /\ started' \in BOOLEAN
    BY <1>5 DEF PlanReady
  <2>2. /\ main = "wait" /\ main' = "late" /\ compute' = "none" /\ late_moves' = 0
        /\ UNCHANGED << timestep, timeout_timesteps, total_timeouts, planner_times >>
    BY <1>5 DEF PlanReady, sim
  <2> HIDE DEF Joined
  <2> QED
    BY <2>1, <2>2
<1>6. CASE PlanTimeout
  BY <1>6 DEF PlanTimeout, WithinHorizon, sim, plan
<1>7. CASE GiveUp
  BY <1>7 DEF GiveUp, WithinHorizon, sim, plan
<1>8. CASE LateMove
  BY <1>8 DEF LateMove, move, plan
<1>9. CASE LateDone
  BY <1>9 DEF LateDone, sim, plan
<1>10. CASE Execute
  BY <1>10 DEF Execute, move
<1>11. CASE ComputeSchedule
  BY <1>11 DEF ComputeSchedule, sim, loop
<1>12. CASE ComputePlan
  BY <1>12 DEF ComputePlan, sim, loop
<1>13. CASE UNCHANGED system
  BY <1>13 DEF system, sim, loop, plan
<1> QED
  BY <1>1, <1>2, <1>3, <1>4, <1>5, <1>6, <1>7, <1>8, <1>9, <1>10, <1>11, <1>12, <1>13
  DEF SystemNext, MainNext, ComputeNext

LEMMA ClockInvariance == SystemSpec => []Clock
  BY InitClock, NextClock, PTL DEF SystemSpec

\* Every timestep is executed by a plan or lost to a timeout, and the simulation ends at the
\* horizon exactly.
THEOREM ClockCorrect == SystemSpec => []TimeAccounted
<1>1. Clock => TimeAccounted
  BY DEF Clock, ClockTyped, TimeAccounted
<1> QED
  BY <1>1, ClockInvariance, PTL

\* The planner thread is joined before the main thread reads its results or starts another,
\* but at the horizon.
THEOREM ThreadJoined == SystemSpec => []JoinedBeforeUse
<1>1. Clock => JoinedBeforeUse
  BY SimulationTimeAssumption DEF Clock, ClockTyped, Joined, JoinedBeforeUse
<1> QED
  BY <1>1, ClockInvariance, PTL

-----------------------------------------------------------------------------
(* The simulator within the system.                                        *)

\* The simulator's invariant: types, and no two agents in one cell.
LEMMA SystemInitSim == SystemInit => SimInv
  BY InitSimInv DEF SystemInit

LEMMA StepSimInv ==
  ASSUME SimInv, [Next]_(vars)
  PROVE  SimInv'
  BY NextSimInv

LEMMA SimTyped ==
  ASSUME SimInv
  PROVE  /\ curr_states \in [Agent -> Free] /\ timestep \in Nat
         /\ planner_movement \in [Agent -> Action]
         /\ accu_waitings \in [Agent -> Nat]
         /\ \A a, b \in Agent : curr_states[a] = curr_states[b] => a = b
  BY DEF SimInv, TypeOK, NoCollision

\* The vectors of the loop itself are vectors of the right size.
LEMMA OneForAll ==
  ASSUME NEW action \in {"WA", "NA"}
  PROVE  [a \in Agent |-> action] \in ActionVectors
<1>1. [a \in Agent |-> action] \in Vectors(NumAgents)
  BY DEF Vectors, Agent, Action
<1>2. NumAgents \in 0 .. NumAgents
  BY TeamAssumption
<1>3. [a \in Agent |-> action] \in FittingVectors
  BY <1>1, <1>2, Zenon DEF FittingVectors
<1> QED
  BY <1>3 DEF ActionVectors

\* An agent that leaves its cell does so by an action that is not a wait.
LEMMA MovesByAction ==
  ASSUME SimInv, NEW actions, move(actions), NEW a \in Agent
  PROVE  planner_movement'[a] \in {"NA", "WA"} => curr_states'[a] = curr_states[a]
<1> SUFFICES ASSUME planner_movement'[a] \in {"NA", "WA"}
             PROVE  curr_states'[a] = curr_states[a]
  OBVIOUS
<1>1. curr_states[a] \in Int
  BY SimTyped, GridAssumption DEF Free, Cell
<1>2. curr_states'[a] = curr_states[a] + Moves(Executed(actions)[a])
  BY DEF move, result_states, Agent
<1>3. Executed(actions)[a] \in {"NA", "WA"}
  BY DEF move, Executed, Proposed, is_valid, SizeMatches, Agent
<1>4. Moves(Executed(actions)[a]) = 0
  BY <1>3 DEF Moves
<1> QED
  BY <1>1, <1>2, <1>4

\* A lost timestep: nobody moves, and no counter will go on because of it.
LEMMA LostTimestep ==
  ASSUME SimInv, move([a \in Agent |-> "NA"])
  PROVE  /\ curr_states' = curr_states
         /\ planner_movement' = [a \in Agent |-> "NA"]
<1>1. planner_movement' = [a \in Agent |-> "NA"]
  BY DEF move, Proposed, Agent
<1>2. curr_states' = [a \in Agent |-> curr_states'[a]]
  BY DEF move, result_states, Agent
<1>3. \A a \in Agent : curr_states'[a] = curr_states[a]
  BY <1>1, MovesByAction
<1> QED
  BY <1>1, <1>2, <1>3, SimTyped

-----------------------------------------------------------------------------
(* Moves and waiting counters.                                             *)

Moving == SimInv /\ proposed_actions \in ActionVectors

\* At "sync" the last move is not counted yet.
Counters ==
  /\ moved_at \in [Agent -> Nat]
  /\ \A a \in Agent :
       /\ moved_at[a] <= timestep
       /\ accu_waitings[a] <= timestep
       /\ main \notin {"sync", "done"} => accu_waitings[a] + moved_at[a] <= timestep
       /\ main = "initialize" => planner_movement[a] = "NA"
       /\ main = "sync" /\ planner_movement[a] = "NA" =>
            accu_waitings[a] + moved_at[a] <= timestep
       /\ main = "sync" /\ planner_movement[a] = "WA" =>
            accu_waitings[a] + moved_at[a] < timestep

LEMMA InitMoving == SystemInit => Moving /\ Counters
<1> SUFFICES ASSUME SystemInit PROVE Moving /\ Counters
  OBVIOUS
<1>1. Moving
  BY SystemInitSim, OneForAll DEF Moving, SystemInit
<1>2. Counters
  BY DEF Counters, SystemInit, Init, Agent
<1> QED
  BY <1>1, <1>2

\* The steps that leave the simulator alone.
LEMMA MovingKept ==
  ASSUME Moving, UNCHANGED << sim, proposed_actions >>
  PROVE  [Next]_(vars) /\ Moving'
<1>1. [Next]_(vars)
  BY DEF vars, sim
<1> QED
  BY <1>1, StepSimInv DEF Moving

LEMMA CountersKept ==
  ASSUME Counters, UNCHANGED << sim, moved_at >>, main # "sync", main' \notin {"sync", "initialize"},
         main = "done" => main' = "done"
  PROVE  Counters'
  BY DEF Counters, sim

LEMMA InitializeMoving ==
  ASSUME Clock, Moving, Counters, Initialize
  PROVE  [Next]_(vars) /\ Moving' /\ Counters'
<1> USE DEF Initialize, sync_environment
<1>1. UNCHANGED << curr_states, timestep, planner_movement, errors >>
  BY DEF sync_shared_env
<1>2. accu_waitings' = accu_waitings
  <2>1. \A a \in Agent : planner_movement[a] = "NA"
    BY DEF Counters
  <2>2. accu_waitings' = [a \in Agent |-> accu_waitings[a]]
    BY <2>1 DEF sync_shared_env, Agent
  <2> QED
    BY <2>2, SimTyped DEF Moving
<1>3. [Next]_(vars)
  BY <1>1, <1>2 DEF vars
<1>4. Moving'
  BY <1>3, StepSimInv, OneForAll DEF Moving
<1>5. Counters'
  BY <1>1, <1>2 DEF Counters
<1> QED
  BY <1>3, <1>4, <1>5

LEMMA LaunchMoving ==
  ASSUME Clock, Moving, Counters, Launch
  PROVE  [Next]_(vars) /\ Moving' /\ Counters'
<1> USE DEF Launch, sync_environment
<1>1. accu_waitings \in [Agent -> Nat] /\ timestep \in Nat
  BY SimTyped DEF Moving
<1>2. \A a \in Agent : accu_waitings[a] < SimulationTime
  BY <1>1, SimulationTimeAssumption DEF Counters
<1>3. [Next]_(vars)
  BY <1>2 DEF Next, Sync, Agent
<1>4. Moving'
  BY <1>3, StepSimInv, OneForAll DEF Moving
<1>5. Counters'
  <2>1. UNCHANGED << timestep, planner_movement, moved_at >> /\ main = "sync" /\ main' = "wait"
    BY DEF sync_shared_env
  <2>2. ASSUME NEW a \in Agent
        PROVE  accu_waitings'[a] <= timestep /\ accu_waitings'[a] + moved_at[a] <= timestep
    <3>1. accu_waitings'[a] =
            CASE planner_movement[a] = "NA" -> accu_waitings[a]
              [] planner_movement[a] = "WA" -> accu_waitings[a] + 1
              [] OTHER                      -> 0
      BY DEF sync_shared_env, Agent
    <3>2. moved_at[a] \in Nat /\ accu_waitings[a] \in Nat
      BY <1>1 DEF Counters
    <3> QED
      BY <1>1, <2>1, <3>1, <3>2 DEF Counters
  <2> QED
    BY <2>1, <2>2 DEF Counters
<1> QED
  BY <1>3, <1>4, <1>5

LEMMA LateMoving ==
  ASSUME Clock, Moving, Counters, LateMove
  PROVE  [Next]_(vars) /\ Moving' /\ Counters'
<1> DEFINE wait == [a \in Agent |-> "NA"]
<1>1. move(wait) /\ main = "late" /\ main' = "late"
        /\ UNCHANGED << proposed_actions, moved_at >>
  BY DEF LateMove, plan
<1>2. timestep < SimulationTime
  BY SimulationTimeAssumption DEF LateMove, Clock, ClockTyped
<1>3. wait \in ActionVectors
  BY OneForAll
<1>4. [Next]_(vars)
  <2> HIDE DEF wait
  <2> QED
    BY <1>1, <1>2, <1>3 DEF Next, Move
<1>5. Moving'
  BY <1>1, <1>4, StepSimInv DEF Moving
<1>6. Counters'
  <2>1. timestep' = timestep + 1 /\ accu_waitings' = accu_waitings
    BY <1>1 DEF move
  <2>2. accu_waitings \in [Agent -> Nat] /\ timestep \in Nat
    BY SimTyped DEF Moving
  <2> QED
    BY <1>1, <2>1, <2>2 DEF Counters
<1> QED
  BY <1>4, <1>5, <1>6

LEMMA ExecuteMoving ==
  ASSUME Clock, Moving, Counters, Execute
  PROVE  [Next]_(vars) /\ Moving' /\ Counters'
<1>1. move(proposed_actions) /\ main = "execute" /\ main' = "sync"
  BY DEF Execute
<1>2. timestep < SimulationTime
  BY <1>1 DEF Clock
<1>3. [Next]_(vars)
  BY <1>1, <1>2 DEF Next, Move, Moving
<1>4. Moving'
  <2>1. proposed_actions' \in ActionVectors
    BY OneForAll DEF Execute, Executed, Moving, Agent
  <2> QED
    BY <1>3, <2>1, StepSimInv DEF Moving
<1>5. Counters'
  <2>1. timestep' = timestep + 1 /\ accu_waitings' = accu_waitings
    BY <1>1 DEF move
  <2>2. accu_waitings \in [Agent -> Nat] /\ timestep \in Nat /\ SimInv
    BY SimTyped DEF Moving
  <2>3. moved_at' = [a \in Agent |-> IF curr_states'[a] # curr_states[a] THEN timestep'
                                                                     ELSE moved_at[a]]
    BY DEF Execute
  <2>4. \A a \in Agent : planner_movement'[a] \in {"NA", "WA"} => moved_at'[a] = moved_at[a]
    BY <1>1, <2>2, <2>3, MovesByAction
  <2> QED
    BY <1>1, <2>1, <2>2, <2>3, <2>4 DEF Counters
<1> QED
  BY <1>3, <1>4, <1>5

LEMMA NextMoving ==
  ASSUME Clock, Moving, Counters, [SystemNext]_system
  PROVE  [Next]_(vars) /\ Moving' /\ Counters'
<1>1. ASSUME \/ InitializeTimeout \/ PlanReady \/ PlanTimeout \/ GiveUp \/ LateDone
             \/ ComputeSchedule
      PROVE  [Next]_(vars) /\ Moving' /\ Counters'
  <2>1. UNCHANGED << sim, proposed_actions, moved_at >>
    BY <1>1 DEF InitializeTimeout, PlanReady, PlanTimeout, GiveUp, LateDone, ComputeSchedule, plan
  <2>2. \/ main # "sync" /\ main' \notin {"sync", "initialize"} /\ (main = "done" => main' = "done")
        \/ main' = main
    BY <1>1 DEF InitializeTimeout, PlanReady, PlanTimeout, GiveUp, LateDone, ComputeSchedule, loop
  <2>3. Counters'
    <3>1. CASE main' = main
      BY <2>1, <3>1 DEF Counters, sim
    <3> QED
      BY <2>1, <2>2, <3>1, CountersKept
  <2> QED
    BY <2>1, <2>3, MovingKept
<1>2. CASE Finish
  <2>1. UNCHANGED << sim, proposed_actions, moved_at >> /\ main' = "done"
    BY <1>2 DEF Finish, plan
  <2>2. Counters'
    BY <2>1 DEF Counters, sim
  <2> QED
    BY <2>1, <2>2, MovingKept
<1>3. CASE ComputePlan
  <2>1. UNCHANGED << sim, main, moved_at >> /\ proposed_actions' \in ActionVectors
    BY <1>3, ReturnedPlansAssumption DEF ComputePlan, loop
  <2>2. Counters'
    BY <2>1 DEF Counters, sim
  <2>3. [Next]_(vars)
    BY <2>1 DEF sim, vars
  <2> QED
    BY <2>1, <2>2, <2>3, StepSimInv DEF Moving
<1>4. CASE UNCHANGED system
  <2>1. UNCHANGED << sim, main, moved_at, proposed_actions >>
    BY <1>4 DEF system, loop, plan
  <2>2. Counters'
    BY <2>1 DEF Counters, sim
  <2> QED
    BY <2>1, <2>2, MovingKept
<1> QED
  BY <1>1, <1>2, <1>3, <1>4, InitializeMoving, LaunchMoving, LateMoving, ExecuteMoving
  DEF SystemNext, MainNext, ComputeNext

LEMMA MovingInvariance == SystemSpec => [](Clock /\ Moving /\ Counters)
  BY InitClock, InitMoving, NextClock, NextMoving, PTL DEF SystemSpec

\* The waiting counters never exceed the time an agent has stood still.
THEOREM WaitsCorrect == SystemSpec => []WaitsStoodStill
<1>1. Moving /\ Counters => WaitsStoodStill
  BY SimTyped DEF Moving, Counters, WaitsStoodStill
<1> QED
  BY <1>1, MovingInvariance, PTL

\* Every step of the system is a step of the simulator or leaves it alone, so that all that is
\* proved of the simulator, which may be moved and copied in any order, holds in the system.
THEOREM SimulatorImplemented == SystemSpec => Spec
<1>1. SystemInit => Init
  BY DEF SystemInit
<1> QED
  BY <1>1, MovingInvariance, NextMoving, PTL DEF SystemSpec, Spec

\* In the whole system too, no two agents are ever in one cell.
THEOREM SystemCollisionFree == SystemSpec => []NoCollision
<1>1. Moving => NoCollision
  BY DEF Moving, SimInv
<1> QED
  BY <1>1, MovingInvariance, PTL

-----------------------------------------------------------------------------
(* The task manager within the system: the proofs about it are taken over  *)
(* by an instance of their module, whose definitions are those of TM.      *)

TMP == INSTANCE TaskManagerProofs WITH Location <- Free

LEMMA SameUpdate ==
  ASSUME NEW s, NEW assignment, NEW time
  PROVE  TM!update_tasks(s, assignment, time) <=> TMP!update_tasks(s, assignment, time)
  BY Zenon DEF TM!Opened, TMP!Opened, TM!get_next_loc, TMP!get_next_loc, TM!Scheduled,
         TMP!Scheduled, TM!Missing, TMP!Missing, TM!validate_task_assignment,
         TMP!validate_task_assignment, TM!Owner, TMP!Owner, TM!FirstAssigned,
         TMP!FirstAssigned, TM!AssignmentSet, TMP!AssignmentSet, TM!PoolSet,
         TMP!PoolSet, TM!Arrived, TMP!Arrived, TM!Finishing, TMP!Finishing,
         TM!TasksOf, TMP!TasksOf, TM!Released, TMP!Released, TM!Advanced,
         TMP!Advanced, TM!PoolAdvanced, TMP!PoolAdvanced, TM!Revealed,
         TMP!Revealed, TM!PoolRefilled, TMP!PoolRefilled, TM!Freed, TMP!Freed,
         TM!update_tasks, TMP!update_tasks, TM!Errands, TMP!Errands, TM!NewTask,
         TMP!NewTask, TM!Agent, TMP!Agent, TM!None, TMP!None, TM!MapThenSumSet,
         TMP!MapThenSumSet, TM!MapThenFoldSet, TMP!MapThenFoldSet, TM!Cardinality,
         TMP!Cardinality

LEMMA SameInputs == TM!States = TMP!States /\ TM!Schedules = TMP!Schedules
  BY DEF TM!States, TMP!States, TM!Schedules, TMP!Schedules, TM!Agent, TMP!Agent, TM!None,
         TMP!None

LEMMA SameTaskInit == TM!Init <=> TMP!Init
  BY DEF TM!Init, TMP!Init, TM!Agent, TMP!Agent, TM!None, TMP!None, TM!NewTask, TMP!NewTask

LEMMA SameTaskStep == [TM!Next]_(TM!vars) <=> [TMP!Next]_(TMP!vars)
<1>1. TM!Next <=> TMP!Next
  BY SameUpdate, SameInputs DEF TM!Next, TMP!Next, TM!UpdateTasks, TMP!UpdateTasks
<1> QED
  BY <1>1 DEF TM!vars, TMP!vars

LEMMA TeamSize == NumAgents \in Nat
  BY TeamAssumption

LEMMA InitTaskInv == SystemInit => TMP!IInv
  BY SameTaskInit, TMP!InitIInv, TeamSize, TasksAssumption, NumTasksRevealAssumption,
     SimulationTimeAssumption
  DEF SystemInit

LEMMA StepTaskInv ==
  ASSUME TMP!IInv, [TM!Next]_(TM!vars)
  PROVE  TMP!IInv'
  BY SameTaskStep, TMP!StepIInv, TeamSize, TasksAssumption, NumTasksRevealAssumption,
     SimulationTimeAssumption

LEMMA TasksTyped ==
  ASSUME TMP!IInv
  PROVE  /\ task_id \in Nat /\ curr_timestep \in Nat /\ schedule_errors \in Nat
         /\ DOMAIN ongoing_tasks \subseteq 0 .. task_id - 1
         /\ current_assignment \in [Agent -> Nat \cup {None}]
         /\ \A a \in Agent : current_assignment[a] # None => current_assignment[a] \in DOMAIN ongoing_tasks
         /\ current_assignment \in TM!Schedules
<1>1. current_assignment \in TMP!Schedules
  BY TMP!AssignmentIsSchedule, TeamSize, TasksAssumption, NumTasksRevealAssumption,
     SimulationTimeAssumption
<1> QED
  BY <1>1, SameInputs
  DEF TMP!IInv, TMP!TypeOK, TMP!EveryTaskAccounted, TMP!PoolInv, TMP!Agree, TMP!Agent,
      TMP!None, Agent, None, Agent, None

-----------------------------------------------------------------------------
(* What the planner thread is given, and the schedules it returns.         *)

EnvFields == {"timestep", "states", "pool", "schedule", "freeagents", "newtasks", "goals"}

Given ==
  /\ DOMAIN env = EnvFields
  /\ main \in {"wait", "late", "execute"} => env.states = curr_states
  /\ main \in {"wait", "late", "execute"} \/ compute # "none" =>
       \A t \in DOMAIN ongoing_tasks : t \in DOMAIN env.pool /\ env.pool[t] = Remaining(t)
  /\ compute = "schedule" => env.schedule = current_assignment

\* The task manager's invariant, and what the schedule on its way to it is.
Scheduling ==
  /\ TMP!IInv
  /\ curr_timestep <= timestep
  /\ main \notin {"sync", "done"} => proposed_schedule \in TM!Schedules

\* The schedule comes from a call within the window, not from its first.
WithinWindow ==
  \/ compute = "plan" /\ time_in_commit_window # 0
  \/ /\ compute = "ready" \/ main = "execute" \/ (main = "late" /\ compute = "none")
     /\ time_in_commit_window # 1 % WindowLength

Window ==
  /\ time_in_commit_window \in Nat
  /\ main = "wait" => compute # "none"
  /\ WithinWindow => proposed_schedule = current_assignment

Handover == Given /\ Scheduling /\ Window

LEMMA InitHandover == SystemInit => Handover
<1> SUFFICES ASSUME SystemInit PROVE Handover
  OBVIOUS
<1>1. Given
  BY DEF Given, SystemInit, EnvFields
<1>2. Scheduling
  <2>1. curr_timestep = 0 /\ timestep = 0
    BY DEF SystemInit, TM!Init, Init
  <2>2. proposed_schedule \in TM!Schedules
    BY DEF SystemInit, TM!Schedules, Agent, None, TM!Agent, TM!None, Agent, None
  <2> QED
    BY <2>1, <2>2, InitTaskInv DEF Scheduling
<1>3. Window
  BY DEF Window, WithinWindow, SystemInit
<1> QED
  BY <1>1, <1>2, <1>3 DEF Handover

\* Steps that leave the task manager alone keep its invariant.
LEMMA TasksKept ==
  ASSUME TMP!IInv, UNCHANGED tasks
  PROVE  [TM!Next]_(TM!vars) /\ TMP!IInv' /\ TM!Schedules' = TM!Schedules
<1>1. [TM!Next]_(TM!vars)
  BY DEF tasks, TM!vars
<1>2. TM!Schedules' = TM!Schedules
  BY DEF tasks, TM!Schedules
<1> QED
  BY <1>1, <1>2, StepTaskInv

\* The environment is copied: at the start, and in every round.
LEMMA SyncHandover ==
  ASSUME Clock, Moving, Handover, Initialize \/ Launch
  PROVE  [TM!Next]_(TM!vars) /\ Handover'
<1>1. sync_environment /\ UNCHANGED << tasks, time_in_commit_window >>
        /\ timestep' = timestep /\ curr_states' = curr_states
  BY DEF Initialize, Launch
<1>2. DOMAIN env' = EnvFields /\ env'.states = curr_states /\ env'.schedule = current_assignment
        /\ env'.pool = [t \in DOMAIN ongoing_tasks |-> Remaining(t)]
  BY <1>1 DEF sync_environment, Snapshot, EnvFields
<1>3. UNCHANGED << ongoing_tasks, current_assignment, curr_timestep >>
  BY <1>1 DEF tasks
<1>4. [TM!Next]_(TM!vars) /\ TMP!IInv' /\ TM!Schedules' = TM!Schedules
  BY <1>1, TasksKept DEF Handover, Scheduling
<1>5. proposed_schedule' = current_assignment /\ current_assignment \in TM!Schedules
  BY <1>1, TasksTyped DEF sync_environment, Handover, Scheduling
<1>6. main' = "wait" => compute' # "none"
  BY DEF Initialize, Launch
<1>7. Given'
  BY <1>1, <1>2, <1>3 DEF Given, Remaining, TM!Errands
<1>8. Scheduling'
  BY <1>1, <1>3, <1>4, <1>5 DEF Scheduling, Handover
<1>9. Window'
  BY <1>1, <1>3, <1>5, <1>6 DEF Window, Handover
<1> QED
  BY <1>4, <1>7, <1>8, <1>9 DEF Handover

\* A schedule of known tasks is kept as it is.
LEMMA KeptIsAssignment ==
  ASSUME Given, TMP!IInv, compute = "schedule"
  PROVE  Kept = current_assignment
<1>1. Kept = [a \in Agent |-> IF current_assignment[a] \in DOMAIN env.pool
                                 THEN current_assignment[a] ELSE None]
  BY DEF Given, Kept
<1>2. \A a \in Agent : current_assignment[a] \notin DOMAIN env.pool => current_assignment[a] = None
  BY TasksTyped DEF Given
<1> QED
  BY <1>1, <1>2, TasksTyped

LEMMA ScheduleHandover ==
  ASSUME Clock, Moving, Handover, ComputeSchedule
  PROVE  [TM!Next]_(TM!vars) /\ Handover'
<1>1. UNCHANGED << tasks, main, timestep, curr_states, time_in_commit_window >>
        /\ compute = "schedule" /\ compute' = "plan"
  BY DEF ComputeSchedule, sim, loop
<1>2. UNCHANGED << ongoing_tasks, current_assignment, curr_timestep >>
  BY <1>1 DEF tasks
<1>3. [TM!Next]_(TM!vars) /\ TMP!IInv' /\ TM!Schedules' = TM!Schedules
  BY <1>1, TasksKept DEF Handover, Scheduling
<1>4. Kept = current_assignment /\ current_assignment \in TM!Schedules
  BY <1>1, KeptIsAssignment, TasksTyped DEF Handover, Scheduling
<1>5. proposed_schedule' \in TM!Schedules
        /\ (time_in_commit_window # 0 => proposed_schedule' = current_assignment)
  BY <1>4 DEF ComputeSchedule
<1>6. DOMAIN env' = EnvFields /\ env'.states = env.states
        /\ \A t \in DOMAIN env.pool : t \in DOMAIN env'.pool /\ env'.pool[t] = env.pool[t]
  BY DEF ComputeSchedule, PoolRead, update_goal_locations, Handover, Given, EnvFields
<1>7. Given'
  BY <1>1, <1>2, <1>6 DEF Given, Remaining, TM!Errands, Handover
<1>8. Scheduling'
  BY <1>1, <1>2, <1>3, <1>5 DEF Scheduling, Handover
<1>9. Window'
  <2>1. WithinWindow' => time_in_commit_window # 0 \/ main = "execute"
    BY <1>1 DEF WithinWindow
  <2>2. main # "execute"
    BY <1>1 DEF Clock, Joined
  <2> QED
    BY <1>1, <1>2, <1>5, <2>1, <2>2 DEF Window, Handover
<1> QED
  BY <1>3, <1>7, <1>8, <1>9 DEF Handover

LEMMA PlanHandover ==
  ASSUME Clock, Moving, Handover, ComputePlan
  PROVE  [TM!Next]_(TM!vars) /\ Handover'
<1>1. UNCHANGED << tasks, main, timestep, curr_states, env, proposed_schedule >>
        /\ compute = "plan" /\ compute' = "ready"
        /\ time_in_commit_window' = (time_in_commit_window + 1) % WindowLength
  BY DEF ComputePlan, sim, loop
<1>2. UNCHANGED << ongoing_tasks, current_assignment, curr_timestep >>
  BY <1>1 DEF tasks
<1>3. [TM!Next]_(TM!vars) /\ TMP!IInv' /\ TM!Schedules' = TM!Schedules
  BY <1>1, TasksKept DEF Handover, Scheduling
<1>4. Given' /\ Scheduling'
  BY <1>1, <1>2, <1>3 DEF Given, Remaining, TM!Errands, Scheduling, Handover
<1>5. Window'
  <2>1. time_in_commit_window \in Nat /\ WindowLength \in Nat \ {0}
    BY CommitWindowAssumption DEF Window, Handover, WindowLength
  <2>2. time_in_commit_window' \in Nat
    BY <1>1, <2>1
  <2>3. time_in_commit_window' # 1 % WindowLength => WithinWindow
    BY <1>1, <2>1 DEF WithinWindow
  <2>4. main # "execute"
    BY <1>1 DEF Clock, Joined
  <2>5. WithinWindow' => time_in_commit_window' # 1 % WindowLength
    BY <1>1, <2>4 DEF WithinWindow, WindowLength
  <2> QED
    BY <1>1, <1>2, <2>2, <2>3, <2>5 DEF Window, Handover
<1> QED
  BY <1>3, <1>4, <1>5 DEF Handover

\* The steps of the main thread between the copy and the execution.
LEMMA WaitHandover ==
  ASSUME Clock, Moving, Handover,
         \/ InitializeTimeout \/ Finish \/ PlanReady \/ PlanTimeout \/ GiveUp \/ LateMove \/ LateDone
         \/ UNCHANGED system
  PROVE  [TM!Next]_(TM!vars) /\ Handover'
<1>1. UNCHANGED << tasks, time_in_commit_window, proposed_schedule, env >>
  BY DEF InitializeTimeout, Finish, PlanReady, PlanTimeout, GiveUp, LateMove, LateDone, system, plan
<1>2. UNCHANGED << ongoing_tasks, current_assignment, curr_timestep >>
  BY <1>1 DEF tasks
<1>3. [TM!Next]_(TM!vars) /\ TMP!IInv' /\ TM!Schedules' = TM!Schedules
  BY <1>1, TasksKept DEF Handover, Scheduling
<1>4. curr_states' = curr_states /\ timestep \in Nat
        /\ (timestep' = timestep \/ timestep' = timestep + 1)
  <2>1. CASE LateMove
    BY <2>1, LostTimestep DEF LateMove, Moving, Clock, ClockTyped, move
  <2> QED
    BY <2>1 DEF InitializeTimeout, Finish, PlanReady, PlanTimeout, GiveUp, LateDone, system, sim,
                Clock, ClockTyped
<1>5. \/ main' = main
      \/ main = "initialize" /\ main' = "exit124"
      \/ main = "sync" /\ main' = "done"
      \/ main = "wait" /\ main' = "late"
      \/ main = "late" /\ main' \in {"execute", "done"}
  BY DEF InitializeTimeout, Finish, PlanReady, PlanTimeout, GiveUp, LateMove, LateDone, system, loop
<1>6. \/ compute' = compute
      \/ main = "wait" /\ main' = "late" /\ compute = "ready" /\ compute' = "none"
  BY DEF InitializeTimeout, Finish, PlanReady, PlanTimeout, GiveUp, LateMove, LateDone, system, plan
<1>7. main = "late" /\ main' = "execute" => compute = "none"
  BY SimulationTimeAssumption
  DEF InitializeTimeout, Finish, PlanReady, PlanTimeout, GiveUp, LateMove, LateDone, system, loop,
      Clock, ClockTyped, Joined
<1>8. main = "sync" => compute = "none"
  BY DEF Clock, Joined
<1>9. Given'
  BY <1>1, <1>2, <1>4, <1>5, <1>6 DEF Given, Remaining, TM!Errands, Handover
<1>10. Scheduling'
  <2>1. curr_timestep' <= timestep'
    BY <1>2, <1>4, TasksTyped DEF Scheduling, Handover
  <2>2. main' \notin {"sync", "done"} => proposed_schedule' \in TM!Schedules'
    BY <1>1, <1>3, <1>5 DEF Scheduling, Handover
  <2> QED
    BY <1>3, <2>1, <2>2 DEF Scheduling
<1>11. Window'
  <2>1. WithinWindow' => WithinWindow
    BY <1>1, <1>5, <1>6, <1>7 DEF WithinWindow, Window, Handover
  <2>2. main' = "wait" => compute' # "none"
    BY <1>5, <1>6 DEF Window, Handover
  <2> QED
    BY <1>1, <1>2, <2>1, <2>2 DEF Window, Handover
<1> QED
  BY <1>3, <1>9, <1>10, <1>11 DEF Handover

\* The simulator's locations are what the task manager expects: one agent per cell.
LEMMA LocationsExpected == Moving => curr_states \in TM!States
  BY SimTyped DEF Moving, TM!States, TM!Agent, Agent

\* The plan is executed: the locations are those of distinct agents, the timestep is new and
\* within the horizon, so that the call is one the task manager expects.
LEMMA ExecuteHandover ==
  ASSUME Clock, Moving, Handover, Execute, Moving'
  PROVE  /\ [TM!Next]_(TM!vars) /\ Handover'
         /\ \/ time_in_commit_window' = 1 % WindowLength
            \/ /\ schedule_errors' = schedule_errors
               /\ \A a \in Agent : \/ current_assignment'[a] = current_assignment[a]
                                   \/ current_assignment[a] \in finished_tasks'[a]
<1>1. /\ TM!update_tasks(curr_states', proposed_schedule, timestep')
      /\ main = "execute" /\ main' = "sync" /\ compute = "none" /\ compute' = "none"
      /\ UNCHANGED << env, time_in_commit_window >>
  BY DEF Execute, Clock, Joined
<1>2. timestep' \in curr_timestep + 1 .. SimulationTime
  BY SimulationTimeAssumption, TasksTyped
  DEF Execute, move, Clock, ClockTyped, Handover, Scheduling
<1>3. curr_states' \in TM!States
  <2>1. (curr_states \in TM!States)'
    BY LocationsExpected, PTL
  <2> QED
    BY <2>1
<1>4. proposed_schedule \in TM!Schedules
  BY <1>1 DEF Handover, Scheduling
<1>5. [TM!Next]_(TM!vars)
  BY <1>1, <1>2, <1>3, <1>4 DEF TM!Next, TM!UpdateTasks
<1>6. Scheduling'
  <2>1. curr_timestep' = timestep'
    BY <1>1 DEF TM!update_tasks
  <2>2. timestep' <= timestep'
    BY <1>2, TasksTyped DEF Handover, Scheduling
  <2> QED
    BY <1>1, <1>5, <2>1, <2>2, StepTaskInv DEF Scheduling, Handover
<1>7. Given' /\ Window'
  BY <1>1 DEF Given, Window, WithinWindow, Handover
<1>8. ASSUME time_in_commit_window # 1 % WindowLength
      PROVE  /\ schedule_errors' = schedule_errors
             /\ \A a \in Agent : \/ current_assignment'[a] = current_assignment[a]
                                 \/ current_assignment[a] \in finished_tasks'[a]
  <2>1. proposed_schedule = current_assignment
    BY <1>1, <1>8 DEF Handover, Window, WithinWindow
  <2>2. TMP!update_tasks(curr_states', current_assignment, timestep')
    BY <1>1, <2>1, SameUpdate
  <2>3. TMP!IInv /\ curr_states' \in TMP!States
    BY <1>3, SameInputs DEF Handover, Scheduling
  <2> QED
    BY <1>2, <2>2, <2>3, TMP!RepeatedSchedule, TeamSize, TasksAssumption,
       NumTasksRevealAssumption, SimulationTimeAssumption
    DEF TMP!Agent, Agent
<1> QED
  BY <1>1, <1>5, <1>6, <1>7, <1>8 DEF Handover

LEMMA NextHandover ==
  ASSUME Clock, Moving, Counters, Handover, [SystemNext]_system
  PROVE  [TM!Next]_(TM!vars) /\ Handover' /\ [WindowKeeps]_system
<1>1. CASE Execute
  <2>1. Moving'
    BY <1>1, ExecuteMoving
  <2> QED
    BY <1>1, <2>1, ExecuteHandover DEF WindowKeeps, Execute
<1>2. CASE ~ Execute
  <2>1. [TM!Next]_(TM!vars) /\ Handover'
    BY <1>2, SyncHandover, ScheduleHandover, PlanHandover, WaitHandover
    DEF SystemNext, MainNext, ComputeNext
  <2>2. UNCHANGED << schedule_errors, curr_timestep >>
    <3>1. UNCHANGED tasks
      BY <1>2
      DEF SystemNext, MainNext, ComputeNext, Initialize, InitializeTimeout, Launch, Finish, PlanReady,
          PlanTimeout, GiveUp, LateMove, LateDone, ComputeSchedule, ComputePlan, system
    <3> QED
      BY <3>1 DEF tasks
  <2>3. WindowKeeps
    BY <2>2, TasksTyped DEF WindowKeeps, Handover, Scheduling
  <2> QED
    BY <2>1, <2>3
<1> QED
  BY <1>1, <1>2

LEMMA Invariance == SystemSpec => [](Clock /\ Moving /\ Counters /\ Handover)
  BY InitClock, InitMoving, InitHandover, NextClock, NextMoving, NextHandover, PTL DEF SystemSpec

\* The locations and errands that the planner thread was given are still the present ones when
\* its plan is executed.
THEOREM PlansCurrent == SystemSpec => []PlansForPresent
<1>1. Handover => PlansForPresent
  BY DEF Handover, Given, PlansForPresent
<1> QED
  BY <1>1, Invariance, PTL

\* The loop uses the task manager as it expects: agents on distinct cells, timesteps that
\* grow up to the horizon and schedules of known or unknown ids, so that all that is proved
\* of the task manager holds in the system.
THEOREM TaskManagerImplemented == SystemSpec => TasksFollowManager
<1>1. SystemInit => TM!Init
  BY DEF SystemInit
<1> QED
  BY <1>1, Invariance, NextHandover, PTL DEF SystemSpec, TasksFollowManager, TM!Spec

\* In the whole system too, every revealed task is ongoing or finished once.
THEOREM SystemTasksAccounted == SystemSpec => [](TMP!EveryTaskAccounted)
<1>1. Handover => TMP!EveryTaskAccounted
  BY DEF Handover, Scheduling, TMP!IInv
<1> QED
  BY <1>1, Invariance, PTL

\* Within a commit window no schedule is refused and every agent keeps its task or finishes it.
THEOREM WindowHolds == SystemSpec => WindowKeepsSchedule
  BY Invariance, NextHandover, PTL DEF SystemSpec, WindowKeepsSchedule

\* No errand is passed unnoticed: after every step, no agent stands in the cell of its task's next
\* errand, unless the errand it has just done was in that cell too.
THEOREM NoErrandMissed == SystemSpec => []ErrandsNoticed
<1>1. SystemInit => ErrandsNoticed
  BY DEF SystemInit, TM!Init, ErrandsNoticed, TM!None, None, TM!Agent, Agent
<1>2. ASSUME Clock, Moving, Counters, Handover, ErrandsNoticed, [SystemNext]_system
      PROVE  ErrandsNoticed'
  <2>1. CASE Execute
    <3>1. Moving'
      BY <1>2, <2>1, ExecuteMoving
    <3>2. curr_states' \in TMP!States
      <4>1. (curr_states \in TM!States)'
        BY <3>1, LocationsExpected, PTL
      <4> QED
        BY <4>1, SameInputs
    <3>3. proposed_schedule \in TMP!Schedules
      BY <1>2, <2>1, SameInputs DEF Handover, Scheduling, Execute
    <3>4. timestep' \in curr_timestep + 1 .. SimulationTime
      BY <1>2, <2>1, SimulationTimeAssumption, TasksTyped
      DEF Execute, move, Clock, ClockTyped, Handover, Scheduling
    <3>5. TMP!update_tasks(curr_states', proposed_schedule, timestep')
      BY <2>1, SameUpdate DEF Execute
    <3>6. ASSUME NEW a \in Agent, current_assignment'[a] # None,
                 TMP!Errands(current_assignment'[a])[ongoing_tasks'[current_assignment'[a]].idx_next_loc + 1]
                   = curr_states'[a]
          PROVE  /\ ongoing_tasks'[current_assignment'[a]].idx_next_loc > 0
                 /\ TMP!Errands(current_assignment'[a])[ongoing_tasks'[current_assignment'[a]].idx_next_loc]
                      = curr_states'[a]
      <4>1. a \in TMP!Agent /\ current_assignment'[a] # TMP!None /\ TMP!IInv
        BY <1>2, <3>6 DEF TMP!Agent, TMP!None, Agent, None, Handover, Scheduling
      <4> QED
        BY <3>2, <3>3, <3>4, <3>5, <3>6, <4>1, TMP!ArrivalsDone, TeamSize, TasksAssumption,
           NumTasksRevealAssumption, SimulationTimeAssumption
    <3> QED
      BY <3>6 DEF ErrandsNoticed, TM!Errands, TMP!Errands
  <2>2. CASE ~ Execute
    <3>1. UNCHANGED << ongoing_tasks, current_assignment >>
      BY <1>2, <2>2
      DEF SystemNext, MainNext, ComputeNext, Initialize, InitializeTimeout, Launch, Finish, PlanReady,
          PlanTimeout, GiveUp, LateMove, LateDone, ComputeSchedule, ComputePlan, system, tasks
    <3>2. CASE LateMove
      BY <1>2, <3>1, <3>2, LostTimestep DEF LateMove, Moving, ErrandsNoticed, TM!Errands
    <3>3. CASE ~ LateMove
      <4>1. curr_states' = curr_states
        BY <1>2, <2>2, <3>3
        DEF SystemNext, MainNext, ComputeNext, Initialize, InitializeTimeout, Launch, Finish, PlanReady,
            PlanTimeout, GiveUp, LateDone, ComputeSchedule, ComputePlan, system, sim
      <4> QED
        BY <1>2, <3>1, <4>1 DEF ErrandsNoticed, TM!Errands
    <3> QED
      BY <3>2, <3>3
  <2> QED
    BY <2>1, <2>2
<1> QED
  BY <1>1, <1>2, Invariance, PTL DEF SystemSpec

=============================================================================
