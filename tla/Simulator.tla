----------------------------- MODULE Simulator -----------------------------
(***************************************************************************)
(* The simulator (src/Simulator.cpp): it holds the locations of the agents *)
(* and executes the planner's actions, or lets everybody wait when the     *)
(* action model refuses them.  sync_shared_env keeps the waiting           *)
(* statistics the flow schedulers read.                                    *)
(*                                                                         *)
(* The actions come from a participant: every vector is possible.          *)
(***************************************************************************)
EXTENDS ActionModel, Sequences

CONSTANT SimulationTime  \* bound: the simulator is asked for this many moves

ASSUME SimulationTimeAssumption == SimulationTime \in Nat

VARIABLES
  curr_states,       \* agent -> location
  timestep,
  planner_movement,  \* agent -> the action the planner proposed in the last move
  errors,            \* the action model's list of errors
  accu_waitings      \* agent -> waits it has proposed since its last other action

vars == << curr_states, timestep, planner_movement, errors, accu_waitings >>

-----------------------------------------------------------------------------
\* The vectors a planner may return: every one of at most the right size, and a long one.
Vectors(n)     == [0 .. n - 1 -> Action]
FittingVectors == UNION {Vectors(n) : n \in 0 .. NumAgents}
LongVectors    == [0 .. NumAgents -> {"E"}]
ActionVectors  == FittingVectors \cup LongVectors

Proposed(actions) == [a \in Agent |-> IF a \in DOMAIN actions THEN actions[a] ELSE "NA"]

\* The caller's vector after the call: move replaces refused actions in place.
Executed(actions) == IF is_valid(curr_states, actions) THEN actions ELSE [a \in Agent |-> "WA"]

move(actions) ==
  /\ planner_movement' = Proposed(actions)
  /\ errors' = IF is_valid(curr_states, actions) THEN errors
               ELSE Append(errors, FirstError(curr_states, actions, timestep + 1))
  /\ curr_states' = result_states(curr_states, Executed(actions))
  /\ timestep' = timestep + 1
  /\ UNCHANGED accu_waitings

\* The counter goes on after the wait.
sync_shared_env_unflushed ==
  /\ accu_waitings' =
       [a \in Agent |-> IF planner_movement[a] = "WA" THEN accu_waitings[a] + 1
                                                      ELSE accu_waitings[a]]
  /\ UNCHANGED << curr_states, timestep, planner_movement, errors >>

\* The waiting counters.  (The sums they are flushed to decay and are not kept here.)
sync_shared_env ==
  /\ accu_waitings' =
       [a \in Agent |-> CASE planner_movement[a] = "NA" -> accu_waitings[a]
                          [] planner_movement[a] = "WA" -> accu_waitings[a] + 1
                          [] OTHER                      -> 0]
  /\ UNCHANGED << curr_states, timestep, planner_movement, errors >>

Placements == {s \in [Agent -> Free] : \A a, b \in Agent : s[a] = s[b] => a = b}

\* The constructor, on the start locations of a problem: distinct and free.
Init ==
  /\ curr_states \in Placements
  /\ timestep = 0
  /\ planner_movement = [a \in Agent |-> "NA"]
  /\ errors = << >>
  /\ accu_waitings = [a \in Agent |-> 0]

Move == /\ timestep < SimulationTime
        /\ \E actions \in ActionVectors : move(actions)

\* Bounded like the moves: the system calls it once for each of them.
Sync == /\ \A a \in Agent : accu_waitings[a] < SimulationTime
        /\ sync_shared_env

Next == Move \/ Sync

Spec == Init /\ [][Next]_vars

-----------------------------------------------------------------------------
(* Properties.                                                             *)

ErrorKind == {"incorrect vector size", "unallowed move", "vertex conflict", "edge conflict"}

ErrorRecord == [kind : ErrorKind, agent : Agent \cup {None}, other : Agent \cup {None},
                timestep : Nat]

\* Types: in particular every agent is on a free cell of the map.
TypeOK ==
  /\ curr_states \in [Agent -> Free]
  /\ timestep \in Nat
  /\ planner_movement \in [Agent -> Action]
  /\ errors \in Seq(ErrorRecord)
  /\ accu_waitings \in [Agent -> Nat]

\* No two agents are ever in one cell, whatever the planner returns.
NoCollision == \A a, b \in Agent : a # b => curr_states[a] # curr_states[b]

\* The agents move as in multi-agent path finding, whatever the planner returns: one cell
\* at most and never around the edge of the map, no two into one cell, no two through
\* each other.
MAPFModel == INSTANCE MAPF
               WITH Vertex <- Free, Adjacent <- LAMBDA c, d : Distance(c, d) = 1,
                    position <- curr_states

MovesConflictFree == MAPFModel!Spec

\* The cell an action leads to, read off the map: same column and next row, and so on.
Heads(c, action, d) ==
  LET row == c \div Cols  col == c % Cols
      toRow == d \div Cols  toCol == d % Cols
  IN  CASE action = "N"  -> toRow = row - 1 /\ toCol = col
        [] action = "S"  -> toRow = row + 1 /\ toCol = col
        [] action = "E"  -> toRow = row /\ toCol = col + 1
        [] action = "WE" -> toRow = row /\ toCol = col - 1
        [] OTHER         -> d = c

Target(c, action) == CHOOSE d \in Free : Heads(c, action, d)

Legal(actions) ==
  LET to == [a \in Agent |-> Target(curr_states[a], actions[a])]
  IN  /\ \A a \in Agent : \E d \in Free : Heads(curr_states[a], actions[a], d)
      /\ MAPFModel!ConflictFree(curr_states, to)

\* A legal plan is executed as it is, a cycle of agents included, and an illegal one not at
\* all: then everybody stays and exactly one error is recorded.
ExecutesLegal ==
  timestep' # timestep =>
    \/ /\ errors' = errors
       /\ Legal(planner_movement')
       /\ \A a \in Agent : Heads(curr_states[a], planner_movement'[a], curr_states'[a])
    \/ /\ Len(errors') = Len(errors) + 1
       /\ curr_states' = curr_states
       /\ Legal(planner_movement') => errors'[Len(errors')].kind = "incorrect vector size"

LegalPlansExecuted == [][ExecutesLegal]_vars

\* A recorded error is one the refused plan has: the agents it names would meet in a cell
\* or on an edge, or the agent has nowhere to go.
TrueEntry(e, actions) ==
  LET to == [a \in Agent |-> Target(curr_states[a], actions[a])]
  IN  /\ e.kind = "unallowed move" =>
           \A d \in Free : ~ Heads(curr_states[e.agent], actions[e.agent], d)
      /\ e.kind = "vertex conflict" => e.agent # e.other /\ to[e.agent] = to[e.other]
      /\ e.kind = "edge conflict" => /\ e.agent # e.other
                                     /\ to[e.agent] = curr_states[e.other]
                                     /\ to[e.other] = curr_states[e.agent]

NamesConflict ==
  errors' # errors => TrueEntry(errors'[Len(errors')], planner_movement')

ErrorsNameConflicts == [][NamesConflict]_vars

=============================================================================
