---------------------------- MODULE ActionModel ----------------------------
(***************************************************************************)
(* The rules of movement (inc/ActionModel.h, src/ActionModel.cpp): what    *)
(* each action does to a location, and when the actions of all agents may  *)
(* be executed together.  Locations are linearised: row * Cols + column.   *)
(***************************************************************************)
EXTENDS Integers, FiniteSets, FiniteSetsExt

CONSTANTS
  Rows, Cols,  \* rows and cols of the grid
  Obstacles,   \* the cells with grid.map = 1
  NumAgents    \* the team size

Cell  == 0 .. Rows * Cols - 1
Free  == Cell \ Obstacles
Agent == 0 .. NumAgents - 1
None  == -1

ASSUME GridAssumption == Rows \in Nat \ {0} /\ Cols \in Nat \ {0}
ASSUME TeamAssumption == NumAgents \in Nat \ {0}

Action == {"N", "E", "S", "WE", "WA", "NA"}

-----------------------------------------------------------------------------
Moves(action) ==
  CASE action = "N"  -> -Cols
    [] action = "E"  -> 1
    [] action = "S"  -> Cols
    [] action = "WE" -> -1
    [] OTHER         -> 0

result_states(prev, actions) == [a \in Agent |-> prev[a] + Moves(actions[a])]

Abs(n) == IF n < 0 THEN -n ELSE n

\* Row and column distance of two cells of the map.
Distance(c, d) == Abs((c \div Cols) - (d \div Cols)) + Abs((c % Cols) - (d % Cols))

\* The location test without the rows and columns: an agent may wrap around an edge.
AllowedAnywhere(from, to) == to \in Cell /\ to \notin Obstacles

Allowed(from, to) == to \in Cell /\ Distance(from, to) <= 1 /\ to \notin Obstacles

\* The agents of lower index in the way of a, in the order of the hash tables' entries.
VertexConflicts(to, a) == {b \in 0 .. a - 1 : to[b] = to[a]}

\* Edges are kept as travelled, not reversed: this finds two agents on the same edge only.
EdgeConflictsUnreversed(from, to, a) == {b \in 0 .. a - 1 : from[b] = from[a] /\ to[b] = to[a]}

EdgeConflicts(from, to, a) == {b \in 0 .. a - 1 : to[b] = from[a] /\ from[b] = to[a]}

Faulty(from, to, a) ==
  \/ ~ Allowed(from[a], to[a])
  \/ VertexConflicts(to, a) # {}
  \/ EdgeConflicts(from, to, a) # {}

SizeMatches(actions) == DOMAIN actions = Agent

is_valid(prev, actions) ==
  /\ SizeMatches(actions)
  /\ \A a \in Agent : ~ Faulty(prev, result_states(prev, actions), a)

\* The entry that is_valid appends to the errors when it refuses a vector: the loop stops
\* at the first faulty agent, with the first check it fails.
ErrorEntry(kind, agent, other, time) ==
  [kind |-> kind, agent |-> agent, other |-> other, timestep |-> time]

\* The entry that the text of the log line gives an edge conflict.
ErrorOfAgentAsLogged(prev, to, a, time) ==
  IF ~ Allowed(prev[a], to[a])
  THEN ErrorEntry("unallowed move", a, None, time)
  ELSE LET others == VertexConflicts(to, a) \cup EdgeConflicts(prev, to, a)
       IN  ErrorEntry("vertex conflict", a, Max(others), time)

ErrorOfAgent(prev, to, a, time) ==
  IF ~ Allowed(prev[a], to[a])
  THEN ErrorEntry("unallowed move", a, None, time)
  ELSE IF VertexConflicts(to, a) # {}
  THEN ErrorEntry("vertex conflict", a, Max(VertexConflicts(to, a)), time)
  ELSE ErrorEntry("edge conflict", a, Max(EdgeConflicts(prev, to, a)), time)

FirstError(prev, actions, time) ==
  IF ~ SizeMatches(actions)
  THEN ErrorEntry("incorrect vector size", None, None, time)
  ELSE LET to == result_states(prev, actions)
       IN  ErrorOfAgent(prev, to, Min({a \in Agent : Faulty(prev, to, a)}), time)

=============================================================================
