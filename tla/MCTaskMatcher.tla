---------------------------- MODULE MCTaskMatcher ---------------------------
(***************************************************************************)
(* Four agents and three tasks.  Agents and pickups are on a line, which  *)
(* a wall cuts or not; beyond the wall nothing can be reached, and the     *)
(* last task has its delivery there.  An agent in cell 3 has two pickups   *)
(* equally near, of which the traffic is asked for one.                    *)
(***************************************************************************)
EXTENDS TaskMatcher

MCTask == {1, 2, 3}

Pickup == [t \in MCTask |-> 2 * t]

Far(x, y) == IF x < y THEN y - x ELSE x - y

Separated(x, y, wall) == (x < wall) # (y < wall)

MCScenes ==
  {[distance |-> [a \in Agent |-> [t \in MCTask |->
                    IF Separated(place[a], Pickup[t], wall) THEN Invalid
                    ELSE Far(place[a], Pickup[t])]],
    length   |-> [t \in MCTask |-> IF t = 3 /\ wall > 0 THEN Invalid ELSE 0]] :
     place \in {p \in [Agent -> {3, 6}] : p[3] = 6}, wall \in {0, 4}}

\* No traffic, and traffic on the way of one agent.
MCSurcharges ==
  {[a \in Agent |-> [t \in MCTask |-> IF a = 0 THEN extra ELSE 0]] : extra \in {0, 3}}

\* With a cap; with a matrix that never fits; with all agents; with traffic, matched once or
\* twice.  Without reassign a call does what it does when all agents are near their pickups.
MCConfigs ==
  {[ratio |-> 50, max_matrix |-> 12, reassign |-> TRUE, traffic |-> FALSE, joint |-> FALSE],
   [ratio |-> 50, max_matrix |-> 1, reassign |-> TRUE, traffic |-> FALSE, joint |-> FALSE],
   [ratio |-> 100, max_matrix |-> 12, reassign |-> TRUE, traffic |-> FALSE, joint |-> FALSE],
   [ratio |-> 100, max_matrix |-> 12, reassign |-> TRUE, traffic |-> TRUE, joint |-> FALSE],
   [ratio |-> 100, max_matrix |-> 12, reassign |-> TRUE, traffic |-> TRUE, joint |-> TRUE]}

=============================================================================
