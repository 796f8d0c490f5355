----------------------------- MODULE GuidePath -----------------------------
(***************************************************************************)
(* The map as the default planner sees it: the cells next to a cell        *)
(* (global_neighbors), the directions in which the traffic is counted, and *)
(* what guide paths are: their cost in the traffic, and how far a cell is  *)
(* from one.  The searches of GuideSearch compute these step by step.      *)
(***************************************************************************)
EXTENDS ActionModel, Sequences

\* The cells at the four distances, with no look at the map.
NeighborsAnywhere(c) == {c - Cols, c + Cols, c - 1, c + 1}

\* The cells next to a cell, within its row and its column.
Neighbors(c) ==
  {d \in Free : \/ d = c - Cols
                \/ d = c + Cols
                \/ d = c - 1 /\ c % Cols > 0
                \/ d = c + 1 /\ c % Cols < Cols - 1}

Successors(c) == Neighbors(c) \cup {c}

\* The index of a direction in Int4.
get_d(diff) == CASE diff = 1 -> 0 [] diff = -1 -> 2 [] diff = Cols -> 1 [] OTHER -> 3

-----------------------------------------------------------------------------
\* The cells that can be reached from a cell in so many moves.
Within[k \in 0 .. Cardinality(Free)] ==
  [c \in Free |-> IF k = 0 THEN {c}
                  ELSE Within[k - 1][c] \cup UNION {Neighbors(d) : d \in Within[k - 1][c]}]

\* The number of moves between two cells; nothing is known of cells without a connection.
Steps ==
  [c \in Free |-> [d \in Within[Cardinality(Free)][c] |->
    Min({k \in 0 .. Cardinality(Free) : d \in Within[k][c]})]]

\* Paths that visit no cell twice.  Like the network of the flow schedulers these may go on
\* from the end of a row to the start of the next.
Paths[hops \in 0 .. Cardinality(Free) - 1] ==
  IF hops = 0 THEN {<< c >> : c \in Free}
  ELSE Paths[hops - 1] \cup
       UNION {{Append(path, d) : d \in (NeighborsAnywhere(path[Len(path)]) \cap Free)
                                         \ {path[k] : k \in 1 .. Len(path)}} :
              path \in Paths[hops - 1]}

\* The paths from one cell to another.
PathsBetween ==
  [c \in Free |-> [d \in Free |->
    {path \in Paths[Cardinality(Free) - 1] : path[1] = c /\ path[Len(path)] = d}]]

Walkable(path) == \A k \in 1 .. Len(path) - 1 : path[k + 1] \in Neighbors(path[k])

\* What a move costs beside the move itself: the traffic against it, with the traffic along it
\* as a weight, and half the traffic in the next cell.
TrafficCost(flow, from, to) ==
  LET d == get_d(to - from)
  IN  (flow[from][d] + 1) * flow[to][(d + 2) % 4]
      + MapThenSumSet(LAMBDA j : flow[to][j], 0 .. 3) \div 2

PathCost(flow, path) ==
  LET cost == [k \in 1 .. Len(path) - 1 |-> 1 + TrafficCost(flow, path[k], path[k + 1])]
  IN  MapThenSumSet(LAMBDA k : cost[k], 1 .. Len(path) - 1)

\* How a cell lies to a path: the moves to the nearest cell of the path and, of the nearest,
\* the moves that are left from there, taking the one that leaves least.  A path may jump
\* between rows, so some of its cells may be out of reach.
WayAlong(path, c) ==
  LET there == {k \in 1 .. Len(path) : path[k] \in DOMAIN Steps[c]}
      near  == {k \in there : \A j \in there : Steps[c][path[k]] <= Steps[c][path[j]]}
      join  == Max(near)
  IN  [cost |-> Steps[c][path[join]], togo |-> Len(path) - join]

=============================================================================
