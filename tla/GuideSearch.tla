----------------------------- MODULE GuideSearch -----------------------------
(***************************************************************************)
(* The searches of the default planner: the distance tables, which are     *)
(* breadth-first searches that stop at every answer and go on at the next  *)
(* question (default_planner/heuristics.cpp), and A* in the traffic        *)
(* (default_planner/search.cpp), a step per node that is expanded.         *)
(***************************************************************************)
EXTENDS GuidePath, Functions, SequencesExt

VARIABLES
  heuristics,      \* goal -> its distance table; global_heuristictable
  flow,            \* cell -> direction -> number of guide paths that leave the cell that way
  nodes            \* cell |-> its node in the search that runs

-----------------------------------------------------------------------------
(* Distance tables: those of a goal (HeuristicTable) and those of a path   *)
(* (Dist2Path) are filled the same way.  An entry of an earlier path is    *)
(* told by its label and counts for nothing; here it is not there.         *)

Empty == [dist |-> << >>, open |-> << >>]

Entry(location, cost, togo) == [location |-> location, cost |-> cost, togo |-> togo]

\* The cells of the path, which passes none of them twice.
Entries(path) ==
  [c \in Range(path) |-> Entry(c, 0, Len(path) - Min({k \in 1 .. Len(path) : path[k] = c}))]

\* The cells are queued from the start of the path.
PathTableFromStart(path) ==
  [dist |-> Entries(path), open |-> [k \in 1 .. Len(path) |-> Entry(path[k], 0, Len(path) - k)]]

\* The search starts from all cells of the path, the goal first.
PathTable(path) ==
  [dist |-> Entries(path),
   open |-> [k \in 1 .. Len(path) |-> Entry(path[Len(path) + 1 - k], 0, k - 1)]]

GoalTable(goal) == PathTable(<< goal >>)

\* Some neighbours, in the order in which global_neighbors lists them.
InOrder(c, cells) ==
  LET listed(d) == IF d \in cells THEN << d >> ELSE << >>
  IN  listed(c - Cols) \o listed(c + Cols)
      \o (IF Cols = 1 THEN << >> ELSE listed(c - 1) \o listed(c + 1))

NeighborLocs(c) == InOrder(c, Neighbors(c))

\* What is reached from an entry: the neighbours that it improves.
Bettered(table, curr) ==
  LET better == InOrder(curr.location, {d \in Neighbors(curr.location) :
                          d \in DOMAIN table.dist => curr.cost + 1 < table.dist[d].cost})
  IN  [k \in DOMAIN better |-> Entry(better[k], curr.cost + 1, curr.togo)]

With(dist, added) ==
  [d \in DOMAIN dist \cup {added[k].location : k \in DOMAIN added} |->
     IF \E k \in DOMAIN added : added[k].location = d
     THEN added[CHOOSE k \in DOMAIN added : added[k].location = d] ELSE dist[d]]

\* What was reached last is expanded first.
ExpandedLastFirst(table) ==
  LET added == Bettered(table, Head(table.open))
  IN  [dist |-> With(table.dist, added), open |-> added \o Tail(table.open)]

\* The front of the queue is taken off, and the neighbours that it improves are queued.
Expanded(table) ==
  LET added == Bettered(table, Head(table.open))
  IN  [dist |-> With(table.dist, added), open |-> Tail(table.open) \o added]

\* One round of the loop, which ends when the cell in question has been taken off the queue
\* and expanded, or with the queue.
Round(search, source) ==
  IF search.done \/ search.table.open = << >> THEN search
  ELSE [table |-> Expanded(search.table), done |-> Head(search.table.open).location = source]

\* get_heuristic and get_source_2_path: the table after a question for a cell.  No cell is
\* queued twice, so there are not more rounds than cells.
Asked(table, source) ==
  LET search[k \in 0 .. Cardinality(Free)] ==
        IF k = 0 THEN [table |-> table, done |-> FALSE] ELSE Round(search[k - 1], source)
  IN  IF source \in DOMAIN table.dist THEN table ELSE search[Cardinality(Free)].table

AskedAll(table, cells) ==
  LET asked[k \in 0 .. Len(cells)] ==
        IF k = 0 THEN table ELSE Asked(asked[k - 1], cells[k])
  IN  asked[Len(cells)]

\* A table that was not set up in time is not asked; the distance as the crow flies stands in.
Heuristic(table, goal, c) ==
  IF table = Empty THEN Distance(c, goal) ELSE table.dist[c].cost

AskedIfThere(table, cells) == IF table = Empty THEN Empty ELSE AskedAll(table, cells)

-----------------------------------------------------------------------------
(* A*.                                                                     *)

Node(g, h, cost, turned, parent) ==
  [g |-> g, h |-> h, cost |-> cost, turned |-> turned, parent |-> parent, closed |-> FALSE]

\* The tables that are asked on the way are part of the step.
StartSearch(start, goal) ==
  /\ heuristics' = [heuristics EXCEPT ![goal] = AskedIfThere(@, << start >>)]
  /\ nodes' = [c \in {start} |->
                 Node(0, Heuristic(heuristics'[goal], goal, start), 0, FALSE, None)]

\* What a node has cost and will cost at least, the traffic included.
Total(node) == node.cost + node.g + node.h

Open == {c \in DOMAIN nodes : ~ nodes[c].closed}

\* The order by length alone.
BeforeByLength(m, n) == m.g + m.h < n.g + n.h

\* The order of the queue (cmp_less_of): the total, the length, the longer part done, and no
\* turn before a turn.  What is left is decided at random.
Before(m, n) ==
  \/ Total(m) < Total(n)
  \/ /\ Total(m) = Total(n)
     /\ \/ m.g + m.h < n.g + n.h
        \/ m.g + m.h = n.g + n.h /\ m.g > n.g
        \/ m.g + m.h = n.g + n.h /\ m.g = n.g /\ ~ m.turned /\ n.turned

First == {c \in Open : \A d \in Open : ~ Before(nodes[d], nodes[c])}

\* The node that goes on from one cell to the next.  The tie breaker of the nodes next to the
\* start is not set; it is compared between nodes of equal g only, so with itself.
Reached(curr, next, goal) ==
  LET parent == nodes[curr].parent
  IN  Node(nodes[curr].g + 1, Heuristic(heuristics'[goal], goal, next),
           nodes[curr].cost + TrafficCost(flow, curr, next),
           parent # None /\ get_d(curr - parent) # get_d(next - curr), curr)

\* A cell keeps the node it has got first.
ImprovedOnce(curr, goal) == {next \in Neighbors(curr) : next \notin DOMAIN nodes}

Improved(curr, goal) ==
  {next \in Neighbors(curr) :
     next \in DOMAIN nodes => Total(Reached(curr, next, goal)) < Total(nodes[next])}

\* A closed node that is improved is a re-expansion, on which the program ends.
ReExpansion(curr, goal) == \E next \in Improved(curr, goal) : next \in DOMAIN nodes /\ nodes[next].closed

Expand(curr, goal) ==
  /\ heuristics' = [heuristics EXCEPT ![goal] = AskedIfThere(@, NeighborLocs(curr))]
  /\ nodes' = [c \in DOMAIN nodes \cup Improved(curr, goal) |->
                 IF c \in Improved(curr, goal) THEN Reached(curr, c, goal)
                 ELSE IF c = curr THEN [nodes[c] EXCEPT !.closed = TRUE]
                 ELSE nodes[c]]

\* The trajectory, from the goal along the parents.
Trajectory(goal) ==
  LET Back[k \in 0 .. nodes[goal].g] == IF k = 0 THEN goal ELSE nodes[Back[k - 1]].parent
  IN  [k \in 1 .. nodes[goal].g + 1 |-> Back[nodes[goal].g + 1 - k]]

=============================================================================
