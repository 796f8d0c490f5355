----------------------------- MODULE Hungarian ------------------------------
(***************************************************************************)
(* The assignment algorithm of the task matcher and the capped scheduler   *)
(* (hungarian in default_planner/portable_assignment.cpp): rows are added  *)
(* one by one, each along a shortest augmenting path that is found with    *)
(* potentials u of the rows and v of the columns.  Column 0 is a dummy     *)
(* that holds the row being added.                                         *)
(*                                                                         *)
(* Costs are integers here and floats in the code.                         *)
(***************************************************************************)
EXTENDS Assignment

CONSTANT Costs  \* the cost matrices to solve; none is empty

ASSUME CostsAssumption ==
  \A cost \in Costs : /\ cost \in Seq(Seq(Int)) /\ Len(cost) > 0 /\ Len(cost[1]) > 0
                      /\ \A i \in 1 .. Len(cost) : Len(cost[i]) = Len(cost[1])

VARIABLES
  cost,
  u, v,        \* the potentials
  p,           \* column -> the row it is matched with, or 0
  way,         \* column -> the column before it on the path
  minv,        \* column not on the tree yet -> its distance from the tree
  used,        \* the columns on the tree
  row, j0,     \* i and j0
  pc,          \* "row", "scan", "augment" or "done"
  assignment

vars == << cost, u, v, p, way, minv, used, row, j0, pc, assignment >>

-----------------------------------------------------------------------------
\* More rows than columns: rows and columns change roles.
Transposed(c) == Len(c) > Len(c[1])

Oriented(c) ==
  IF Transposed(c) THEN [j \in Columns(c) |-> [i \in Rows(c) |-> c[i][j]]] ELSE c

matrix == Oriented(cost)

NumRows == Len(matrix)
NumCols == Len(matrix[1])

\* Columns on the tree are looked at again.
OutsideOrNot == 1 .. NumCols

\* The columns that are not on the tree when j0 has joined it.
Outside == (1 .. NumCols) \ (used \cup {j0})

Reduced(i, j) == matrix[i][j] - u[i] - v[j]

\* The last row of the tree is taken to be the nearest, whatever was found before.
ShorterAlways(j) == TRUE

\* j0's row offers a shorter way to column j.
Shorter(j) == j \notin DOMAIN minv \/ Reduced(p[j0], j) < minv[j]

Distance(j) == IF Shorter(j) THEN Reduced(p[j0], j) ELSE minv[j]

delta == Min({Distance(j) : j \in Outside})

\* The first of the nearest columns.
Nearest == Min({j \in Outside : Distance(j) = delta})

\* The rows on the tree.
UsedRows == {p[j] : j \in used \cup {j0}}

-----------------------------------------------------------------------------
Init ==
  /\ cost \in Costs
  /\ u = [i \in 0 .. NumRows |-> 0]
  /\ v = [j \in 0 .. NumCols |-> 0]
  /\ p = [j \in 0 .. NumCols |-> 0]
  /\ way = [j \in 0 .. NumCols |-> 0]
  /\ minv = << >>
  /\ used = {}
  /\ row = 0
  /\ j0 = 0
  /\ pc = "row"
  /\ assignment = [i \in Rows(cost) |-> Unassigned]

\* The next row becomes the root of a tree.
NextRow ==
  /\ pc = "row" /\ row < NumRows
  /\ row' = row + 1
  /\ p' = [p EXCEPT ![0] = row + 1]
  /\ j0' = 0
  /\ minv' = << >>
  /\ used' = {}
  /\ pc' = "scan"
  /\ UNCHANGED << cost, u, v, way, assignment >>

\* The potentials of the rows follow, those of the columns do not.
ScanRowsOnly ==
  /\ pc = "scan"
  /\ used' = used \cup {j0}
  /\ way' = [j \in 0 .. NumCols |-> IF j \in Outside /\ Shorter(j) THEN j0 ELSE way[j]]
  /\ u' = [i \in 0 .. NumRows |-> IF i \in UsedRows THEN u[i] + delta ELSE u[i]]
  /\ minv' = [j \in Outside |-> Distance(j) - delta]
  /\ j0' = Nearest
  /\ pc' = IF p[Nearest] = 0 THEN "augment" ELSE "scan"
  /\ UNCHANGED << cost, v, p, row, assignment >>

\* Column j0 joins the tree, and the potentials change so that the nearest column outside
\* is reached; when that column is free the path is complete.
Scan ==
  /\ pc = "scan"
  /\ used' = used \cup {j0}
  /\ way' = [j \in 0 .. NumCols |-> IF j \in Outside /\ Shorter(j) THEN j0 ELSE way[j]]
  /\ u' = [i \in 0 .. NumRows |-> IF i \in UsedRows THEN u[i] + delta ELSE u[i]]
  /\ v' = [j \in 0 .. NumCols |-> IF j \in used \cup {j0} THEN v[j] - delta ELSE v[j]]
  /\ minv' = [j \in Outside |-> Distance(j) - delta]
  /\ j0' = Nearest
  /\ pc' = IF p[Nearest] = 0 THEN "augment" ELSE "scan"
  /\ UNCHANGED << cost, p, row, assignment >>

\* One step back along the path: each column takes over the row of the one before it.
Augment ==
  /\ pc = "augment"
  /\ p' = [p EXCEPT ![j0] = p[way[j0]]]
  /\ j0' = way[j0]
  /\ pc' = IF way[j0] = 0 THEN "row" ELSE "augment"
  /\ UNCHANGED << cost, u, v, way, minv, used, row, assignment >>

\* The column of a row, or the row of a column when the matrix was transposed.
Matched(i) ==
  IF Transposed(cost) THEN p[i]
  ELSE IF \E j \in 1 .. NumCols : p[j] = i THEN CHOOSE j \in 1 .. NumCols : p[j] = i
  ELSE Unassigned

Finish ==
  /\ pc = "row" /\ row = NumRows
  /\ assignment' = [i \in Rows(cost) |-> Matched(i)]
  /\ pc' = "done"
  /\ UNCHANGED << cost, u, v, p, way, minv, used, row, j0 >>

Next == NextRow \/ Scan \/ Augment \/ Finish

Spec == Init /\ [][Next]_vars /\ WF_vars(Next)
-----------------------------------------------------------------------------
\* Between two rows the potentials certify the matching: no pair costs less than its
\* potentials, matched pairs cost just that, and a free column has potential 0.
PotentialsCertify ==
  pc \in {"row", "done"} =>
    /\ \A i \in 1 .. row, j \in 1 .. NumCols : u[i] + v[j] <= matrix[i][j]
    /\ \A j \in 1 .. NumCols : IF p[j] = 0 THEN v[j] = 0
                               ELSE v[j] <= 0 /\ u[p[j]] + v[j] = matrix[p[j]][j]
    /\ \A i \in 1 .. row : \E j \in 1 .. NumCols : p[j] = i

\* The result is one of the cheapest assignments, whichever side is longer.
AssignmentOptimal == pc = "done" => assignment \in Optimal(cost)

\* The search for a path and the walk back along it end.
Terminates == <>(pc = "done")

=============================================================================
