----------------------------- MODULE Assignment -----------------------------
(***************************************************************************)
(* What the schedulers expect of an assignment algorithm.  A cost matrix   *)
(* is a sequence of rows of equal length; an assignment gives each row a   *)
(* column of its own, or None when there are more rows than columns.       *)
(***************************************************************************)
EXTENDS Integers, Sequences, FiniteSets, FiniteSetsExt

Unassigned == 0

Rows(cost) == 1 .. Len(cost)
Columns(cost) == IF Len(cost) = 0 THEN {} ELSE 1 .. Len(cost[1])

\* No column is given twice.
Exclusive(assignment) ==
  \A i, k \in DOMAIN assignment :
    assignment[i] = assignment[k] /\ i # k => assignment[i] = Unassigned

\* Either every row has a column or every column is given.
Saturating(cost, assignment) ==
  \/ \A i \in Rows(cost) : assignment[i] # Unassigned
  \/ \A j \in Columns(cost) : \E i \in Rows(cost) : assignment[i] = j

Assignments(cost) ==
  {assignment \in [Rows(cost) -> Columns(cost) \cup {Unassigned}] :
     Exclusive(assignment) /\ Saturating(cost, assignment)}

Total(cost, assignment) ==
  LET assigned == {i \in Rows(cost) : assignment[i] # Unassigned}
      price    == [i \in assigned |-> cost[i][assignment[i]]]
  IN  MapThenSumSet(LAMBDA i : price[i], assigned)

\* The assignments of least total cost.
Optimal(cost) ==
  {assignment \in Assignments(cost) :
     \A other \in Assignments(cost) : Total(cost, assignment) <= Total(cost, other)}

=============================================================================
