------------------------- MODULE MCSchedulingRound --------------------------
(***************************************************************************)
(* A small team in a corridor.  One task has two errands, so that it is    *)
(* opened before it is finished.                                           *)
(***************************************************************************)
EXTENDS SchedulingRound

Cells     == {"x", "y"}
MoreCells == {"x", "y", "z"}
TaskFile == << << "x", "y" >>, << "y" >> >>

Solver(name, new_only, use_traffic) ==
  [name |-> name, new_only |-> new_only, use_traffic |-> use_traffic]

AllSolvers ==
  {Solver("greedy", FALSE, FALSE), Solver("flow", FALSE, FALSE), Solver("flow", TRUE, FALSE),
   Solver("matching", FALSE, TRUE), Solver("matching", TRUE, TRUE), Solver("matching", FALSE, FALSE),
   Solver("matching", TRUE, FALSE), Solver("hungarian", FALSE, FALSE)}

GreedyOnly == {Solver("greedy", FALSE, FALSE)}

=============================================================================
