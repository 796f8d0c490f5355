------------------------------ MODULE MCPlanner ------------------------------
(***************************************************************************)
(* Three agents on an open map of two rows and three columns, where most   *)
(* errands can be reached in several ways.  Goals change between the two   *)
(* timesteps, or stay.  One of the guide paths of the schedulers is the    *)
(* longest that there is, and jumps from one row to the next; the others   *)
(* are shortest.                                                           *)
(***************************************************************************)
EXTENDS Planner

Clear == {}
Each(seqs) == {[a \in Agent |-> s[a + 1]] : s \in seqs}
MCPlacements == Each({<< 0, 5, 1 >>})
MCQuestions == {<< 5, 4 >>, << 0, 5 >>}
MCGuidePaths == {<< 0, 1, 2, 3, 4, 5 >>, << 4, 3, 0 >>, << 1, 2, 5 >>}
MCAssignments ==
  Each({<< << 5 >>, << 0, 3 >>, << 3 >> >>, << << 5 >>, << 3 >>, << 5 >> >>, << << >>, << 0, 3 >>, << 5 >> >>})
MCPriorities == {[k \in 1 .. NumAgents |-> k - 1]}

ASSUME ReachableAssumption == GoalsReachable

=============================================================================
