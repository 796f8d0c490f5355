------------------------ MODULE MCCompetitionSystem ------------------------
(***************************************************************************)
(* Two agents in a corridor of three cells and a task file of a task of    *)
(* two errands and one of one errand, revealed one at a time.  The         *)
(* planner moves both agents to one side, legally or not, lets them stay   *)
(* or returns a vector that is too short.                                  *)
(***************************************************************************)
EXTENDS CompetitionSystem

Corridor == {}
TaskFile == << << 0, 2 >>, << 1 >> >>

Team(a0, a1) == [a \in 0 .. 1 |-> IF a = 0 THEN a0 ELSE a1]

Plans == {Team("E", "E"), Team("WE", "WE"), Team("WA", "NA"), [a \in {0} |-> "WA"]}

=============================================================================
