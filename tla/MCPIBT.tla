------------------------------- MODULE MCPIBT -------------------------------
(***************************************************************************)
(* Three agents on an open map of two rows and three columns, where every   *)
(* pair of neighbours is on a cycle.  The agent of highest priority is     *)
(* guided to each cell in turn by the distance; the guides of the others   *)
(* are flat, so that they try their candidates in every order, and so does *)
(* the first agent under the guide that is flat for all.                   *)
(***************************************************************************)
EXTENDS PIBT

Open == {}
Flat == [c \in Free |-> 0]
To(goal) == [c \in Free |-> Distance(c, goal)]

MCGuides == {[a \in Agent |-> Flat]}
             \cup {[a \in Agent |-> IF a = 0 THEN To(goal) ELSE Flat] : goal \in Free}

\* The agents' names do not matter, so agent 0 is always the first.
MCOrders == {[k \in 1 .. NumAgents |-> k - 1]}
MCPlacements == {s \in [Agent -> Free] : \A a, b \in Agent : s[a] = s[b] => a = b}

\* What TopAgentAdvances needs of the map.
ASSUME OnCycles

=============================================================================
