-------------------------------- MODULE MAPF --------------------------------
(***************************************************************************)
(* What "the agents move without conflict" means: in every step all agents *)
(* move at once, each stays or goes to a neighbour, no two end up in the   *)
(* same vertex and no two exchange theirs.  A cycle of agents may rotate.  *)
(***************************************************************************)
CONSTANTS Agent, Vertex, Adjacent(_, _)

VARIABLE position  \* agent -> vertex

ConflictFree(from, to) ==
  \A a, b \in Agent : a # b =>
    /\ to[a] # to[b]
    /\ ~ (to[a] = from[b] /\ to[b] = from[a])

Placements == {p \in [Agent -> Vertex] : \A a, b \in Agent : p[a] = p[b] => a = b}

Init == position \in Placements

MoveAll ==
  /\ position' \in [Agent -> Vertex]
  /\ \A a \in Agent : position'[a] = position[a] \/ Adjacent(position[a], position'[a])
  /\ ConflictFree(position, position')

Next == MoveAll

Spec == Init /\ [][Next]_position

=============================================================================
