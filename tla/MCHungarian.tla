----------------------------- MODULE MCHungarian ----------------------------
(***************************************************************************)
(* All matrices of up to three rows and three columns with three costs,    *)
(* one of them negative: pairs that are kept get a bonus, which makes a    *)
(* cost negative.                                                          *)
(***************************************************************************)
EXTENDS Hungarian

Matrices(n, m, costs) == [1 .. n -> [1 .. m -> costs]]

MCCosts ==
  Matrices(3, 3, {-1, 0, 2}) \cup Matrices(2, 3, {-1, 0, 2}) \cup Matrices(3, 2, {-1, 0, 2})
    \cup Matrices(1, 3, {-1, 0, 2}) \cup Matrices(3, 1, {-1, 0, 2})

=============================================================================
