---------------------------- MODULE MCSimulator ----------------------------
(***************************************************************************)
(* Four agents on a map of three rows and two columns:                     *)
(*                                                                         *)
(*     @ 1      Four agents can rotate on the square 2 3 5 4.  1 and 2 are *)
(*     2 3      neighbours in the linear order but not on the map, and so  *)
(*     4 5      are 3 and 4.                                               *)
(*                                                                         *)
(* Every placement is initial, so that one move meets every case.          *)
(***************************************************************************)
EXTENDS Simulator

Obstacle == {0}

=============================================================================
