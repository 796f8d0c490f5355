----------------------------- MODULE MCFlowPaths -----------------------------
(***************************************************************************)
(* A map of two rows with an obstacle, whose rows are also joined at their *)
(* ends, without traffic and with traffic around one of its cells.         *)
(***************************************************************************)
EXTENDS FlowPaths

SmallObstacles == {4}

EnoughTasks ==
  {load \in UNION {[cells -> 1 .. 2] : cells \in {c \in SUBSET (0 .. 5 \ SmallObstacles) : Cardinality(c) <= 2}} :
     MapThenSumSet(LAMBDA loc : load[loc], DOMAIN load) \in NumWorkers .. NumWorkers + 1}

NoTraffic == [loc \in 0 .. 5 |-> [d \in 0 .. 3 |-> 0]]
Traffic   == [loc \in 0 .. 5 |-> [d \in 0 .. 3 |-> IF loc = 1 /\ d \in {0, 1} THEN 1 ELSE 0]]

SmallFlows == {NoTraffic, Traffic}

=============================================================================
