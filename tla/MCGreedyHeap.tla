---------------------------- MODULE MCGreedyHeap ----------------------------
(***************************************************************************)
(* Two agents on three cells, the ends and the middle of a lane that turns *)
(* around an obstacle: the ends are further apart than they look.  The cap *)
(* is lowered by the warm-up, the tasks of agents on their way are         *)
(* exchanged or not, there is traffic or not, and lists are short where    *)
(* both agents need one.                                                   *)
(***************************************************************************)
EXTENDS GreedyHeap

Lane     == 0 .. 2
Steps    == [c \in Lane |-> [d \in Lane |-> 2 * Gap(c, d)]]
AsSeen   == [c \in Lane |-> [d \in Lane |-> IF c = d THEN 0 ELSE 2]]
Middle   == {1}
Pressure == {1}
TaskFile == << << 0, 2 >>, << 2 >>, << 1 >> >>

Config(max_total, warmup_total, reassign_enabled) ==
  [max_total |-> max_total, warmup_total |-> warmup_total, warmup_steps |-> 1,
   reassign_enabled |-> reassign_enabled, reassign_min_dist |-> 1,
   fair_candidate_k |-> 0, fair_exact_agent_threshold |-> 1, exact_pickup_cache |-> FALSE,
   traffic_rerank |-> FALSE]

SmallConfigs ==
  {Config(2, 2, TRUE), Config(2, 1, FALSE), Config(1, 2, TRUE),
   [Config(2, 2, FALSE) EXCEPT !.traffic_rerank = TRUE],
   [Config(2, 2, TRUE) EXCEPT !.fair_candidate_k = 1],
   [Config(2, 2, FALSE) EXCEPT !.fair_candidate_k = 2, !.exact_pickup_cache = TRUE]}

=============================================================================
