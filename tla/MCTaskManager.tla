--------------------------- MODULE MCTaskManager ---------------------------
(* Two agents, three cells, a pool of three tasks, and a task file with a     *)
(* pickup-and-delivery task and a single-errand task.                       *)
EXTENDS TaskManager

MCLocation == {"x", "y", "z"}
MCTasks == << <<"x", "y">>, <<"y">>, <<"z", "x">> >>
=============================================================================
