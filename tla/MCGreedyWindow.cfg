SPECIFICATION Spec
CONSTANTS
  NumAgents = 3
  Location <- MoreCells
  Tasks <- TaskFile
  NumTasksReveal = 2
  SimulationTime = 4
  CommitWindow = 2
  Solvers <- GreedyOnly
  MaxMatchingEdges = 1
  MaxAgents = 2
  MaxTasks = 2
INVARIANTS FreeTracked
CHECK_DEADLOCK FALSE
