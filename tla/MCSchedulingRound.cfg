SPECIFICATION Spec
CONSTANTS
  NumAgents = 2
  Location <- Cells
  Tasks <- TaskFile
  NumTasksReveal = 3
  SimulationTime = 5
  CommitWindow = 1
  Solvers <- AllSolvers
  MaxMatchingEdges = 1
  MaxAgents = 2
  MaxTasks = 2
INVARIANTS FreeTracked NobodyForgotten
PROPERTIES RoundsComplete
CHECK_DEADLOCK FALSE
