SPECIFICATION Spec
CONSTANTS
  Rows = 3
  Cols = 2
  Obstacles <- Obstacle
  NumAgents = 4
  SimulationTime = 1
PROPERTIES MovesConflictFree LegalPlansExecuted ErrorsNameConflicts
CHECK_DEADLOCK FALSE
