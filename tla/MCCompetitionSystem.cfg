SPECIFICATION SystemSpec
CONSTANTS
  Rows = 1
  Cols = 3
  Obstacles <- Corridor
  NumAgents = 2
  Tasks <- TaskFile
  NumTasksReveal = 1
  SimulationTime = 3
  CommitWindow = 2
  ReturnedPlans <- Plans
INVARIANTS PlansForPresent TimeAccounted JoinedBeforeUse WaitsStoodStill ErrandsNoticed
PROPERTIES Terminates WindowKeepsSchedule TasksFollowManager
CHECK_DEADLOCK FALSE
