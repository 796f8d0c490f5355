SPECIFICATION FlowSpec
CONSTANTS
  Rows = 2
  Cols = 3
  Obstacles <- SmallObstacles
  NumAgents = 3
  NumWorkers = 3
  Workloads <- EnoughTasks
  BackgroundFlows <- SmallFlows
INVARIANTS WorkersServed CheapestScheduleRead
CHECK_DEADLOCK FALSE
