SPECIFICATION HeapSpec
CONSTANTS
  NumAgents = 2
  Location <- Lane
  Tasks <- TaskFile
  NumTasksReveal = 2
  SimulationTime = 3
  Distance <- Steps
  CrowFlies <- AsSeen
  Landmarks <- Middle
  Pressures <- Pressure
  DistWeight = 2
  KeepBias = 1
  SortK = 1
  Configs <- SmallConfigs
INVARIANTS ScheduleAccepted LoadCapped ScoresCurrent
CHECK_DEADLOCK FALSE
