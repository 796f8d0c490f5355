SPECIFICATION Spec
CONSTANTS
  NumAgents = 2
  Location <- MCLocation
  Tasks <- MCTasks
  NumTasksReveal = 3
  SimulationTime = 3
INVARIANTS OwnershipAgrees StampsOrdered EveryTaskAccounted
PROPERTIES LifecycleSpec
CHECK_DEADLOCK FALSE
