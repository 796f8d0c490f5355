SPECIFICATION Spec
CONSTANTS
  Rows = 2
  Cols = 3
  Obstacles <- Clear
  NumAgents = 3
  Placements <- MCPlacements
  Assignments <- MCAssignments
  Questions <- MCQuestions
  GuidePaths <- MCGuidePaths
  Priorities <- MCPriorities
  Manhattan = FALSE
  Refinement = TRUE
  GuidePathsFrom = 1
  MaxRefinements = 1
  SimulationTime = 2
CHECK_DEADLOCK FALSE
INVARIANTS TablesExact PathTablesExact CheapestFound NeverExits FlowBalances GuidesLead KeepPlace
