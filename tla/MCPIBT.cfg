SPECIFICATION Spec
CONSTANTS
  Rows = 2
  Cols = 3
  Obstacles <- Open
  NumAgents = 3
  Guides <- MCGuides
  Orders <- MCOrders
  Placements <- MCPlacements
INVARIANTS PlanLegal DecisionCleared TopAgentAdvances
PROPERTIES PlanReturned
