SPECIFICATION Spec
CONSTANTS
  NumAgents = 4
  Task <- MCTask
  KeepBias = 1
  CandidateTopK = 2
  Invalid = 1000
  Configs <- MCConfigs
  TrafficTopK = 1
  Scenes <- MCScenes
  Surcharges <- MCSurcharges
INVARIANTS ProposalValid LoadCapped WorkConserving
