SPECIFICATION FairSpec
CHECK_DEADLOCK FALSE
CONSTANTS
  PipelineId = {p1, p2}
  Name = {n1, n2}
  AgentName = {"coder"}
  PhaseName <- MCPhaseNames
  Nothing = Nothing
  Runbooks <- AcyclicBooks
  Requests <- EndRequests
  MaxRequests = 3
  MaxFaults = 1
  MaxStops = 1
  SyncFaults = FALSE
PROPERTIES
  PhaseFollowsRunbook
  EveryRequestAnswered
