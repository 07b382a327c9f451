SPECIFICATION FairSpec
CHECK_DEADLOCK FALSE
CONSTANTS
  PipelineId = {p1}
  Name = {n1, n2}
  AgentName = {"coder"}
  PhaseName <- MCPhaseNames
  Nothing = Nothing
  Runbooks <- AgentOnly
  Requests <- RunOnly
  MaxRequests = 1
  MaxFaults = 0
  MaxStops = 0
  SyncFaults = FALSE
PROPERTY DeadSessionNoticed
