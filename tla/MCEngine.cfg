SPECIFICATION Spec
CHECK_DEADLOCK FALSE
CONSTANTS
  PipelineId = {p1, p2}
  Name = {n1, n2}
  AgentName = {"coder"}
  PhaseName <- MCPhaseNames
  Nothing = Nothing
  Runbooks <- AllBooks
  Requests <- AllRequests
  MaxRequests = 3
  MaxFaults = 1
  MaxStops = 1
  SyncFaults = TRUE
SYMMETRY Symmetry
INVARIANTS
  TypeOK
  LogAheadOfMemory
  WorkspaceBeforePipeline
  OneWorkspacePerPipeline
  SessionRecorded
  ShellResultIsFresh
  WaitingIsServed
  EngineInv
  SettleInv
  LifeInv
PROPERTIES
  OkMeansSettled
  RecordsFollowRunbook
