SPECIFICATION Spec
CHECK_DEADLOCK FALSE
CONSTANTS
  Daemon = {d0, d1}
  Client = {c1}
  Nobody = Nobody
  Old = d0
  Ops = {"run"}
  MaxCommands = 2
  MaxFaults = 0
  MaxCrashes = 1
  MaxSignals = 0
  MaxTimeouts = 0
INVARIANT RefusedMeansStarted
