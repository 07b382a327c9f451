SPECIFICATION Spec
CHECK_DEADLOCK FALSE
CONSTANTS
  Daemon = {d0, d1, d2}
  Client = {c1}
  Nobody = Nobody
  Old = d0
  Ops = {"run", "foreground"}
  MaxCommands = 3
  MaxFaults = 0
  MaxCrashes = 0
  MaxSignals = 0
  MaxTimeouts = 0
INVARIANT OneDaemonServes
