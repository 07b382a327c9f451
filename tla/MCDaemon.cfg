SPECIFICATION FairSpec
CHECK_DEADLOCK FALSE
CONSTANTS
  Daemon = {d0, d1, d2, d3}
  Client = {c1}
  Nobody = Nobody
  Old = d0
  Ops = {"run", "start", "stop", "foreground"}
  MaxCommands = 3
  MaxFaults = 1
  MaxCrashes = 1
  MaxSignals = 1
  MaxTimeouts = 1
INVARIANTS
  TypeOK
  LockExcludes
  ServingIsFindable
  QuietInv
  NobodyHarmed
PROPERTY NoTimeLimitNeeded
