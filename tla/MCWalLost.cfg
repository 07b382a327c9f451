SPECIFICATION Spec
CHECK_DEADLOCK FALSE
CONSTANTS
  Op = {a, b}
  Garbage = Garbage
  None = None
  MaxAppends = 2
  MaxFaults = 1
  MaxCrashes = 0
INVARIANT AckedIsReadable
