SPECIFICATION Spec
CHECK_DEADLOCK FALSE
CONSTANTS
  Op = {a, b}
  Garbage = Garbage
  None = None
  MaxAppends = 5
  MaxFaults = 2
  MaxCrashes = 3
SYMMETRY Symmetry
INVARIANTS
  TypeOK
  ReadableLogIsComplete
  SequenceCountsLines
  MemoryIsLog
