SPECIFICATION FairSpec
CONSTANTS
  Conn = {c1, c2}
  Nobody = Nobody
  TimeLimit = 3
  Sleep = 2
  CheckEvery = 3
INVARIANTS
  TypeOK
  HeldBounded
PROPERTIES
  RequestsAreCalls
  ConnectionsEnd
  QuietMeansChecked
CHECK_DEADLOCK FALSE
