SPECIFICATION FairSpec
CONSTANTS
  Conn = {c1}
  Nobody = Nobody
  TimeLimit = 2
  Sleep = 2
  CheckEvery = 2
PROPERTY ChecksRecur
CHECK_DEADLOCK FALSE
