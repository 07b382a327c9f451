SPECIFICATION Spec
CONSTANTS
  ArgName = {a, b}
  MaxTokens = 2
  MaxWords = 3
  DefaultSets <- MCDefaults
  Lines <- MCSwitchLines
INVARIANT GivenOptionIsUsed
CHECK_DEADLOCK FALSE
