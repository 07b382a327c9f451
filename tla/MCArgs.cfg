SPECIFICATION Spec
SYMMETRY Symmetry
CONSTANTS
  ArgName = {a, b, c}
  MaxTokens = 3
  MaxWords = 7
  DefaultSets <- MCDefaults
  Lines <- MCLines
INVARIANTS
  TypeOK
  ParserIsExact
  RequiredAreBound
  RefusedForCause
  EveryWordOnce
  TextIsWhatWasTyped
CHECK_DEADLOCK FALSE
