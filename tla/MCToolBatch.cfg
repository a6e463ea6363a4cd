SPECIFICATION LiveSpec
CONSTANTS
  N = 4
  MaxParallel = 2
  Hanging = {2}
INVARIANTS
  AnsweredOnce
  CutShortTruthfully
  OrderedStarts
PROPERTIES
  BatchCompletes
  AbortEndsBatch
CHECK_DEADLOCK FALSE
