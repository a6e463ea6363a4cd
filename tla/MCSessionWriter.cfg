SPECIFICATION LiveSpec
CONSTANTS
  Producers = {p1}
  Paths = {f1, f2}
  NoPath = NoPath
  MaxEntries = 2
  MaxBytes = 2
  ReplaceBytes = 3
  MaxOps = 3
  MaxBoots = 2
INVARIANTS
  FilesFollowTheQueue
PROPERTIES
  ImplementsSessionLog
  CallersAnswered
CHECK_DEADLOCK FALSE
