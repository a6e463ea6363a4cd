SPECIFICATION FilesSpec
CONSTANTS
  Files = {1, 2}
  KeepRecent = 1
  MaxEntries = 5
  MaxMoves = 1
  MaxFaults = 1
INVARIANTS
  FileHoldsSession
  
  NothingSkipped
PROPERTIES
  RestartFindsPrefix
  
  ForkDuplicates
CHECK_DEADLOCK FALSE
