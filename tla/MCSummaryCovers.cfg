SPECIFICATION FilesSpec
CONSTANTS
  Files = {1}
  KeepRecent = 1
  MaxEntries = 5
  MaxMoves = 0
  MaxFaults = 0
INVARIANT SummaryCovers
CHECK_DEADLOCK FALSE
