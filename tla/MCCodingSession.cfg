SPECIFICATION LiveSpec
CONSTANTS
  Requests = {r1, r2}
  Queuing = {r2}
  NoRequest = NoRequest
  MaxRetries = 1
  Candidates = 1
  MaxRuns = 2
  MaxAborts = 1
PROPERTIES
  RetryNotMissed
  PromptReturns
  StreakEnds
CHECK_DEADLOCK FALSE
