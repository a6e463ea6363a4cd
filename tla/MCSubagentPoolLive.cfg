SPECIFICATION FairSpec
CONSTANTS
  Tasks = {t1, t2}
  ReadOnly = {t2}
  Pinned = {t1}
  Attended = {t1}
  Cancellable = {t1}
  Faulty = {}
  MaxConcurrency = 1
  MaxQueued = 1
  MaxCompleted = 1
PROPERTIES
  AcceptedSettles
  WaiterAnswered
CHECK_DEADLOCK FALSE
