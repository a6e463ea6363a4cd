SPECIFICATION Spec
CONSTANTS
  Tasks = {t1, t2}
  ReadOnly = {t2}
  Pinned = {t1}
  Attended = {t1}
  Cancellable = {t1, t2}
  Faulty = {t1}
  MaxConcurrency = 1
  MaxQueued = 2
  MaxCompleted = 1
INVARIANTS
  ConcurrencyBounded
  QueueHasPuller
  SettledOnce
CHECK_DEADLOCK FALSE
