SPECIFICATION LiveSpec
CONSTANTS
  Procs = {p1, p2}
  Ghost = ghost
  NoProc = NoProc
  Tasks = {t1, t2}
  Recurring = {t1}
  DueAt = {0, 2}
  Late = 0
  Lookback = 1
  MaxMinute = 2
  MaxErrors = 1
  MaxCrashes = 1

  
PROPERTIES
  
  DueHandled
  
CHECK_DEADLOCK FALSE
