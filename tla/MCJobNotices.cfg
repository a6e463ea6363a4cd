SPECIFICATION LiveSpec
CONSTANTS
  Jobs = {j1}
  Forking = {j1}
  NoJob = NoJob
  MaxMessages = 5
INVARIANTS
  KilledIsRecorded
  NoticeAccounted
  DeliveredWasAnswered
PROPERTIES
  EndWakesAgent
CHECK_DEADLOCK FALSE
