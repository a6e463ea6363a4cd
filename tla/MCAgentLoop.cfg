SPECIFICATION LiveSpec
CONSTANTS
  Callers = {c1, c2}
  Tasks = {t1}
  NoCaller = NoCaller
  MaxMessages = 2
  SteeringMode = "one-at-a-time"
  FollowUpMode = "one-at-a-time"
INVARIANTS
  OneRunAtATime
  IdleWaiterHasWaker
  MessagesAccounted
  StopsOnlyWithoutWork
PROPERTIES
  SteeringTaken
  AbortEndsRun
CHECK_DEADLOCK FALSE
