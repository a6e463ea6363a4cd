SPECIFICATION LiveSpec
CONSTANTS
  ToolCalls = {c1, c2}
  Listings = {l1}
  NoCall = NoCall
  MaxInFlight = 2
  MaxStarts = 1
INVARIANTS
  RunAtMostOnce
  NoStrayServer
PROPERTIES
  LiveSessionKept
  CallsReturn
CHECK_DEADLOCK FALSE
