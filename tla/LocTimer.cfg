SPECIFICATION FairSpec
CONSTANTS
  Clients = {c1, c2, c3}
  NoClient = NoClient
  Delays = {1, 3}
  MaxStarts = 3
  MaxTime = 3
INVARIANTS
  HeapIntact
  ArmedForSoonest
  EarlyOnlyIfOvertaken
PROPERTIES
  StartedTimerEnds
CHECK_DEADLOCK FALSE
