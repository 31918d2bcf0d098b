CONSTANTS
  e1 = e1
  e2 = e2
  c1 = c1
  Nobody = Nobody
  Engine <- Two
  First = e1
  Command <- One
  MaxWork = 1
  MaxEvents = 1
SPECIFICATION FairSpec
CHECK_DEADLOCK FALSE
INVARIANTS OneWriter FollowerSawTheEnd
PROPERTIES EngineKeepsWork CancelIsForThisEngine FollowEnds
