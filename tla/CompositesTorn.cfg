CONSTANTS
  N = 3
  Len = 3
  MaxParallel = 1
  Plans <- SomePlans
SPECIFICATION Spec
INVARIANT StopKeepsItsStatus
