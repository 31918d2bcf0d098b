CONSTANTS
  N = 3
  Len = 3
  MaxParallel = 1
  Plans <- SomePlans
SPECIFICATION FairSpec
INVARIANTS FailureNeverVanishes StrongestSignal CancelFailsOnlyOnReading
PROPERTIES Terminates
