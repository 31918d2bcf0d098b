CONSTANTS
  s1 = s1
  s2 = s2
  s3 = s3
  Step <- Steps
  Plans <- SchedulerPlans
  MaxAttempts = 2
  Caches <- Recorded
SPECIFICATION FairSpec
INVARIANTS EveryStepDecided SignalBubbles CleanupIsNeverSkipped ReasonsAreTrue WriteAhead
PROPERTIES BreakerHolds ImplementsContract Terminates
