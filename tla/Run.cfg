CONSTANTS
  s1 = s1
  s2 = s2
  s3 = s3
  Step <- Steps
  Plans <- RunPlans
  MaxAttempts = 1
  Caches <- Fresh
  MaxResumes = 1
SPECIFICATION RunSpec
INVARIANT VerdictIsTrue
PROPERTY SuccessLostOnlyToFailure
