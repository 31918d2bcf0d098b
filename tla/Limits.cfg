CONSTANTS
  r1 = r1
  r2 = r2
  r3 = r3
  Run <- Three
  Providers = 2
  MaxSlot = 2
  Policies <- SomePolicies
  Demands <- SomeDemands
  Free = Free
  Caps <- SomeCaps
  Uncapped = Uncapped
  Tasks = 2
  Days = 2
  MaxTotal = 4
  MaxCost = 1
  Nobody = Nobody
SPECIFICATION Spec
CHECK_DEADLOCK FALSE
INVARIANTS NobodyWaitsInARing OvershootIsBounded CommitsLand NothingBookedTwice
