CONSTANTS
  l1 = l1
  l2 = l2
  l3 = l3
  g1 = g1
  g2 = g2
  Gate <- Gates
  Leaf <- Leaves
  MaxParallel = 2
SPECIFICATION FairLaunch
INVARIANTS ClosedForOne
PROPERTIES LeafIsLetGo GateIsAsked
