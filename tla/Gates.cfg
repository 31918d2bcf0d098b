CONSTANTS
  g1 = g1
  g2 = g2
  Gate <- Both
  MaxAttempts = 2
  TtyOnly <- HeldGates
  Policies <- SomePolicies
  Layers <- SomeLayers
  Agents <- SomeAgents
  Workflows <- SomeWorkflows
  Machines <- SomeMachines
  Blocks <- SomeBlocks
SPECIFICATION Spec
CHECK_DEADLOCK FALSE
INVARIANTS NoGateOpensUnanswered PausedRunIsAnswerable NothingWidened RestrictionsOnlyAdd
