------------------------------- MODULE Permits -------------------------------
(***************************************************************************)
(* The one limit on the leaves of a run, at any depth (engine/runtime.py): *)
(* LaunchGate models how a permit is taken and given back, Composites the  *)
(* bodies whose leaves hold one each.                                      *)
(***************************************************************************)
EXTENDS Naturals

CONSTANT MaxParallel \* defaults.max_parallel

ASSUME ParallelAssumption == MaxParallel \in Nat \ {0}
==============================================================================
