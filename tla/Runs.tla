-------------------------------- MODULE Runs ---------------------------------
(***************************************************************************)
(* The runs of one operator, each a process of its own.  They share the    *)
(* slot files of the state directory and the spend ledger of the project.  *)
(***************************************************************************)
EXTENDS FiniteSets

CONSTANT Run

ASSUME RunAssumption == IsFiniteSet(Run)
==============================================================================
