----------------------------- MODULE MCLaunchGate -----------------------------
(***************************************************************************)
(* Three leaves over two slots and two gates, for TLC.                     *)
(***************************************************************************)
EXTENDS LaunchGate

CONSTANTS l1, l2, l3, g1, g2

Leaves == {l1, l2, l3}
Gates  == {g1, g2}
==============================================================================
