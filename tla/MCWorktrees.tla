----------------------------- MODULE MCWorktrees -----------------------------
(***************************************************************************)
(* Two processes of one run beside a cancel and a clean command.           *)
(***************************************************************************)
EXTENDS Worktrees, TLC

CONSTANTS r1, r2, k1, c1

Two   == {r1, r2}
Clear == {k1}
Clean == {c1}

Sym == Permutations(Two)
==============================================================================
