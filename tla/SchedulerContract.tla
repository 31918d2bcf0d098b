-------------------------- MODULE SchedulerContract --------------------------
(***************************************************************************)
(* run_graph implements the contract of a sibling list: its records map to *)
(* verdicts, and everything else it does is a stutter of the contract.     *)
(***************************************************************************)
EXTENDS Scheduler

\* A verdict is known once the step is settled; a pause is no verdict of the join table.
VerdictOf(s) ==
  IF s \notin Settled THEN "none"
  ELSE IF out[s].status = "paused" THEN "paused" ELSE Classify(out[s])

Contract == INSTANCE SiblingContract
              WITH needs      <- plan.needs,
                   join       <- plan.join,
                   guarded    <- plan.when \union plan.metered,
                   replayable <- {s \in Step : CanReuse(s)},
                   verdict    <- [s \in Step |-> VerdictOf(s)]

\* Whatever fails, drains, stops, is cancelled or torn down, run_graph gives every step at most
\* one verdict, after the verdicts of its needs, and lets it run only if its join accepts them.
ImplementsContract == Contract!Spec
==============================================================================
