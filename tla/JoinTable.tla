------------------------------ MODULE JoinTable ------------------------------
(***************************************************************************)
(* The join truth table of one sibling list: what a step does once every   *)
(* step it needs has a terminal record (engine/graph.py).  Pure data: no   *)
(* variables.                                                              *)
(***************************************************************************)

Joins == {"all", "any", "always"}

Terminal == {"succeeded", "failed", "skipped", "interrupted", "rejected"}

Statuses == Terminal \union {"none", "running", "paused"}

FailedLike == {"failed", "interrupted", "rejected"}

SkipReasons == {"upstream_failed", "upstream_skipped", "run_failed"}

\* A record counts as failed for a sibling list unless allow_failure tolerated it.
Untolerated(r) == r.status \in FailedLike /\ ~r.tolerated

\* The class of one terminal record; a tolerated failure counts as a success.
Classify(r) ==
  CASE r.status = "succeeded"                 -> "succeeded"
    [] r.status = "failed" /\ r.tolerated     -> "succeeded"
    [] r.status = "skipped"                   -> "skipped"
    [] OTHER                                  -> "failed"

\* "run", or the reason the step is skipped for.  classes is the set of classes of its needs.
JoinDecision(join, classes, draining) ==
  IF join = "always" THEN "run"
  ELSE IF "failed" \in classes THEN "upstream_failed"
  ELSE IF classes = {"skipped"} THEN "upstream_skipped"
  ELSE IF join = "all" /\ "skipped" \in classes THEN "upstream_skipped"
  ELSE IF draining THEN "run_failed"
  ELSE "run"
==============================================================================
