--------------------------- MODULE MCRunLifecycle ---------------------------
(***************************************************************************)
(* The engine that created a run, one that resumes it, one command at a    *)
(* time and a follower.                                                    *)
(***************************************************************************)
EXTENDS RunLifecycle

CONSTANTS e1, e2, c1

Two == {e1, e2}
One == {c1}
==============================================================================
