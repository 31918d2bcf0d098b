-------------------------------- MODULE MCRun --------------------------------
(***************************************************************************)
(* Small runs for TLC: two or three root steps, one resume.                *)
(***************************************************************************)
EXTENDS Run, TLC

CONSTANTS s1, s2, s3

Steps == {s1, s2, s3}

Fresh == {[s \in Step |-> NoRec]}

Three(a, b, c) == (s1 :> a) @@ (s2 :> b) @@ (s3 :> c)

Base ==
  [needs |-> Three({}, {}, {}), join |-> Three("all", "all", "all"),
   kind |-> Three("leaf", "leaf", "leaf"), when |-> {}, allowFailure |-> {}, alwaysRun |-> {},
   metered |-> {}, policy |-> "drain",
   capped |-> FALSE, cancellable |-> FALSE, interruptible |-> FALSE]

\* A stop or a gate that always runs beside leaves that may fail, with a cap or a cancel; no crash.
VerdictPlans ==
  {[Base EXCEPT !.needs = Three({}, {s1}, {}), !.join = Three("all", "any", "always"),
                !.kind = Three("leaf", "leaf", x.kind), !.policy = x.policy, !.capped = x.capped,
                !.cancellable = ~x.capped, !.allowFailure = {s2}] :
     x \in [kind: {"stop"}, policy: {"continue", "fail_fast"}, capped: BOOLEAN]
             \union [kind: {"gate"}, policy: {"fail_fast"}, capped: {FALSE}]}

\* A leaf or a gate, a leaf that needs it and one beside it: the process may be interrupted or
\* killed, or the run is cancelled; once with a leaf every resume runs again, and twice with a
\* condition, which a resume asks again.
ResumePlans ==
  {[Base EXCEPT !.needs = Three({}, {}, {s2}), !.kind = Three("leaf", x[1], "leaf"),
                !.alwaysRun = x[2], !.interruptible = x[3], !.cancellable = ~x[3], !.when = x[4]] :
     x \in {<<"leaf", {}, TRUE, {s3}>>, <<"leaf", {s2}, FALSE, {}>>, <<"gate", {}, FALSE, {s3}>>}}

RunPlans == VerdictPlans \union ResumePlans
==============================================================================
