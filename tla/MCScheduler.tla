----------------------------- MODULE MCScheduler -----------------------------
(***************************************************************************)
(* Small sibling lists for TLC: three steps, the DAGs over them in one     *)
(* topological order, and the plans each run asks about.                   *)
(***************************************************************************)
EXTENDS SchedulerContract, TLC

CONSTANTS s1, s2, s3

Steps == {s1, s2, s3}

Done == [status |-> "succeeded", why |-> "none", error |-> "none", tolerated |-> FALSE]

Fresh == {[s \in Step |-> NoRec]}

\* What an interrupted run may have left behind.
Recorded == {[s \in Step |-> IF s = s2 THEN r ELSE NoRec] : r \in {NoRec, Done}}

Three(a, b, c) == (s1 :> a) @@ (s2 :> b) @@ (s3 :> c)

Base ==
  [needs |-> Three({}, {}, {}), join |-> Three("all", "all", "all"),
   kind |-> Three("leaf", "leaf", "leaf"), when |-> {}, allowFailure |-> {}, alwaysRun |-> {},
   metered |-> {}, policy |-> "drain",
   capped |-> FALSE, cancellable |-> FALSE, interruptible |-> FALSE]

\* A DAG of each shape: a fan-out, a fan-in, a triangle; chains come with the other kinds below.
Triangle == Three({}, {s1}, {s1, s2})
Dags == {Three({}, {s1}, {s1}), Three({}, {}, {s1, s2}), Triangle}

\* A join decides nothing over no needs, and "any" is "all" over a single one; the two branches
\* of a fan-out differ in theirs.
JoinsMatter(p) == /\ \A s \in Steps : /\ p.needs[s] = {} => p.join[s] = "all"
                                      /\ \A n \in Steps : p.needs[s] = {n} => p.join[s] # "any"
                  /\ p.needs[s2] = p.needs[s3] => p.join[s2] # p.join[s3]

\* Leaves under every shape and join, with a condition and a tolerated failure.
JoinPlans ==
  {p \in {[Base EXCEPT !.needs = d, !.join = Three("all", j2, j3), !.policy = "fail_fast",
                       !.when = {s2}, !.allowFailure = {s1}] :
            d \in Dags, j2 \in Joins, j3 \in Joins}
         \union {[Base EXCEPT !.needs = Triangle, !.join = Three("all", j2, j3),
                              !.policy = "continue", !.when = {s3}] :
                    j2 \in Joins, j3 \in Joins} : JoinsMatter(p)}

\* Gates, stops and composites beside and below each other, with a cleanup step.
SignalPlans ==
  {[Base EXCEPT !.needs = x[1], !.join = Three("all", x[2], "always"), !.kind = x[3],
                !.policy = x[4]] :
     x \in {<<Three({}, {}, {}), "always", Three("gate", "composite", "stop"), "drain">>,
            <<Three({}, {}, {s1}), "always", Three("composite", "stop", "stop"), "drain">>,
            <<Three({}, {s1}, {s2}), "all", Three("gate", "composite", "leaf"), "fail_fast">>,
            <<Three({}, {s1}, {s2}), "all", Three("composite", "stop", "leaf"), "fail_fast">>}}

\* A cap or an interruption, and a cancel request, may each arrive at any moment.
BreakerPlans ==
  {[Base EXCEPT !.needs = Three({}, {s1}, {s1}), !.join = Three("all", "any", x[1]),
                !.kind = Three("leaf", x[2], "leaf"), !.policy = x[3], !.capped = x[4],
                !.metered = IF x[4] THEN {s3} ELSE {},
                !.cancellable = TRUE, !.interruptible = x[5]] :
     x \in {<<"always", "leaf", "continue", TRUE, FALSE>>,
            <<"all", "leaf", "continue", FALSE, TRUE>>,
            <<"always", "composite", "fail_fast", FALSE, FALSE>>}}

\* Mixed lists with conditions, breakers, a stop, a gate and a cache.
MixedPlans ==
  {[Base EXCEPT !.needs = Three({}, {s1}, {s2}), !.join = Three("all", j2, j3),
                !.kind = Three(k1, "leaf", "leaf"), !.when = {s3}, !.policy = "fail_fast",
                !.cancellable = j2 = "always", !.interruptible = j2 = "all"] :
     j2 \in {"all", "always"}, j3 \in {"any", "always"}, k1 \in {"gate", "stop"}}

SchedulerPlans == JoinPlans \union SignalPlans \union BreakerPlans \union MixedPlans
==============================================================================
