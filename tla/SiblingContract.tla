--------------------------- MODULE SiblingContract ---------------------------
(***************************************************************************)
(* What run_graph promises the workflow's author, without its machinery:   *)
(* every step gets one verdict, after the verdicts of the steps it needs,  *)
(* and it can only have run if the join table accepted those verdicts.     *)
(***************************************************************************)
EXTENDS JoinTable

CONSTANT Step

VARIABLES
  needs, join, \* the sibling list
  guarded,     \* the steps with a when: condition, or under an operator's ceiling
  replayable,  \* the steps an earlier run of this run id answers for
  verdict      \* "none" until the step is decided

Classes  == {"succeeded", "skipped", "failed"}
Verdicts == Classes \union {"none", "paused"}

vars == <<needs, join, guarded, replayable, verdict>>

Known(s)   == \A n \in needs[s] : verdict[n] \in Classes
Accepts(s) == JoinDecision(join[s], {verdict[n] : n \in needs[s]}, FALSE) = "run"

Give(s, v) ==
  /\ verdict[s] = "none" /\ Known(s)
  /\ verdict' = [verdict EXCEPT ![s] = v]
  /\ UNCHANGED <<needs, join, guarded, replayable>>

\* The step ran, or was launched and then kept from its first attempt by a breaker.
Run(s) == /\ Accepts(s)
          /\ \E v \in Verdicts \ {"none"} : Give(s, v) /\ (v = "skipped" => join[s] # "always")

Skip(s) == (join[s] # "always" \/ s \in guarded) /\ Give(s, "skipped")

\* Once a breaker tripped, a record of an earlier run answers whatever the needs did.
Replay(s) == s \in replayable /\ join[s] # "always" /\ Give(s, "succeeded")

Init == /\ needs \in [Step -> SUBSET Step] /\ join \in [Step -> Joins]
        /\ guarded \in SUBSET Step /\ replayable \in SUBSET Step
        /\ verdict = [s \in Step |-> "none"]

Next == \E s \in Step : Run(s) \/ Skip(s) \/ Replay(s)

Spec == Init /\ [][Next]_vars
==============================================================================
