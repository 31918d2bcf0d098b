------------------------------ MODULE Composites ------------------------------
(***************************************************************************)
(* A composite step (each:, loop: or include:) in the root list, the       *)
(* bodies it runs, a sibling that may tear it down, and the verdict the    *)
(* run ends with. A body is a chain: every step needs the one before it.   *)
(***************************************************************************)
EXTENDS Permits, FiniteSets

CONSTANTS
  N,           \* the most items or iterations
  Len,         \* the steps of a body
  Plans        \* the composites asked about

ASSUME SizeAssumption == N \in Nat \ {0} /\ Len \in Nat \ {0}

Body == 1..N   \* an item, an iteration; an include has the one
Pos  == 1..Len

Plan ==
  [kind : {"each", "loop", "include"},
   total : 0..N,                              \* len(items), max_iterations
   parallel : 0..N,                           \* each.max_parallel, 0 for none
   what : [Pos -> {"leaf", "stop", "gate"}],
   cleanup : SUBSET Pos,                      \* join: always
   lenient : BOOLEAN,                         \* on_failure / on_exhausted: continue
   until : BOOLEAN,                           \* the loop has an until:
   reads : SUBSET Pos,                        \* outputs until: or outputs: refers to
   sibling : {"none", "stopped", "paused", "failed"}, \* how a sibling may end the root list
   capped : BOOLEAN, cancellable : BOOLEAN]

ASSUME PlansAssumption == Plans \subseteq Plan

VARIABLES
  plan,
  stage,   \* stage[i]: where run_graph of body i is
  rec,     \* rec[i][p]: the record of step p of body i
  comp,    \* the composite's own record
  control, \* each: the one signal that bubbles
  reason,  \* each: the cancel_reason of its children's scopes
  torn,    \* the cancel_reason of the root scope, once it cancelled the composite
  answer,  \* ctx.paused is set
  budget,  \* ctx.budget_exceeded
  cancel,  \* ctx.cancel_requested
  verdict  \* run.json: the status the run was finalized with

vars == <<plan, stage, rec, comp, control, reason, torn, answer, budget, cancel, verdict>>
flags == <<answer, budget, cancel>>
outer == <<plan, control, reason, torn, verdict>>

Record(s, w) == [status |-> s, why |-> w]
Pending  == Record("pending", "none")
Terminal == {"succeeded", "failed", "skipped", "interrupted"}
Reasons  == {"none", "stopped", "paused", "failed", "interrupted", "cancelled", "budget_exceeded",
             "upstream_failed", "upstream_skipped"}
Errors   == {"none", "each", "items", "body", "until", "exhausted", "budget", "with", "outputs"}

TypeOK ==
  /\ plan \in Plan
  /\ stage \in [Body -> {"none", "queued", "body", "returned", "raised", "cut"}]
  /\ rec \in [Body -> [Pos -> [status : Terminal \union {"pending", "queued", "asked", "running", "paused"},
                               why : Reasons]]]
  /\ comp \in [status : {"running", "paused"} \union Terminal, why : Reasons, error : Errors]
  /\ control \in {"none", "stop", "pause"} /\ reason \in {"none", "stopped", "paused"}
  /\ torn \in {"none", "stopped", "paused", "failed"}
  /\ {answer, budget, cancel} \subseteq BOOLEAN
  /\ verdict \in {"none", "succeeded", "failed", "cancelled", "paused", "stopped"}

------------------------------------------------------------------------------
(* One body: run_graph over the chain *)

Each       == plan.kind = "each"
Over(i)    == stage[i] \in {"returned", "raised", "cut"}
CutPending == control # "none" \/ torn # "none"
Breaker    == IF budget THEN "budget_exceeded" ELSE IF cancel THEN "cancelled" ELSE "none"

Decided(i, p) == rec[i][p].status \in Terminal
PausedIn(i)   == \E p \in Pos : rec[i][p].status = "paused"
StoppedIn(i)  == \E p \in Pos : plan.what[p] = "stop" /\ rec[i][p].status = "succeeded"

\* The step the chain is at: its need is terminal, it is not.
At(i, p) == ~Decided(i, p) /\ \A q \in 1..(p - 1) : Decided(i, q)

\* Why the step is skipped instead of launched; the wind-down of a stop asks no breaker.
SkipReason(i, p) ==
  LET need == IF p = 1 THEN "succeeded" ELSE rec[i][p - 1].status IN
    IF p \in plan.cleanup                   THEN "none"
    ELSE IF StoppedIn(i)                    THEN "stopped"
    ELSE IF Breaker # "none"                THEN Breaker
    ELSE IF need \in {"failed", "interrupted"} THEN "upstream_failed"
    ELSE IF need = "skipped"                THEN "upstream_skipped" ELSE "none"

Write(i, p, r) == rec' = [rec EXCEPT ![i][p] = r]

\* decide_and_launch, or wind_down once a stop ended the list.
Decide(i) ==
  /\ stage[i] = "body" /\ ~CutPending /\ ~PausedIn(i)
  /\ \E p \in Pos :
       /\ At(i, p) /\ rec[i][p] = Pending
       /\ LET why == SkipReason(i, p) IN
            Write(i, p, IF why # "none" THEN Record("skipped", why)
                        ELSE IF plan.what[p] = "leaf" THEN Record("queued", "none")
                        ELSE Record("running", "none"))
  /\ UNCHANGED <<outer, flags, stage, comp>>

RunningLeaves == {x \in Body \X Pos : /\ plan.what[x[2]] = "leaf"
                                      /\ rec[x[1]][x[2]].status \in {"asked", "running"}}

\* run_leaf holds a permit and asks the breakers again before the first attempt ...
AskLeaf(i, p) ==
  /\ stage[i] = "body" /\ ~CutPending /\ rec[i][p].status = "queued"
  /\ Cardinality(RunningLeaves) < MaxParallel
  /\ Write(i, p, IF Breaker # "none" /\ p \notin plan.cleanup THEN Record("skipped", Breaker)
                 ELSE Record("asked", "none"))
  /\ UNCHANGED <<outer, flags, stage, comp>>

\* ... which starts on that answer: a breaker that trips meanwhile is not seen.
StartLeaf(i, p) ==
  /\ stage[i] = "body" /\ ~CutPending /\ rec[i][p].status = "asked"
  /\ Write(i, p, Record("running", "none"))
  /\ UNCHANGED <<outer, flags, stage, comp>>

\* Mutant: nothing counts the retries of a leaf.
EndLeafEndless(i, p) ==
  /\ stage[i] = "body" /\ plan.what[p] = "leaf" /\ rec[i][p].status = "running"
  /\ \E s \in {"succeeded", "queued"} : Write(i, p, Record(s, "none"))
  /\ budget' \in {budget, plan.capped \/ budget}
  /\ UNCHANGED <<outer, stage, comp, answer, cancel>>

\* A leaf may still end by itself while its cancellation is on its way.
EndLeaf(i, p) ==
  /\ stage[i] = "body" /\ plan.what[p] = "leaf" /\ rec[i][p].status = "running"
  /\ \E s \in {"succeeded", "failed"} : Write(i, p, Record(s, "none"))
  /\ budget' \in {budget, plan.capped \/ budget}
  /\ UNCHANGED <<outer, stage, comp, answer, cancel>>

EndStop(i, p) ==
  /\ stage[i] = "body" /\ plan.what[p] = "stop" /\ rec[i][p].status = "running"
  /\ Write(i, p, Record("succeeded", "none"))
  /\ UNCHANGED <<outer, flags, stage, comp>>

\* The gate is approved, or it pauses the run.
EndGate(i, p) ==
  /\ stage[i] = "body" /\ plan.what[p] = "gate" /\ rec[i][p].status = "running"
  /\ \/ Write(i, p, Record("succeeded", "none")) /\ UNCHANGED answer
     \/ Write(i, p, Record("paused", "paused")) /\ answer' = TRUE
  /\ UNCHANGED <<outer, stage, comp, budget, cancel>>

Through(i) == PausedIn(i) \/ \A p \in Pos : Decided(i, p)

\* run_graph returns its outcomes.
Return(i) ==
  /\ stage[i] = "body" /\ ~CutPending /\ Through(i) /\ ~PausedIn(i) /\ ~StoppedIn(i)
  /\ stage' = [stage EXCEPT ![i] = "returned"]
  /\ UNCHANGED <<outer, flags, rec, comp>>

\* Mutant: the last signal wins.
RaiseLast(i) ==
  /\ stage[i] = "body" /\ Through(i) /\ (PausedIn(i) \/ StoppedIn(i))
  /\ stage' = [stage EXCEPT ![i] = "raised"]
  /\ control' = IF PausedIn(i) THEN "pause" ELSE "stop"
  /\ reason' = IF reason # "none" \/ ~Each THEN reason
               ELSE IF PausedIn(i) THEN "paused" ELSE "stopped"
  /\ UNCHANGED <<plan, torn, verdict, flags, rec, comp>>

\* run_graph raises; each: keeps the first signal, except that a pause beats a stop, and cancels
\* the other items.
Raise(i) ==
  /\ stage[i] = "body" /\ Through(i) /\ (PausedIn(i) \/ StoppedIn(i))
  /\ stage' = [stage EXCEPT ![i] = "raised"]
  /\ control' = IF PausedIn(i) THEN "pause" ELSE IF control = "none" THEN "stop" ELSE control
  /\ reason' = IF reason # "none" \/ ~Each THEN reason
               ELSE IF PausedIn(i) THEN "paused" ELSE "stopped"
  /\ UNCHANGED <<plan, torn, verdict, flags, rec, comp>>

\* The cancellation reaches a body: the step in flight is interrupted for the reason its own
\* scope names, and the graph unwinds without a wind-down. A gate keeps the pause it recorded.
Cut(i) ==
  /\ CutPending /\ stage[i] \in {"queued", "body"}
  /\ stage' = [stage EXCEPT ![i] = "cut"]
  /\ rec' = [rec EXCEPT ![i] = [p \in Pos |->
       IF rec[i][p].status \in {"queued", "asked", "running"}
       THEN Record("interrupted", IF reason = "none" THEN "interrupted" ELSE reason)
       ELSE rec[i][p]]]
  /\ UNCHANGED <<outer, flags, comp>>

Work(i) == \/ Decide(i) \/ Return(i) \/ Raise(i) \/ Cut(i)
           \/ \E p \in Pos : \/ AskLeaf(i, p) \/ StartLeaf(i, p) \/ EndLeaf(i, p)
                            \/ EndStop(i, p) \/ EndGate(i, p)

------------------------------------------------------------------------------
(* The executors *)

\* failed_body_step: what of a body fails its composite.
FailedBody(i) ==
  \E p \in Pos : \/ rec[i][p].status \in {"failed", "interrupted", "paused"}
                 \/ rec[i][p] = Record("skipped", "budget_exceeded")

\* A step that did not succeed has no output: an expression that refers to it does not render.
Unreadable(i) == \E p \in plan.reads : rec[i][p].status # "succeeded"

End(s, w, e) == /\ comp' = [status |-> s, why |-> w, error |-> e]
                /\ UNCHANGED <<outer, flags, stage, rec>>
Fail(e)      == End("failed", "none", e)
Succeed      == End("succeeded", "none", "none")

Enter(S, where) == /\ stage' = [i \in Body |-> IF i \in S THEN where ELSE stage[i]]
                   /\ UNCHANGED <<outer, flags, rec, comp>>

Running  == comp.status = "running" /\ ~CutPending
Unborn   == \A i \in Body : stage[i] = "none"
Returned == {i \in Body : stage[i] = "returned"}

\* each: evaluates to a sequence, whose items all start, or to something else.
RunEach == /\ Running /\ Each /\ Unborn
           /\ \/ Fail("each")
              \/ plan.total = 0 /\ Succeed
              \/ plan.total > 0 /\ Enter(1..plan.total, "queued")

\* The item gets its slot of max_parallel.
Admit(i) ==
  /\ Running /\ stage[i] = "queued"
  /\ plan.parallel # 0 => Cardinality({j \in Body : stage[j] = "body"}) < plan.parallel
  /\ Enter({i}, "body")

EachEnds ==
  /\ Running /\ Each /\ plan.total > 0 /\ Returned = 1..plan.total
  /\ IF ~plan.lenient /\ \E i \in Returned : FailedBody(i) THEN Fail("items") ELSE Succeed

\* The loop between two iterations: the body's failure, until:, exhaustion, then the breakers.
RunLoop ==
  /\ Running /\ plan.kind = "loop"
  /\ LET n == Cardinality(Returned)
         next == IF n = plan.total
                 THEN IF plan.until /\ ~plan.lenient THEN Fail("exhausted") ELSE Succeed
                 ELSE CASE budget -> Fail("budget")
                        [] ~budget /\ cancel -> End("interrupted", "cancelled", "none")
                        [] OTHER -> Enter({n + 1}, "body") IN
       /\ \A i \in Body : stage[i] = IF i \in 1..n THEN "returned" ELSE "none"
       /\ CASE n > 0 /\ FailedBody(n) -> Fail("body")
            [] n > 0 /\ ~FailedBody(n) /\ plan.until /\ Unreadable(n) -> Fail("until")
            [] n > 0 /\ ~FailedBody(n) /\ plan.until /\ ~Unreadable(n) -> Succeed \/ next
            [] OTHER -> next

RunInclude ==
  /\ Running /\ plan.kind = "include" /\ Unborn
  /\ Fail("with") \/ Enter({1}, "body")

IncludeEnds ==
  /\ Running /\ plan.kind = "include" /\ Returned = {1}
  /\ IF FailedBody(1) THEN Fail("body") ELSE IF Unreadable(1) THEN Fail("outputs") ELSE Succeed

\* The composite passes a signal of its body on, or is interrupted for the root's reason.
Unwind ==
  /\ comp.status = "running" /\ CutPending
  /\ \A i \in Body : stage[i] # "none" => Over(i)
  /\ IF torn # "none" THEN End("interrupted", torn, "none")
     ELSE IF control = "pause" THEN End("paused", "paused", "none")
     ELSE End("interrupted", "stopped", "none")

Executor == RunEach \/ EachEnds \/ RunLoop \/ RunInclude \/ IncludeEnds \/ Unwind

------------------------------------------------------------------------------
(* The run around it *)

\* A sibling's stop:, paused gate or fail-fast failure cancels the composite's task.
Tear ==
  /\ comp.status = "running" /\ torn = "none" /\ plan.sibling # "none"
  /\ Each \/ control = "none"
  /\ torn' = plan.sibling
  /\ answer' = (answer \/ plan.sibling = "paused")
  /\ UNCHANGED <<plan, stage, rec, comp, control, reason, budget, cancel, verdict>>

\* cancel.json is noticed.
RequestCancel ==
  /\ plan.cancellable /\ ~cancel /\ comp.status = "running"
  /\ cancel' = TRUE
  /\ UNCHANGED <<outer, stage, rec, comp, answer, budget>>

StopCollateral(r)   == r.status = "interrupted" /\ r.why = "stopped"
\* Mutant: only a skipped step is the cancel's own teardown.
CancelSkipped(r)    == r.status = "skipped" /\ r.why = "cancelled"
CancelCollateral(r) == r.status \in {"interrupted", "skipped"} /\ r.why = "cancelled"
Counts(r)           == /\ r.status \in {"failed", "interrupted"}
                       /\ ~StopCollateral(r) /\ ~CancelCollateral(r)

\* Mutant: only the top-level records are counted.
FailedAtTheTop == torn = "failed" \/ Counts(comp)

\* run_failures: a body record counts when the composite around it was torn down by a stop.
Failed == \/ torn = "failed" \/ Counts(comp)
          \/ StopCollateral(comp) /\ \E i \in Body, p \in Pos : Counts(rec[i][p])

\* The ladder of _finalize; "stopped" stands for the status the stop: declared.
Finalize ==
  /\ comp.status # "running" /\ verdict = "none"
  /\ verdict' = IF answer THEN "paused"
                ELSE IF budget THEN "failed"
                ELSE IF cancel THEN IF Failed THEN "failed" ELSE "cancelled"
                ELSE IF Failed THEN "failed"
                ELSE IF comp.why = "stopped" THEN "stopped" ELSE "succeeded"
  /\ UNCHANGED <<plan, control, reason, torn, flags, stage, rec, comp>>

Done == verdict # "none" /\ UNCHANGED vars

Init ==
  /\ plan \in Plans
  /\ stage = [i \in Body |-> "none"] /\ rec = [i \in Body |-> [p \in Pos |-> Pending]]
  /\ comp = [status |-> "running", why |-> "none", error |-> "none"]
  /\ control = "none" /\ reason = "none" /\ torn = "none"
  /\ answer = FALSE /\ budget = FALSE /\ cancel = FALSE /\ verdict = "none"

Next == \/ Executor \/ Tear \/ RequestCancel \/ Finalize \/ Done
        \/ \E i \in Body : Work(i) \/ Admit(i)

\* Every attempt ends: its executor returns, times out or is cancelled.
Fairness == /\ WF_vars(Executor) /\ WF_vars(Finalize)
            /\ \A i \in Body : WF_vars(Work(i)) /\ WF_vars(Admit(i))

Spec     == Init /\ [][Next]_vars
FairSpec == Spec /\ Fairness

------------------------------------------------------------------------------
(* What a composite promises the run *)

NoFailedStep == \A i \in Body, p \in Pos : rec[i][p].status # "failed"

\* However deep a failed step sits and whatever ended the composite, the run does not end
\* succeeded, cancelled or with the status a stop: declared, unless the composite's own policy
\* (each.on_failure: continue) answered for it.
FailureNeverVanishes ==
  verdict \in {"succeeded", "cancelled", "stopped"} =>
    \A i \in Body, p \in Pos : rec[i][p].status = "failed" =>
      plan.kind = "each" /\ plan.lenient /\ comp.status = "succeeded"

\* The signal the composite passes on is the strongest its bodies raised: a pause beats a stop,
\* whichever item raised it first, and nothing else makes it pass one on.
StrongestSignal ==
  comp.status # "running" /\ torn = "none" =>
    LET raised(paused) == \E i \in Body : stage[i] = "raised" /\ PausedIn(i) = paused IN
      /\ comp.status = "paused" <=> raised(TRUE)
      /\ StopCollateral(comp) <=> raised(FALSE) /\ ~raised(TRUE)

\* A cancel is no failure: with no failed step, cap or tear, a cancelled run ends failed only
\* when the composite itself could not be evaluated, or when what it evaluates over the body
\* (until:, outputs:) refers to a step the cancel skipped.
CancelFailsOnlyOnReading ==
  cancel /\ verdict = "failed" /\ ~budget /\ torn = "none" /\ NoFailedStep =>
       \/ comp.error \in {"each", "with", "exhausted"}
       \/ comp.error \in {"until", "outputs"} /\ \E i \in Body : Unreadable(i)

\* The composite and the run around it always end: the slots of max_parallel and the leaf permits
\* never wait for each other, and a cut body always unwinds.
Terminates == <>(verdict # "none")

\* A stop: that has to cancel a running composite keeps its declared status, when no step failed.
StopKeepsItsStatus ==
  torn = "stopped" /\ verdict # "none" /\ ~answer /\ ~budget /\ ~cancel /\ NoFailedStep =>
    verdict = "stopped"
==============================================================================
