------------------------------ MODULE Scheduler ------------------------------
(***************************************************************************)
(* One sibling list of steps run as a DAG: run_graph (the main task), one  *)
(* run_one task per launched step, the operator who may cancel the run and *)
(* the world that may interrupt it (engine/scheduler.py).                  *)
(*                                                                         *)
(* The event loop is single threaded, so a task's code between two awaits  *)
(* is one action.  Spend, wall clock and process results are abstracted to *)
(* choices; every branch the code takes on them is kept.                   *)
(***************************************************************************)
EXTENDS JoinTable, Naturals, Sequences

CONSTANTS
  Step,        \* the steps of the sibling list
  Plans,       \* the sibling lists and options to run, one chosen initially
  MaxAttempts, \* retry.attempts of every leaf: the bound on attempts in one run
  Caches       \* the records a resumed run starts from; a fresh run has NoRec only

Kinds    == {"leaf", "gate", "stop", "composite"}
Policies == {"drain", "continue", "fail_fast"}
Reasons  == SkipReasons \union {"none", "when_false", "budget_exceeded", "cancelled",
                                "stopped", "paused", "failed", "interrupted"}
Errors   == {"none", "machine", "rejected", "persist"}

\* What a sibling list declares, and what may happen to the run.
Plan == [needs: [Step -> SUBSET Step], join: [Step -> Joins], kind: [Step -> Kinds],
         when: SUBSET Step, allowFailure: SUBSET Step, alwaysRun: SUBSET Step,
         metered: SUBSET Step, \* the prompt leaves, if the cap that may trip is the operator's
         policy: Policies, capped: BOOLEAN, cancellable: BOOLEAN, interruptible: BOOLEAN]

Rec   == [status: Statuses, why: Reasons, error: Errors, tolerated: BOOLEAN]
NoRec == [status |-> "none", why |-> "none", error |-> "none", tolerated |-> FALSE]

ASSUME PlansAssumption    == Plans \subseteq Plan
ASSUME AttemptsAssumption == MaxAttempts \in Nat \ {0}
ASSUME CachesAssumption   == Caches \subseteq [Step -> Rec]

\* The loader refuses a dependency cycle: any steps have one among them that needs none of them.
Acyclic(p) == \A S \in SUBSET Step : S # {} => \E s \in S : p.needs[s] \cap S = {}
ASSUME DagAssumption == \A p \in Plans : Acyclic(p)

\* A reason is set on a record together with the status it explains, never with one of these.
ASSUME ReasonsAssumption ==
  \A c \in Caches, s \in Step : c[s].status \in {"succeeded", "failed"} => c[s].why = "none"

VARIABLES
  plan,         \* the chosen plan (never changes)
  cache,        \* ctx.cache: the records of the previous run of this run id (never changes)
  phase,        \* where each step is: pending, a run_one task at some await, or settled
  rec,          \* run.json: the persisted record of each step
  out,          \* the StepOutcome's record, in memory (NoRec: none yet)
  signal,       \* the StepOutcome's control
  attempts,     \* leaf attempts started in this run
  stream,       \* the memory object stream of outcomes, in order
  draining, paused, control,   \* run_graph's state dict; control names the signalling step
  budget, cancel,              \* ctx.budget_exceeded, ctx.cancel_requested
  flag,         \* cancel.json exists
  pc,           \* where the main task is
  wd,           \* the reason wind_down was called with ("none": not called)
  round,        \* the ready steps wind_down has not decided in its current pass
  cancelReason, \* scope.cancel_reason
  aborted       \* cancelled from outside, or an exception left the decision path

taskVars   == <<phase, rec, out, signal, attempts, stream>>
stateVars  == <<draining, paused, control>>
gateVars   == <<budget, cancel, flag>>
mainVars   == <<pc, wd, round, cancelReason, aborted>>
frozenVars == <<plan, cache>>
vars       == <<frozenVars, taskVars, stateVars, gateVars, mainVars>>

Active  == {"launched", "queued", "asking", "asked", "attempt", "failing", "backoff", "ending"}
Phases  == Active \union {"pending", "sent", "settled"}
Signals == {"none", "stop", "pause"}
Final   == {"returned", "raised", "aborted"}
Pcs     == Final \union {"check", "decide", "receive", "teardown", "collect",
                         "winddown", "wd_decide", "wd_run"}

NoControl == [kind |-> "none", by |-> "none"]
Control   == {NoControl} \union [kind: {"stop", "pause"}, by: Step]

TypeOK ==
  /\ plan \in Plan /\ cache \in [Step -> Rec]
  /\ phase \in [Step -> Phases]
  /\ rec \in [Step -> Rec] /\ out \in [Step -> Rec]
  /\ signal \in [Step -> Signals]
  /\ attempts \in [Step -> 0..MaxAttempts]
  /\ stream \in Seq(Step)
  /\ draining \in BOOLEAN /\ paused \in BOOLEAN /\ control \in Control
  /\ budget \in BOOLEAN /\ cancel \in BOOLEAN /\ flag \in BOOLEAN
  /\ pc \in Pcs /\ wd \in {"none", "stopped", "run_failed"} /\ round \in SUBSET Step
  /\ cancelReason \in {"none", "stopped", "paused", "failed"} /\ aborted \in BOOLEAN

------------------------------------------------------------------------------
(* Records *)

Outcome(status, why) ==
  [status |-> status, why |-> why, error |-> "none", tolerated |-> FALSE]
Failure(error) ==
  [status |-> "failed", why |-> "none", error |-> error, tolerated |-> FALSE]
Interrupted ==
  Outcome("interrupted", IF cancelReason = "none" THEN "interrupted" ELSE cancelReason)

\* finalize: the derived fields of a finished record.
Finalized(s, r) ==
  IF r.status = "failed" /\ s \in plan.allowFailure THEN [r EXCEPT !.tolerated = TRUE] ELSE r

\* try_reuse: the previous record answers for the step.
CanReuse(s) ==
  /\ plan.kind[s] \in {"leaf", "gate"}
  /\ s \notin plan.alwaysRun
  /\ \/ cache[s].status = "succeeded"
     \/ cache[s].status = "failed" /\ cache[s].tolerated

------------------------------------------------------------------------------
(* What the main task reads *)

KeepGoing == plan.policy = "continue"
FailFast  == plan.policy = "fail_fast"
Settled   == {s \in Step : phase[s] = "settled"}
Pending   == {s \in Step : phase[s] = "pending"}
Running   == {s \in Step : phase[s] \in Active \union {"sent"}}
NoneActive == \A s \in Step : phase[s] \notin Active

\* decidable: every need settled on a terminal record.
Decidable(s) == \A n \in plan.needs[s] : n \in Settled /\ out[n].status \in Terminal
Ready        == {s \in Pending : Decidable(s)}
ClassesOf(s) == {Classify(out[n]) : n \in plan.needs[s]}

\* The one drain gate of decide_and_launch: the cap tripped or a cancel was seen.
Gated(s) == (budget \/ cancel) /\ plan.join[s] # "always"
Decision(s, drain) == JoinDecision(plan.join[s], ClassesOf(s), drain)

\* Cancellation is delivered at the next await of every task of the group.
Torn == aborted \/ pc = "teardown"

------------------------------------------------------------------------------
(* Parts of a step *)

\* check_budget: spend or the clock may be over the cap by now; a trip is remembered.
AskBudget == budget' \in {budget, budget \/ plan.capped}
\* check_cancelled reads cancel.json in a worker thread and remembers a cancel that it saw.
SeeCancel == (cancel \/ flag) /\ cancel' = TRUE /\ UNCHANGED budget

\* Every save writes the whole run.json: the record of s, and with it any outcome an earlier
\* save failed to write.  A record whose step is still in flight is not reusable before its
\* output file is stamped on it, so run.json is modelled as holding it the way it began.
Save(s, r) ==
  rec' = [t \in Step |-> IF t = s THEN r
                         ELSE IF phase[t] \in {"sent", "settled"} THEN out[t] ELSE rec[t]]

\* Mutant: the first signal wins, whatever comes after it.
SettleFirstSignal(s, r, sig) ==
  /\ draining' = (draining \/ Untolerated(r) \/ r.status = "paused")
  /\ paused' = (paused \/ r.status = "paused")
  /\ control' = IF sig # "none" /\ control.kind = "none" THEN [kind |-> sig, by |-> s] ELSE control

\* settle: the outcome joins the outcomes, drains the list, or carries the first signal.
Settle(s, r, sig) ==
  /\ draining' = \/ draining
                 \/ Untolerated(r) /\ (r.error = "rejected" \/ ~KeepGoing)
                 \/ r.status = "paused"
  /\ paused' = (paused \/ r.status = "paused")
  /\ control' = IF \/ sig # "none" /\ control.kind = "none"
                   \/ sig = "pause" /\ control.kind # "pause"
                THEN [kind |-> sig, by |-> s] ELSE control

\* The main task decides a pending step without running it: finish (persist, ask the
\* breaker), then settle.
Decide(s, r) ==
  LET final == Finalized(s, r) IN
    /\ phase' = [phase EXCEPT ![s] = "settled"]
    /\ Save(s, final)
    /\ out' = [out EXCEPT ![s] = final]
    /\ Settle(s, final, "none")
    /\ AskBudget
    /\ UNCHANGED <<frozenVars, signal, attempts, stream, cancel, flag>>

StartTask(s) ==
  /\ phase' = [phase EXCEPT ![s] = "launched"]
  /\ UNCHANGED <<frozenVars, rec, out, signal, attempts, stream, stateVars, gateVars>>

\* when: a false condition skips the step, one that cannot be evaluated fails it.
WhenRefuses(s) ==
  /\ s \in plan.when
  /\ Decide(s, Outcome("skipped", "when_false")) \/ Decide(s, Failure("machine"))

------------------------------------------------------------------------------
(* run_graph: decide_and_launch *)

CheckCancelled ==
  /\ pc = "check"
  /\ pc' = "decide"
  /\ cancel' = (cancel \/ flag)
  /\ UNCHANGED <<frozenVars, taskVars, stateVars, budget, flag,
                 wd, round, cancelReason, aborted>>

\* Mutant: a gated step stays pending.
DecideGatedAgain(s) ==
  /\ pc = "decide" /\ s \in Ready /\ Gated(s)
  /\ AskBudget
  /\ UNCHANGED <<frozenVars, taskVars, stateVars, cancel, flag, mainVars>>

\* Mutant: a gated step is skipped without looking into the cache.
DecideGatedSkips(s) ==
  /\ pc = "decide" /\ s \in Ready /\ Gated(s)
  /\ Decide(s, Outcome("skipped", IF budget THEN "budget_exceeded" ELSE "cancelled"))
  /\ UNCHANGED mainVars

\* A replay is free, so a gated step is replayed from the cache when it can be.
DecideGated(s) ==
  /\ pc = "decide" /\ s \in Ready /\ Gated(s)
  /\ Decide(s, IF CanReuse(s) THEN cache[s]
               ELSE Outcome("skipped", IF budget THEN "budget_exceeded" ELSE "cancelled"))
  /\ UNCHANGED mainVars

DecideJoin(s) ==
  /\ pc = "decide" /\ s \in Ready /\ ~Gated(s)
  /\ LET decision == Decision(s, draining \/ control.kind # "none") IN
       /\ decision # "run"
       /\ Decide(s, Outcome("skipped", decision))
  /\ UNCHANGED mainVars

DecideWhen(s) ==
  /\ pc = "decide" /\ s \in Ready /\ ~Gated(s)
  /\ Decision(s, draining \/ control.kind # "none") = "run"
  /\ WhenRefuses(s)
  /\ UNCHANGED mainVars

\* Mutant: the verdict of the join table is not asked.
LaunchAnyway(s) ==
  /\ pc = "decide" /\ s \in Ready /\ ~Gated(s)
  /\ StartTask(s)
  /\ UNCHANGED mainVars

Launch(s) ==
  /\ pc = "decide" /\ s \in Ready /\ ~Gated(s)
  /\ Decision(s, draining \/ control.kind # "none") = "run"
  /\ StartTask(s)
  /\ UNCHANGED mainVars

\* The passes end when no pending step can be decided any more.
Decided ==
  /\ pc = "decide" /\ Ready = {}
  /\ pc' = "receive"
  /\ UNCHANGED <<frozenVars, taskVars, stateVars, gateVars, wd, round, cancelReason, aborted>>

------------------------------------------------------------------------------
(* run_graph: the receive loop, the teardown and the final collect *)

SettleHead ==
  LET s == Head(stream) IN
    /\ stream # <<>>
    /\ stream' = Tail(stream)
    /\ phase' = [phase EXCEPT ![s] = "settled"]
    /\ Settle(s, out[s], signal[s])
    /\ UNCHANGED <<frozenVars, rec, out, signal, attempts, gateVars>>

\* Mutant: the teardown does not say why it cancels.
ReceiveUnexplained ==
  /\ pc = "receive" /\ SettleHead
  /\ pc' = IF control'.kind # "none" \/ (draining' /\ FailFast) THEN "teardown" ELSE "check"
  /\ UNCHANGED <<wd, round, cancelReason, aborted>>

Receive ==
  /\ pc = "receive" /\ SettleHead
  /\ LET stopping == control'.kind # "none"
         failing  == draining' /\ FailFast /\ Running # {Head(stream)} IN
       /\ pc' = IF stopping \/ failing THEN "teardown" ELSE "check"
       /\ cancelReason' = CASE control'.kind = "stop"  -> "stopped"
                            [] control'.kind = "pause" -> "paused"
                            [] ~stopping /\ failing    -> "failed"
                            [] OTHER                   -> cancelReason
  /\ UNCHANGED <<wd, round, aborted>>

\* The task group is left once every task of it has ended.
GroupDone ==
  /\ \/ pc = "receive" /\ Running = {}
     \/ pc = "teardown" /\ NoneActive
     \/ pc = "wd_run" /\ NoneActive /\ ~aborted
  /\ pc' = "collect"
  /\ UNCHANGED <<frozenVars, taskVars, stateVars, gateVars, wd, round, cancelReason, aborted>>

Collect ==
  /\ pc = "collect" /\ SettleHead
  /\ UNCHANGED mainVars

\* Mutant: only a stop winds down what is still pending.
CollectedAfterStop ==
  /\ pc = "collect" /\ stream = <<>>
  /\ wd' = IF wd = "none" /\ ~aborted /\ control.kind = "stop" THEN "stopped" ELSE wd
  /\ pc' = IF aborted THEN "aborted"
           ELSE IF wd' # "none" THEN "winddown"
           ELSE IF control.kind = "pause" THEN "raised" ELSE "returned"
  /\ UNCHANGED <<frozenVars, taskVars, stateVars, gateVars, round, cancelReason, aborted>>

Collected ==
  /\ pc = "collect" /\ stream = <<>>
  /\ wd' = IF wd # "none" \/ aborted THEN wd
           ELSE IF control.kind = "stop" THEN "stopped"
           ELSE IF control.kind = "none" /\ draining /\ FailFast THEN "run_failed"
           ELSE "none"
  /\ pc' = IF aborted THEN "aborted"
           ELSE IF wd' # "none" THEN "winddown"
           ELSE IF control.kind = "pause" THEN "raised" ELSE "returned"
  /\ UNCHANGED <<frozenVars, taskVars, stateVars, gateVars, round, cancelReason, aborted>>

------------------------------------------------------------------------------
(* run_graph: wind_down *)

WindDown ==
  /\ pc = "winddown" /\ ~paused /\ Ready # {}
  /\ round' = Ready
  /\ pc' = "wd_decide"
  /\ UNCHANGED <<frozenVars, taskVars, stateVars, gateVars, wd, cancelReason, aborted>>

\* Mutant: everything still pending is skipped, whatever its join.
WindDownBlanket(s) ==
  /\ pc = "wd_decide" /\ s \in round
  /\ Decide(s, Outcome("skipped", wd))
  /\ round' = round \ {s}
  /\ UNCHANGED <<pc, wd, cancelReason, aborted>>

WindDownSkip(s) ==
  /\ pc = "wd_decide" /\ s \in round
  /\ LET decision  == Decision(s, TRUE)
         explained == wd # "stopped" /\ decision # "run_failed" IN
       /\ decision # "run"
       /\ Decide(s, Outcome("skipped", IF explained THEN decision ELSE wd))
  /\ round' = round \ {s}
  /\ UNCHANGED <<pc, wd, cancelReason, aborted>>

\* The skips of a pass come first.
SkipsDone == \A s \in round : Decision(s, TRUE) = "run"

WindDownWhen(s) ==
  /\ pc = "wd_decide" /\ s \in round /\ SkipsDone
  /\ Decision(s, TRUE) = "run"
  /\ WhenRefuses(s)
  /\ round' = round \ {s}
  /\ UNCHANGED <<pc, wd, cancelReason, aborted>>

WindDownLaunch(s) ==
  /\ pc = "wd_decide" /\ s \in round /\ SkipsDone
  /\ Decision(s, TRUE) = "run"
  /\ StartTask(s)
  /\ round' = round \ {s}
  /\ UNCHANGED <<pc, wd, cancelReason, aborted>>

WindDownWait ==
  /\ pc = "wd_decide" /\ round = {}
  /\ pc' = "wd_run"
  /\ UNCHANGED <<frozenVars, taskVars, stateVars, gateVars, wd, round, cancelReason, aborted>>

WindDownEnd ==
  /\ pc = "winddown" /\ (paused \/ Ready = {})
  /\ pc' = IF control.kind = "none" THEN "returned" ELSE "raised"
  /\ UNCHANGED <<frozenVars, taskVars, stateVars, gateVars, wd, round, cancelReason, aborted>>

------------------------------------------------------------------------------
(* Cancellation from outside: a signal, the parent's timeout, or an exception of the    *)
(* decision path, which leaves through the same task group.                             *)

Abort ==
  /\ plan.interruptible /\ ~aborted
  /\ pc \in {"check", "decide", "receive", "teardown", "winddown", "wd_decide", "wd_run"}
  /\ aborted' = TRUE
  /\ pc' = IF wd = "none" THEN "teardown" ELSE "wd_run"
  /\ round' = {}
  /\ UNCHANGED <<frozenVars, taskVars, stateVars, gateVars, wd, cancelReason>>

\* wind_down has no finally: a cancelled one is left without collecting.
WindDownAborted ==
  /\ pc = "wd_run" /\ aborted /\ NoneActive
  /\ pc' = "aborted"
  /\ UNCHANGED <<frozenVars, taskVars, stateVars, gateVars, wd, round, cancelReason, aborted>>

\* rayspec cancel writes cancel.json beside run.json.
RequestCancel ==
  /\ plan.cancellable /\ ~flag /\ pc \notin Final
  /\ flag' = TRUE
  /\ UNCHANGED <<frozenVars, taskVars, stateVars, budget, cancel, mainVars>>

------------------------------------------------------------------------------
(* run_one *)

taskFrame == UNCHANGED <<frozenVars, stateVars, mainVars, flag>>

\* The executor is done: run_one holds the outcome and goes on to finish it.
End(s, r, sig) ==
  /\ phase' = [phase EXCEPT ![s] = "ending"]
  /\ out' = [out EXCEPT ![s] = r]
  /\ signal' = [signal EXCEPT ![s] = sig]
  /\ UNCHANGED <<rec, attempts, stream>>

\* try_reuse has no await: a replay is not cut by a cancellation.
Replay(s) ==
  /\ phase[s] = "launched" /\ CanReuse(s)
  /\ End(s, cache[s], "none")
  /\ UNCHANGED <<budget, cancel>> /\ taskFrame

\* The running record is saved before the executor is called.
Begin(s) ==
  /\ phase[s] = "launched" /\ ~CanReuse(s) /\ ~Torn
  /\ Save(s, Outcome("running", "none"))
  /\ phase' = [phase EXCEPT ![s] = IF plan.kind[s] = "leaf" THEN "queued" ELSE "attempt"]
  /\ UNCHANGED <<out, signal, attempts, stream, budget, cancel>> /\ taskFrame

\* Mutant: the breakers are not asked again once the permit is held.
LeafAttemptUnasked(s) ==
  /\ phase[s] = "queued" /\ ~Torn
  /\ phase' = [phase EXCEPT ![s] = "attempt"]
  /\ attempts' = [attempts EXCEPT ![s] = @ + 1]
  /\ UNCHANGED <<rec, out, signal, stream, budget, cancel>> /\ taskFrame

\* The operator's ceiling has been reached, and the step would open an agent turn.
Unpaid(s) == s \in plan.metered /\ budget

\* run_leaf holds a permit: unless the step is a cleanup step, it asks check_budget, which answers
\* at once when the cap has tripped, and then check_cancelled.  Both await, and others go on.
LeafAsks(s) ==
  /\ phase[s] = "queued" /\ ~Torn /\ plan.join[s] # "always" /\ ~budget
  /\ phase' = [phase EXCEPT ![s] = "asking"]
  /\ UNCHANGED <<rec, out, signal, attempts, stream, budget, cancel>> /\ taskFrame

\* ... check_budget found nothing and the thread saw no cancel.json.
LeafAsked(s) ==
  /\ phase[s] = "asking" /\ ~Torn /\ ~cancel /\ ~flag
  /\ phase' = [phase EXCEPT ![s] = "asked"]
  /\ UNCHANGED <<rec, out, signal, attempts, stream, budget, cancel>> /\ taskFrame

\* ... and what the leaf found itself keeps the failure of an earlier attempt, or skips the first.
LeafRefused(s) ==
  /\ ~Torn /\ plan.join[s] # "always"
  /\ \/ phase[s] = "queued" /\ budget /\ UNCHANGED <<budget, cancel>>
     \/ phase[s] = "asking" /\ plan.capped /\ budget' = TRUE /\ UNCHANGED cancel
     \/ phase[s] = "asking" /\ SeeCancel
  /\ End(s, IF out[s] # NoRec THEN out[s]
            ELSE Outcome("skipped", IF budget' THEN "budget_exceeded" ELSE "cancelled"), "none")
  /\ taskFrame

\* Nothing is asked again: a trip of another step since then is not seen.
Cleared(s) == phase[s] = "asked" \/ (phase[s] = "queued" /\ plan.join[s] = "always")

LeafAttempt(s) ==
  /\ Cleared(s) /\ ~Torn /\ ~Unpaid(s)
  /\ phase' = [phase EXCEPT ![s] = "attempt"]
  /\ attempts' = [attempts EXCEPT ![s] = @ + 1]
  /\ UNCHANGED <<rec, out, signal, stream, budget, cancel>> /\ taskFrame

\* ... but run_prompt opens no turn past the ceiling, not even for a cleanup step.
LeafUnpaid(s) ==
  /\ Cleared(s) /\ ~Torn /\ Unpaid(s)
  /\ End(s, Outcome("skipped", "budget_exceeded"), "none")
  /\ UNCHANGED <<budget, cancel>> /\ taskFrame

LeafSucceeds(s) ==
  /\ phase[s] = "attempt" /\ plan.kind[s] = "leaf"
  /\ End(s, Outcome("succeeded", "none"), "none")
  /\ UNCHANGED <<budget, cancel>> /\ taskFrame

\* A failed attempt: the breakers are asked, after the permit was given back.
LeafFails(s) ==
  /\ phase[s] = "attempt" /\ plan.kind[s] = "leaf" /\ ~Torn
  /\ phase' = [phase EXCEPT ![s] = IF budget THEN "ending" ELSE "failing"]
  /\ out' = [out EXCEPT ![s] = Failure("machine")]
  /\ UNCHANGED <<rec, signal, attempts, stream, budget, cancel>> /\ taskFrame

\* No retry left, a deterministic error, or a breaker the leaf found tripped.
LeafGivesUp(s) ==
  /\ phase[s] = "failing" /\ ~Torn
  /\ phase' = [phase EXCEPT ![s] = "ending"]
  /\ (AskBudget /\ UNCHANGED cancel) \/ SeeCancel
  /\ UNCHANGED <<rec, out, signal, attempts, stream>> /\ taskFrame

\* should_retry: a transient error, attempts left and nothing found by the breakers.
LeafBacksOff(s) ==
  /\ phase[s] = "failing" /\ ~Torn /\ ~cancel /\ ~flag
  /\ attempts[s] < MaxAttempts
  /\ phase' = [phase EXCEPT ![s] = "backoff"]
  /\ UNCHANGED <<rec, out, signal, attempts, stream, budget, cancel>> /\ taskFrame

LeafRetries(s) ==
  /\ phase[s] = "backoff" /\ ~Torn
  /\ phase' = [phase EXCEPT ![s] = "queued"]
  /\ UNCHANGED <<rec, out, signal, attempts, stream, budget, cancel>> /\ taskFrame

\* run_approve: approved, failed to render, rejected (fail or cancel), or nobody to ask.
GateEnds(s) ==
  /\ phase[s] = "attempt" /\ plan.kind[s] = "gate"
  /\ \/ End(s, Outcome("succeeded", "none"), "none")
     \/ End(s, Failure("machine"), "none")
     \/ End(s, Failure("rejected"), "none")
     \/ End(s, Outcome("rejected", "none"), "stop")
     \/ End(s, Outcome("paused", "none"), "pause")
  /\ UNCHANGED <<budget, cancel>> /\ taskFrame

StopEnds(s) ==
  /\ phase[s] = "attempt" /\ plan.kind[s] = "stop"
  /\ End(s, Outcome("succeeded", "none"), "stop") \/ End(s, Failure("machine"), "none")
  /\ UNCHANGED <<budget, cancel>> /\ taskFrame

\* The steps of a body ask the same breakers, and so does a loop before each iteration.
BodyAsks(s) ==
  /\ phase[s] = "attempt" /\ plan.kind[s] = "composite"
  /\ (AskBudget /\ UNCHANGED cancel) \/ SeeCancel
  /\ UNCHANGED taskVars /\ taskFrame

\* A body's result, or the signal it raised; a loop cut by a cancel is interrupted.
CompositeEnds(s) ==
  /\ phase[s] = "attempt" /\ plan.kind[s] = "composite"
  /\ \/ /\ \/ End(s, Outcome("succeeded", "none"), "none")
           \/ End(s, Failure("machine"), "none")
           \/ End(s, Outcome("interrupted", "stopped"), "stop")
           \/ End(s, Outcome("paused", "paused"), "pause")
        /\ UNCHANGED <<budget, cancel>>
     \/ SeeCancel /\ End(s, Outcome("interrupted", "cancelled"), "none")
  /\ taskFrame

\* A cancelled task unwinds; a gate whose prompt was cut has recorded its pause instead.
Cancelled(s) ==
  /\ Torn /\ phase[s] \in Active \ {"ending"}
  /\ ~(phase[s] = "launched" /\ CanReuse(s))
  /\ \/ End(s, Interrupted, "none")
     \/ /\ phase[s] = "attempt" /\ plan.kind[s] = "gate"
        /\ End(s, Outcome("paused", "none"), "pause")
  /\ UNCHANGED <<budget, cancel>> /\ taskFrame

\* Mutant: the outcome is sent and its record saved with the next one.
FinishUnsaved(s) ==
  LET final == Finalized(s, out[s]) IN
    /\ phase[s] = "ending"
    /\ phase' = [phase EXCEPT ![s] = "sent"]
    /\ out' = [out EXCEPT ![s] = final]
    /\ stream' = Append(stream, s)
    /\ AskBudget
    /\ UNCHANGED <<rec, signal, attempts, cancel>> /\ taskFrame

\* finish: persist the record, ask the breaker, then send the outcome to the main task.
Finish(s) ==
  LET final == Finalized(s, out[s]) IN
    /\ phase[s] = "ending"
    /\ phase' = [phase EXCEPT ![s] = "sent"]
    /\ Save(s, final)
    /\ out' = [out EXCEPT ![s] = final]
    /\ stream' = Append(stream, s)
    /\ AskBudget
    /\ UNCHANGED <<signal, attempts, cancel>> /\ taskFrame

\* The record could not be persisted and run.json keeps what it had, or only its event could not
\* be appended: the step failed, or keeps its outcome when the run is unwinding anyway
\* (_finish_quietly).
FinishFails(s) ==
  /\ phase[s] = "ending"
  /\ phase' = [phase EXCEPT ![s] = "sent"]
  /\ out' = [out EXCEPT ![s] = IF Torn THEN Finalized(s, @) ELSE Failure("persist")]
  /\ stream' = Append(stream, s)
  /\ \/ UNCHANGED <<rec, budget>>
     \/ Save(s, Finalized(s, out[s])) /\ AskBudget
  /\ UNCHANGED <<signal, attempts, cancel>> /\ taskFrame

------------------------------------------------------------------------------

Init ==
  /\ plan \in Plans /\ cache \in Caches
  /\ phase = [s \in Step |-> "pending"]
  /\ rec = cache
  /\ out = [s \in Step |-> NoRec]
  /\ signal = [s \in Step |-> "none"]
  /\ attempts = [s \in Step |-> 0]
  /\ stream = <<>>
  /\ draining = FALSE /\ paused = FALSE /\ control = NoControl
  /\ budget \in {FALSE, plan.capped} /\ cancel = FALSE /\ flag = FALSE
  /\ pc = "check" /\ wd = "none" /\ round = {} /\ cancelReason = "none" /\ aborted = FALSE

MainStep(s) == \/ DecideGated(s) \/ DecideJoin(s) \/ DecideWhen(s) \/ Launch(s)
               \/ WindDownSkip(s) \/ WindDownWhen(s) \/ WindDownLaunch(s)

Main == \/ CheckCancelled \/ Decided \/ Receive \/ GroupDone \/ Collect \/ Collected
        \/ WindDown \/ WindDownWait \/ WindDownEnd \/ WindDownAborted
        \/ \E s \in Step : MainStep(s)

Task(s) == \/ Replay(s) \/ Begin(s)
           \/ LeafAsks(s) \/ LeafAsked(s) \/ LeafRefused(s) \/ LeafAttempt(s) \/ LeafUnpaid(s)
           \/ LeafSucceeds(s) \/ LeafFails(s) \/ LeafGivesUp(s) \/ LeafBacksOff(s) \/ LeafRetries(s)
           \/ GateEnds(s) \/ StopEnds(s) \/ BodyAsks(s) \/ CompositeEnds(s)
           \/ Cancelled(s) \/ Finish(s) \/ FinishFails(s)

\* The sibling list is over: nothing changes any more.
Over == pc \in Final /\ UNCHANGED vars

Next == Main \/ Abort \/ RequestCancel \/ (\E s \in Step : Task(s)) \/ Over

\* The event loop runs every ready task, and executors end (they have timeouts).
Fairness == WF_vars(Main) /\ \A s \in Step : WF_vars(Task(s))

Spec     == Init /\ [][Next]_vars
FairSpec == Spec /\ Fairness

------------------------------------------------------------------------------
(* What a sibling list promises *)

\* A step with a task of its own: launched, and not yet settled.
Engaged(s) == phase[s] \in Active \union {"sent"}

\* A step has a task only when everything it needs is settled for good and its join accepts
\* those very records - whatever failed, drained or was torn down in the meantime.
LaunchedOnJoin == \A s \in Step : Engaged(s) => Decidable(s) /\ Decision(s, FALSE) = "run"

\* Write-ahead: no step but a cleanup step runs on an outcome run.json does not hold yet, so
\* a crash can never lose the record of a step that another one already built on.
WriteAhead ==
  \A s \in Step : Engaged(s) /\ plan.join[s] # "always"
                    => \A n \in plan.needs[s] : rec[n] = out[n]

\* A settled verdict is final: no late task, teardown or wind-down rewrites it, and its record
\* in run.json only ever changes to hold that verdict.
VerdictIsFinal ==
  [][\A s \in Step : phase[s] = "settled" =>
       phase'[s] = "settled" /\ out'[s] = out[s] /\ rec'[s] \in {rec[s], out[s]}]_vars

\* The list ends with every step decided, unless a pause keeps it open: the wind-down's
\* "nothing is ready" exit, which the code calls unreachable, never leaves a step behind.
EveryStepDecided ==
  pc \in {"returned", "raised"} /\ ~paused /\ control.kind # "pause" => Settled = Step

\* The strongest signal any step sent is the one that leaves the list - a pause beats a stop,
\* also when it arrives while the stop is tearing the list down - and none is invented.
SignalBubbles ==
  LET sent(kind) == \E s \in Step : signal[s] = kind IN
    pc \in {"returned", "raised"} =>
      /\ control.kind = IF sent("pause") THEN "pause" ELSE IF sent("stop") THEN "stop" ELSE "none"
      /\ pc = "raised" <=> control.kind # "none"

\* The finally idiom: a join: always step is never skipped, by a failure, a cap, a cancel, a
\* fail-fast teardown or a stop.  Only its own when: can refuse it, or the operator's spend
\* ceiling, and that one only a step that would open another agent turn.
CleanupIsNeverSkipped ==
  \A s \in Settled : plan.join[s] = "always" /\ out[s].status = "skipped"
                       => \/ s \in plan.when /\ out[s].why = "when_false"
                          \/ Unpaid(s) /\ out[s].why = "budget_exceeded"

\* The reason on a record is true: it names a failure, signal, cap, cancel or interruption
\* that really happened, to another step than the one that carries it.
ReasonsAreTrue ==
  \A s \in Settled :
    LET others     == Step \ {s}
        failed     == \E t \in others \cap Settled : Untolerated(out[t])
        told(kind) == \E t \in others : signal[t] = kind IN
      CASE out[s].why = "upstream_failed"  -> \E n \in plan.needs[s] : Untolerated(out[n])
        [] out[s].why = "upstream_skipped" -> \E n \in plan.needs[s] : out[n].status = "skipped"
        [] out[s].why = "run_failed"       -> failed
        [] out[s].why = "failed"           -> failed /\ FailFast
        [] out[s].why = "budget_exceeded"  -> budget
        [] out[s].why = "cancelled"        -> cancel
        [] out[s].why = "interrupted"      -> aborted
        [] out[s].why = "stopped"          -> told("stop") \/ signal[s] = "stop"
        [] out[s].why = "paused"           -> told("pause") \/ signal[s] = "pause"
        [] OTHER                           -> TRUE

\* A leaf whose own question to the breakers was under way, and has not met what tripped.
MayStillStart(s) == phase[s] = "asked" \/ (phase[s] = "asking" /\ ~cancel)

\* Once the cap tripped or a cancel was seen, nothing is launched except cleanup steps, and no
\* leaf starts an attempt, a first one or a retry, but those whose own question was under way at
\* that moment: these may, once each, and none joins them.
BreakerHolds ==
  [][budget \/ cancel =>
       \A s \in Step : plan.join[s] # "always" =>
         /\ phase[s] = "pending" => phase'[s] \in {"pending", "settled"}
         /\ MayStillStart(s)' \/ attempts'[s] # attempts[s] => MayStillStart(s)
         /\ attempts'[s] # attempts[s] => ~MayStillStart(s)']_vars

\* The list always ends: no drain, teardown or wind-down waits for something that never comes.
Terminates == <>(pc \in Final)
==============================================================================
