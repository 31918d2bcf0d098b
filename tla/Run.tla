--------------------------------- MODULE Run ---------------------------------
(***************************************************************************)
(* A whole run over its root sibling list: run_graph, then the verdict     *)
(* Runner._finalize writes to run.json; the process may die at any moment, *)
(* and the run may be resumed from run.json with the reuse cache.          *)
(***************************************************************************)
EXTENDS Scheduler

CONSTANT MaxResumes \* the bound on resumes of one run id

ASSUME ResumesAssumption == MaxResumes \in Nat

VARIABLES
  status, \* run.json: the run's status
  alive,  \* the process that runs it exists
  resumes \* run.json: resume_count

runVars == <<status, alive, resumes>>
allVars == <<vars, runVars>>

RunStatuses == {"running", "paused", "succeeded", "failed", "cancelled", "interrupted"}

RunTypeOK == TypeOK /\ status \in RunStatuses /\ alive \in BOOLEAN /\ resumes \in 0..MaxResumes

\* The run's records as the engine holds them: what run.json says once it is saved again.
Mem == [s \in Step |-> IF phase[s] \in {"sent", "settled"} THEN out[s] ELSE rec[s]]

StopCollateral(r)   == r.status = "interrupted" /\ r.why = "stopped"
CancelCollateral(r) == r.why = "cancelled" /\ r.status \in {"interrupted", "skipped"}

\* run_failures, less the step that raised the stop the run ends with.
Failures ==
  {s \in Step : /\ Untolerated(Mem[s]) /\ ~StopCollateral(Mem[s]) /\ ~CancelCollateral(Mem[s])
                /\ ~(pc = "raised" /\ control = [kind |-> "stop", by |-> s])}

\* The statuses a stop: may declare; a rejected gate always cancels.
StopStatuses ==
  IF plan.kind[control.by] = "gate" THEN {"cancelled"} ELSE {"succeeded", "failed", "cancelled"}

\* Mutant: a stop decides before anything else is looked at.
VerdictOfStop(bug, bad, nested, stopped) ==
  IF pc = "raised" /\ control.kind = "stop" THEN stopped
  ELSE IF Failures # {} \/ budget THEN "failed"
  ELSE IF cancel THEN "cancelled" ELSE "succeeded"

\* The status ladder of _finalize; bug: the decision path raised, bad: outputs did not render.
\* nested: a gate inside a composite recorded its pause while the composite was being cut.
Verdict(bug, bad, nested, stopped) ==
  LET pausedRun == nested \/ \E s \in Step : signal[s] = "pause"
      byStop    == pc = "raised" /\ control.kind = "stop"
      success   == IF bad THEN "failed" ELSE "succeeded" IN
    CASE bug                                           -> "failed"
      [] ~bug /\ pausedRun                             -> "paused"
      [] ~bug /\ ~pausedRun /\ aborted                 -> "interrupted"
      [] ~bug /\ ~pausedRun /\ ~aborted /\ budget      -> "failed"
      [] ~bug /\ ~pausedRun /\ ~aborted /\ ~budget /\ cancel ->
           IF Failures # {} THEN "failed" ELSE "cancelled"
      [] OTHER ->
           IF Failures # {} THEN "failed"
           ELSE IF byStop /\ stopped # "succeeded" THEN stopped ELSE success

Finalize ==
  /\ alive /\ status = "running" /\ pc \in Final
  /\ \E bug, bad, nested \in BOOLEAN, stopped \in {"succeeded", "failed", "cancelled"} :
       /\ bug => aborted
       /\ nested => \E s \in Step : plan.kind[s] = "composite" /\ out[s].status = "interrupted"
       /\ control.kind = "stop" => stopped \in StopStatuses
       /\ status' = Verdict(bug, bad, nested, stopped)
  /\ rec' = Mem
  /\ alive' = FALSE
  /\ flag' = (flag /\ status' = "paused")
  /\ UNCHANGED <<frozenVars, phase, out, signal, attempts, stream, stateVars, budget, cancel,
                 mainVars, resumes>>

\* Power loss, SIGKILL, a second Ctrl-C: only what run.json and cancel.json hold is left.
Crash ==
  /\ alive /\ plan.interruptible
  /\ alive' = FALSE
  /\ UNCHANGED <<vars, status, resumes>>

\* rayspec resume without --force: the graph starts over, with the old records as its cache.
Resume ==
  /\ ~alive /\ status \in {"running", "paused", "failed", "interrupted"}
  /\ resumes < MaxResumes
  /\ alive' = TRUE /\ status' = "running" /\ resumes' = resumes + 1
  /\ plan' = plan /\ cache' = rec /\ rec' = rec
  /\ phase' = [s \in Step |-> "pending"] /\ out' = [s \in Step |-> NoRec]
  /\ signal' = [s \in Step |-> "none"] /\ attempts' = [s \in Step |-> 0] /\ stream' = <<>>
  /\ draining' = FALSE /\ paused' = FALSE /\ control' = NoControl
  /\ budget' \in {FALSE, plan.capped} /\ cancel' = FALSE /\ flag' = FALSE
  /\ pc' = "check" /\ wd' = "none" /\ round' = {} /\ cancelReason' = "none" /\ aborted' = FALSE

Graph == /\ alive
         /\ Main \/ Abort \/ RequestCancel \/ \E s \in Step : Task(s)
         /\ UNCHANGED runVars

\* Nothing is left to do without --force.
RunOver == /\ ~alive
           /\ status \in {"succeeded", "cancelled"} \/ resumes = MaxResumes
           /\ UNCHANGED allVars

RunInit == Init /\ status = "running" /\ alive = TRUE /\ resumes = 0

RunNext == Graph \/ Finalize \/ Crash \/ Resume \/ RunOver

RunSpec == RunInit /\ [][RunNext]_allVars

------------------------------------------------------------------------------

\* A stop:, a cancel or another branch never hides a failure or a tripped cap: run.json of a
\* run that ended succeeded or cancelled holds no failed step that nobody tolerated, except
\* the very step whose own stop ended it.
FailureNotLaundered ==
  status \in {"succeeded", "cancelled"} =>
    /\ ~budget
    /\ \A s \in Step : rec[s].status = "failed" /\ ~rec[s].tolerated
                          => control = [kind |-> "stop", by |-> s]

\* A run that ends succeeded decided every step in run.json in this process: no record of an
\* earlier process stands in, nothing was left undecided, and no cancel was swallowed.
SuccessIsComplete ==
  status = "succeeded" => /\ ~cancel
                          /\ \A s \in Step : rec[s].status \in Terminal /\ rec[s] = out[s]

\* What run.json says of a run that ended is true of its steps.
VerdictIsTrue == FailureNotLaundered /\ SuccessIsComplete

Replayable(s) == /\ plan.kind[s] \in {"leaf", "gate"} /\ s \notin plan.alwaysRun
                 /\ rec[s].status = "succeeded"

\* A step that succeeded is not executed again by any resume of the next process, and its record
\* survives caps, cancels, interruptions and crashes: only a skip the failure drain or a stop
\* decided, its own when:, which is asked before the cache, or a record that could not be saved
\* ever replaces it.
SuccessLostOnlyToFailure ==
  [][\A s \in Step : Replayable(s) /\ rec'[s] # rec[s] =>
       \/ rec'[s].status = "skipped" /\ rec'[s].why \in SkipReasons \union {"stopped"}
       \/ s \in plan.when /\ rec'[s] \in {Outcome("skipped", "when_false"),
                                        Finalized(s, Failure("machine"))}
       \/ rec'[s].error = "persist"]_allVars
==============================================================================
