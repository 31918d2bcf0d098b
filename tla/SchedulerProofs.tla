--------------------------- MODULE SchedulerProofs ---------------------------
(***************************************************************************)
(* Proofs about a sibling list of any size, for every plan, cache and      *)
(* failure policy: it is type correct, launches on its joins, gives final  *)
(* and durable verdicts with true reasons, decides every step, carries the *)
(* strongest signal out, and implements SiblingContract.  And about a run  *)
(* of such a list, crashed and resumed any number of times: its verdict is *)
(* true of its steps, and what succeeded is lost to nothing but a failure. *)
(***************************************************************************)
EXTENDS SchedulerContract, Run, SequenceTheorems, TLAPS

USE PlansAssumption, AttemptsAssumption, CachesAssumption

------------------------------------------------------------------------------
(* Type correctness of the helpers *)

\* The join table answers with a reason to skip, or with "run".
LEMMA DecisionType ==
  ASSUME NEW s \in Step, NEW drain
  PROVE  Decision(s, drain) \in SkipReasons \union {"run"}
  BY DEF Decision, JoinDecision, SkipReasons

LEMMA OutcomeType ==
  ASSUME NEW st \in Statuses, NEW why \in Reasons
  PROVE  Outcome(st, why) \in Rec
  BY DEF Outcome, Rec, Errors

LEMMA FailureType ==
  ASSUME NEW error \in Errors
  PROVE  Failure(error) \in Rec
  BY DEF Failure, Rec, Errors, Reasons, Statuses, Terminal

LEMMA FinalizedType ==
  ASSUME NEW s \in Step, NEW r \in Rec
  PROVE  Finalized(s, r) \in Rec
  BY DEF Finalized, Rec

\* TypeOK, part by part.
TaskTypeOK  == /\ phase \in [Step -> Phases] /\ rec \in [Step -> Rec] /\ out \in [Step -> Rec]
               /\ signal \in [Step -> Signals] /\ stream \in Seq(Step)
StateTypeOK == draining \in BOOLEAN /\ paused \in BOOLEAN /\ control \in Control
GateTypeOK  == budget \in BOOLEAN /\ cancel \in BOOLEAN /\ flag \in BOOLEAN

LEMMA SaveType ==
  ASSUME NEW s \in Step, NEW r \in Rec, TaskTypeOK, Save(s, r)
  PROVE  rec' \in [Step -> Rec]
  BY DEF TaskTypeOK, Save

LEMMA SettleType ==
  ASSUME NEW s \in Step, NEW r, NEW sig \in Signals, StateTypeOK, Settle(s, r, sig)
  PROVE  StateTypeOK'
  <1>1. draining' \in BOOLEAN /\ paused' \in BOOLEAN
    BY DEF Settle
  <1>2. control' \in Control
    BY DEF Settle, StateTypeOK, Control, Signals
  <1> QED BY <1>1, <1>2 DEF StateTypeOK

LEMMA AskBudgetType ==
  ASSUME plan \in Plan, GateTypeOK, AskBudget
  PROVE  budget' \in BOOLEAN
  BY Zenon DEF GateTypeOK, AskBudget, Plan

LEMMA DecideType ==
  ASSUME NEW s \in Step, NEW r \in Rec, plan \in Plan,
         TaskTypeOK, StateTypeOK, GateTypeOK, Decide(s, r)
  PROVE  TaskTypeOK' /\ StateTypeOK' /\ GateTypeOK' /\ UNCHANGED <<frozenVars, attempts>>
  <1> DEFINE final == Finalized(s, r)
  <1>1. final \in Rec
    BY FinalizedType
  <1>2. Settle(s, final, "none") /\ Save(s, final) /\ AskBudget
    BY DEF Decide
  <1>3. StateTypeOK'
    BY <1>1, <1>2, SettleType DEF Signals
  <1>4. rec' \in [Step -> Rec]
    BY <1>1, <1>2, SaveType
  <1>5. TaskTypeOK'
    BY <1>1, <1>4 DEF Decide, TaskTypeOK, Phases
  <1>6. GateTypeOK'
    BY <1>2, AskBudgetType DEF Decide, GateTypeOK
  <1> QED BY <1>3, <1>5, <1>6 DEF Decide, frozenVars

------------------------------------------------------------------------------
(* Type correctness.  The bound on attempts is not inductive alone: a step gets another       *)
(* attempt only from a phase in which it has one left.                                         *)

AttemptsInv ==
  \A s \in Step : /\ phase[s] \in {"pending", "launched"} => attempts[s] = 0
                  /\ phase[s] \in {"queued", "asking", "asked", "backoff"} => attempts[s] < MaxAttempts

TypeInv == TypeOK /\ AttemptsInv

\* The wind-down decides only steps that nobody else decides in the meantime.
RoundInv == round \subseteq Ready /\ (pc # "wd_decide" => round = {})

MainTypeOK == /\ pc \in Pcs /\ wd \in {"none", "stopped", "run_failed"} /\ round \in SUBSET Step
              /\ cancelReason \in {"none", "stopped", "paused", "failed"} /\ aborted \in BOOLEAN

FrozenTypeOK == plan \in Plan /\ cache \in [Step -> Rec]

LEMMA TypeParts ==
  TypeOK <=> /\ FrozenTypeOK /\ TaskTypeOK /\ StateTypeOK /\ GateTypeOK /\ MainTypeOK
             /\ attempts \in [Step -> 0..MaxAttempts]
  BY DEF TypeOK, FrozenTypeOK, TaskTypeOK, StateTypeOK, GateTypeOK, MainTypeOK

LEMMA TypePartsNext ==
  TypeOK' <=> /\ FrozenTypeOK' /\ TaskTypeOK' /\ StateTypeOK' /\ GateTypeOK' /\ MainTypeOK'
              /\ attempts' \in [Step -> 0..MaxAttempts]
  BY DEF TypeOK, FrozenTypeOK, TaskTypeOK, StateTypeOK, GateTypeOK, MainTypeOK

\* Steps of the main task that decide one step.
LEMMA DecideKeepsTypes ==
  ASSUME TypeInv, NEW s \in Step, NEW r \in Rec, Decide(s, r), MainTypeOK'
  PROVE  TypeInv'
  <1>1. TaskTypeOK /\ StateTypeOK /\ GateTypeOK /\ FrozenTypeOK
    BY TypeParts DEF TypeInv
  <1>2. TaskTypeOK' /\ StateTypeOK' /\ GateTypeOK' /\ UNCHANGED <<frozenVars, attempts>>
    BY <1>1, DecideType DEF FrozenTypeOK
  <1>3. FrozenTypeOK'
    BY <1>1, <1>2 DEF FrozenTypeOK, frozenVars
  <1>4. TypeOK'
    BY <1>2, <1>3, TypeParts, TypePartsNext DEF TypeInv
  <1>5. AttemptsInv'
    BY <1>1, <1>2 DEF AttemptsInv, TypeInv, Decide, TaskTypeOK
  <1> QED BY <1>4, <1>5 DEF TypeInv

LEMMA StartKeepsTypes ==
  ASSUME TypeInv, NEW s \in Pending, StartTask(s), MainTypeOK'
  PROVE  TypeInv'
  <1>1. FrozenTypeOK' /\ StateTypeOK' /\ GateTypeOK' /\ attempts' \in [Step -> 0..MaxAttempts]
    BY TypeParts DEF TypeInv, StartTask, frozenVars, stateVars, gateVars, FrozenTypeOK,
                     StateTypeOK, GateTypeOK
  <1>2. TaskTypeOK'
    BY TypeParts DEF TypeInv, StartTask, TaskTypeOK, Phases, Active, Pending
  <1>3. AttemptsInv'
    BY TypeParts DEF TypeInv, StartTask, TaskTypeOK, AttemptsInv, Pending
  <1> QED BY <1>1, <1>2, <1>3, TypePartsNext DEF TypeInv

LEMMA SettleHeadKeepsTypes ==
  ASSUME TypeInv, SettleHead, MainTypeOK'
  PROVE  TypeInv'
  <1> DEFINE s == Head(stream)
  <1>1. s \in Step /\ stream' \in Seq(Step)
    BY TypeParts DEF TypeInv, SettleHead, TaskTypeOK
  <1>2. out[s] \in Rec /\ signal[s] \in Signals
    BY <1>1, TypeParts DEF TypeInv, TaskTypeOK
  <1>3. StateTypeOK'
    BY <1>1, <1>2, SettleType, TypeParts DEF TypeInv, SettleHead
  <1>4. TaskTypeOK'
    BY <1>1, TypeParts DEF TypeInv, SettleHead, TaskTypeOK, Phases
  <1>5. FrozenTypeOK' /\ GateTypeOK' /\ attempts' \in [Step -> 0..MaxAttempts]
    BY TypeParts DEF TypeInv, SettleHead, FrozenTypeOK, GateTypeOK, frozenVars, gateVars
  <1>6. AttemptsInv'
    BY <1>1, TypeParts DEF TypeInv, SettleHead, AttemptsInv, TaskTypeOK
  <1> QED BY <1>3, <1>4, <1>5, <1>6, TypePartsNext DEF TypeInv

\* Steps of a run_one task: whatever a task changes, it changes of its own step only.
LEMMA TaskKeepsTypes ==
  ASSUME TypeInv, taskFrame, TaskTypeOK', budget' \in BOOLEAN, cancel' \in BOOLEAN,
         attempts' \in [Step -> 0..MaxAttempts], AttemptsInv'
  PROVE  TypeInv'
  <1>1. FrozenTypeOK' /\ StateTypeOK' /\ GateTypeOK' /\ MainTypeOK'
    BY TypeParts DEF TypeInv, taskFrame, FrozenTypeOK, StateTypeOK, GateTypeOK, MainTypeOK,
                     frozenVars, stateVars, mainVars
  <1> QED BY <1>1, TypePartsNext DEF TypeInv

LEMMA EndKeepsTypes ==
  ASSUME TypeInv, taskFrame, NEW s \in Step, NEW r \in Rec, NEW sig \in Signals, End(s, r, sig),
         budget' \in BOOLEAN, cancel' \in BOOLEAN
  PROVE  TypeInv'
  <1>1. TaskTypeOK'
    BY TypeParts DEF TypeInv, TaskTypeOK, End, Phases, Active
  <1>2. AttemptsInv'
    BY TypeParts DEF TypeInv, TaskTypeOK, AttemptsInv, End
  <1>3. attempts' \in [Step -> 0..MaxAttempts]
    BY TypeParts DEF TypeInv, End
  <1> QED BY <1>1, <1>2, <1>3, TaskKeepsTypes

LEMMA AsksType ==
  ASSUME TypeInv, (AskBudget /\ UNCHANGED cancel) \/ SeeCancel
  PROVE  budget' \in BOOLEAN /\ cancel' \in BOOLEAN
  <1>1. plan \in Plan /\ GateTypeOK
    BY TypeParts DEF TypeInv, FrozenTypeOK
  <1>2. CASE AskBudget /\ UNCHANGED cancel
    <2>1. budget' \in BOOLEAN
      BY <1>1, <1>2, AskBudgetType
    <2> QED BY <1>1, <1>2, <2>1 DEF GateTypeOK
  <1>3. CASE SeeCancel
    BY <1>1, <1>3 DEF SeeCancel, GateTypeOK
  <1> QED BY <1>2, <1>3

\* An active step goes on, and shows nothing of it; the breakers may have been asked.
GoesOn(s) ==
  /\ phase[s] \in Active /\ taskFrame
  /\ \E p \in Active : phase' = [phase EXCEPT ![s] = p]
  /\ UNCHANGED <<rec, out, signal, attempts, stream>>

Waits(s) == \/ LeafAsks(s) \/ LeafAsked(s) \/ LeafGivesUp(s) \/ LeafBacksOff(s) \/ LeafRetries(s)
            \/ BodyAsks(s)

LEMMA WaitsGoOn ==
  ASSUME TaskTypeOK, NEW s \in Step, Waits(s)
  PROVE  GoesOn(s)
  <1>1. phase[s] \in Active /\ taskFrame
    BY DEF Waits, LeafAsks, LeafAsked, LeafGivesUp, LeafBacksOff, LeafRetries, BodyAsks, Active
  <1>2. UNCHANGED <<rec, out, signal, attempts, stream>>
    BY DEF Waits, LeafAsks, LeafAsked, LeafGivesUp, LeafBacksOff, LeafRetries, BodyAsks, taskVars
  <1>3. \E p \in {"asking", "asked", "ending", "backoff", "queued", "attempt"} :
          phase' = [phase EXCEPT ![s] = p]
    <2>1. CASE BodyAsks(s)
      <3>1. phase' = phase /\ phase[s] = "attempt"
        BY <2>1 DEF BodyAsks, taskVars
      <3>2. phase' = [phase EXCEPT ![s] = "attempt"]
        BY <3>1 DEF TaskTypeOK
      <3> QED BY <3>2
    <2> QED BY <2>1 DEF Waits, LeafAsks, LeafAsked, LeafGivesUp, LeafBacksOff, LeafRetries
  <1> QED BY <1>1, <1>2, <1>3 DEF GoesOn, Active

LEMMA WaitsType ==
  ASSUME TypeInv, NEW s \in Step, Waits(s)
  PROVE  TypeInv'
  <1>a. TaskTypeOK /\ GateTypeOK /\ attempts \in [Step -> 0..MaxAttempts]
    BY TypeParts DEF TypeInv
  <1>1. GoesOn(s)
    BY <1>a, WaitsGoOn
  <1>2. TaskTypeOK' /\ attempts' \in [Step -> 0..MaxAttempts]
    BY <1>1, <1>a DEF GoesOn, TaskTypeOK, Phases
  <1>3. budget' \in BOOLEAN /\ cancel' \in BOOLEAN
    <2>1. CASE UNCHANGED <<budget, cancel>>
      BY <2>1, <1>a DEF GateTypeOK
    <2>2. CASE LeafGivesUp(s) \/ BodyAsks(s)
      BY <2>2, AsksType DEF LeafGivesUp, BodyAsks
    <2> QED BY <2>1, <2>2 DEF Waits, LeafAsks, LeafAsked, LeafBacksOff, LeafRetries
  <1>4. AttemptsInv'
    <2>1. CASE BodyAsks(s)
      BY <2>1 DEF BodyAsks, taskVars, AttemptsInv, TypeInv
    <2>2. CASE ~BodyAsks(s)
      BY <2>2, <1>a DEF AttemptsInv, TypeInv, TaskTypeOK, Waits, LeafAsks, LeafAsked, LeafGivesUp,
                        LeafBacksOff, LeafRetries
    <2> QED BY <2>1, <2>2
  <1> QED BY <1>1, <1>2, <1>3, <1>4, TaskKeepsTypes DEF GoesOn

LEMMA TaskType ==
  ASSUME TypeInv, NEW s \in Step, Task(s)
  PROVE  TypeInv'
  <1> USE DEF Signals
  <1>a. budget \in BOOLEAN /\ cancel \in BOOLEAN /\ cache[s] \in Rec /\ out[s] \in Rec
    BY TypeParts DEF TypeInv, GateTypeOK, FrozenTypeOK, TaskTypeOK
  <1>b. TaskTypeOK /\ plan \in Plan /\ GateTypeOK /\ attempts \in [Step -> 0..MaxAttempts]
    BY TypeParts DEF TypeInv, FrozenTypeOK
  <1>f. Failure("machine") \in Rec /\ Failure("rejected") \in Rec /\ Failure("persist") \in Rec
    BY FailureType DEF Errors
  <1>o. /\ Outcome("succeeded", "none") \in Rec /\ Outcome("rejected", "none") \in Rec
        /\ Outcome("paused", "none") \in Rec /\ Outcome("paused", "paused") \in Rec
        /\ Outcome("interrupted", "stopped") \in Rec /\ Outcome("running", "none") \in Rec
        /\ Outcome("interrupted", "cancelled") \in Rec /\ Interrupted \in Rec
        /\ \A w \in {"budget_exceeded", "cancelled"} : Outcome("skipped", w) \in Rec
    BY OutcomeType, TypeParts
       DEF TypeInv, MainTypeOK, Interrupted, Reasons, Statuses, Terminal
  <1>1. CASE Replay(s)
    BY <1>1, <1>a, EndKeepsTypes DEF Replay
  <1>2. CASE Begin(s)
    <2>1. rec' \in [Step -> Rec]
      BY <1>2, <1>o, <1>b, SaveType DEF Begin
    <2>2. TaskTypeOK' /\ attempts' \in [Step -> 0..MaxAttempts]
      BY <1>2, <2>1, <1>b DEF Begin, TaskTypeOK, Phases, Active
    <2>3. AttemptsInv'
      BY <1>2, <1>b DEF Begin, TaskTypeOK, AttemptsInv, TypeInv
    <2> QED BY <1>2, <1>a, <2>2, <2>3, TaskKeepsTypes DEF Begin
  <1>3. CASE LeafAttempt(s)
    <2>2. TaskTypeOK'
      BY <1>3, <1>b DEF LeafAttempt, TaskTypeOK, Phases, Active
    <2>3. attempts' \in [Step -> 0..MaxAttempts]
      BY <1>3, <1>b DEF LeafAttempt, Cleared, AttemptsInv, TypeInv
    <2>4. AttemptsInv'
      BY <1>3, <1>b DEF LeafAttempt, AttemptsInv, TypeInv, TaskTypeOK
    <2> QED BY <1>3, <1>a, <2>2, <2>3, <2>4, TaskKeepsTypes DEF LeafAttempt
  <1>4. CASE LeafRefused(s)
    <2>1. budget' \in BOOLEAN /\ cancel' \in BOOLEAN
      BY <1>4, <1>a DEF LeafRefused, SeeCancel
    <2>2. \E r \in Rec : End(s, r, "none")
      BY <1>4, <1>a, <1>o DEF LeafRefused
    <2> QED BY <1>4, <2>1, <2>2, EndKeepsTypes DEF LeafRefused
  <1>5. CASE LeafSucceeds(s) \/ LeafUnpaid(s)
    BY <1>5, <1>a, <1>o, EndKeepsTypes DEF LeafSucceeds, LeafUnpaid
  <1>6. CASE LeafFails(s)
    <2>1. TaskTypeOK' /\ attempts' \in [Step -> 0..MaxAttempts]
      BY <1>6, <1>b, <1>f DEF LeafFails, TaskTypeOK, Phases, Active
    <2>2. AttemptsInv'
      BY <1>6, <1>b DEF LeafFails, AttemptsInv, TypeInv, TaskTypeOK
    <2> QED BY <1>6, <1>a, <2>1, <2>2, TaskKeepsTypes DEF LeafFails
  <1>7. CASE Waits(s)
    BY <1>7, WaitsType
  <1>9. CASE GateEnds(s)
    BY <1>9, <1>a, <1>o, <1>f, EndKeepsTypes DEF GateEnds
  <1>10. CASE StopEnds(s)
    BY <1>10, <1>a, <1>o, <1>f, EndKeepsTypes DEF StopEnds
  <1>11. CASE CompositeEnds(s)
    BY <1>11, <1>a, <1>o, <1>f, EndKeepsTypes DEF CompositeEnds, SeeCancel
  <1>12. CASE Cancelled(s)
    BY <1>12, <1>a, <1>o, EndKeepsTypes DEF Cancelled
  <1>13. CASE Finish(s)
    <2> DEFINE final == Finalized(s, out[s])
    <2>1. final \in Rec
      BY <1>a, FinalizedType
    <2>2. rec' \in [Step -> Rec]
      BY <1>13, <2>1, <1>b, SaveType DEF Finish
    <2>3. TaskTypeOK' /\ attempts' \in [Step -> 0..MaxAttempts]
      BY <1>13, <1>b, <2>1, <2>2 DEF Finish, TaskTypeOK, Phases
    <2>4. budget' \in BOOLEAN
      BY <1>13, <1>b, AskBudgetType DEF Finish
    <2>5. AttemptsInv'
      BY <1>13, <1>b DEF Finish, AttemptsInv, TypeInv, TaskTypeOK
    <2> QED BY <1>13, <1>a, <2>3, <2>4, <2>5, TaskKeepsTypes DEF Finish
  <1>14. CASE FinishFails(s)
    <2>1. (IF Torn THEN Finalized(s, out[s]) ELSE Failure("persist")) \in Rec
      BY <1>a, <1>f, FinalizedType
    <2>2. rec' \in [Step -> Rec]
      <3>1. CASE UNCHANGED <<rec, budget>>
        BY <3>1, <1>b DEF TaskTypeOK
      <3>2. CASE Save(s, Finalized(s, out[s]))
        BY <3>2, <1>a, <1>b, FinalizedType, SaveType
      <3> QED BY <1>14, <3>1, <3>2 DEF FinishFails
    <2>3. budget' \in BOOLEAN
      BY <1>14, <1>a, <1>b, AskBudgetType DEF FinishFails
    <2>4. TaskTypeOK' /\ attempts' \in [Step -> 0..MaxAttempts]
      BY <1>14, <1>b, <2>1, <2>2 DEF FinishFails, TaskTypeOK, Phases
    <2>5. AttemptsInv'
      BY <1>14, <1>b DEF FinishFails, AttemptsInv, TypeInv, TaskTypeOK
    <2> QED BY <1>14, <1>a, <2>3, <2>4, <2>5, TaskKeepsTypes DEF FinishFails
  <1> QED
    BY <1>1, <1>2, <1>3, <1>4, <1>5, <1>6, <1>7, <1>9, <1>10, <1>11, <1>12, <1>13, <1>14
       DEF Task, Waits

\* Steps that change where the main task is, and nothing of the tasks.
LEMMA MainKeepsTypes ==
  ASSUME TypeInv, UNCHANGED <<frozenVars, taskVars, stateVars>>, GateTypeOK', MainTypeOK'
  PROVE  TypeInv'
  <1>1. /\ FrozenTypeOK' /\ TaskTypeOK' /\ StateTypeOK'
        /\ attempts' \in [Step -> 0..MaxAttempts] /\ AttemptsInv'
    BY TypeParts DEF TypeInv, FrozenTypeOK, TaskTypeOK, StateTypeOK, AttemptsInv, frozenVars,
                     taskVars, stateVars
  <1> QED BY <1>1, TypePartsNext DEF TypeInv

LEMMA MainStepType ==
  ASSUME TypeInv, RoundInv, NEW s \in Step, MainStep(s)
  PROVE  TypeInv'
  <1> USE DEF mainVars
  <1>a. MainTypeOK /\ cache[s] \in Rec
    BY TypeParts DEF TypeInv, FrozenTypeOK
  <1>o. /\ \A w \in SkipReasons \union {"budget_exceeded", "cancelled", "when_false", wd} :
             Outcome("skipped", w) \in Rec
        /\ Failure("machine") \in Rec
    <2>1. SkipReasons \union {"budget_exceeded", "cancelled", "when_false", wd} \subseteq Reasons
      BY <1>a DEF Reasons, MainTypeOK, SkipReasons
    <2>2. "skipped" \in Statuses
      BY DEF Statuses, Terminal
    <2> QED BY <2>1, <2>2, OutcomeType, FailureType DEF Errors
  <1>r. s \in Ready => s \in Pending
    BY DEF Ready
  <1>w. ASSUME WhenRefuses(s), MainTypeOK' PROVE TypeInv'
    BY <1>w, <1>o, DecideKeepsTypes DEF WhenRefuses
  <1>m. UNCHANGED mainVars => MainTypeOK'
    BY <1>a DEF MainTypeOK
  <1>n. ASSUME round' = round \ {s}, UNCHANGED <<pc, wd, cancelReason, aborted>>
        PROVE  MainTypeOK'
    BY <1>a, <1>n DEF MainTypeOK
  <1>1. CASE DecideGated(s)
    BY <1>1, <1>a, <1>o, <1>m, DecideKeepsTypes DEF DecideGated
  <1>2. CASE DecideJoin(s)
    <2> DEFINE decision == Decision(s, draining \/ control.kind # "none")
    <2>1. decision # "run" /\ Decide(s, Outcome("skipped", decision)) /\ UNCHANGED mainVars
      BY <1>2 DEF DecideJoin
    <2>2. decision \in SkipReasons
      BY <2>1, DecisionType
    <2> QED BY <2>1, <2>2, <1>o, <1>m, DecideKeepsTypes
  <1>3. CASE DecideWhen(s)
    BY <1>3, <1>m, <1>w DEF DecideWhen
  <1>4. CASE Launch(s)
    BY <1>4, <1>m, <1>r, StartKeepsTypes DEF Launch
  <1>5. CASE WindDownSkip(s)
    <2> DEFINE decision  == Decision(s, TRUE)
               explained == wd # "stopped" /\ decision # "run_failed"
    <2>1. /\ decision # "run" /\ Decide(s, Outcome("skipped", IF explained THEN decision ELSE wd))
          /\ round' = round \ {s} /\ UNCHANGED <<pc, wd, cancelReason, aborted>>
      BY <1>5 DEF WindDownSkip
    <2>2. decision \in SkipReasons
      BY <2>1, DecisionType
    <2>3. Outcome("skipped", IF explained THEN decision ELSE wd) \in Rec
      BY <2>2, <1>o
    <2> QED BY <2>1, <2>3, <1>n, DecideKeepsTypes
  <1>6. CASE WindDownWhen(s)
    BY <1>6, <1>n, <1>w DEF WindDownWhen
  <1>7. CASE WindDownLaunch(s)
    BY <1>7, <1>n, <1>r, StartKeepsTypes DEF WindDownLaunch, RoundInv
  <1> QED BY <1>1, <1>2, <1>3, <1>4, <1>5, <1>6, <1>7 DEF MainStep

LEMMA MainType ==
  ASSUME TypeInv, RoundInv, Main \/ Abort \/ RequestCancel
  PROVE  TypeInv'
  <1> USE DEF mainVars, gateVars, Pcs, Final
  <1>a. MainTypeOK /\ GateTypeOK
    BY TypeParts DEF TypeInv
  <1>1. CASE CheckCancelled
    <2>1. GateTypeOK' /\ MainTypeOK'
      BY <1>1, <1>a DEF CheckCancelled, GateTypeOK, MainTypeOK
    <2> QED BY <1>1, <2>1, MainKeepsTypes DEF CheckCancelled
  <1>2. CASE Decided
    <2>1. GateTypeOK' /\ MainTypeOK'
      BY <1>2, <1>a DEF Decided, GateTypeOK, MainTypeOK
    <2> QED BY <1>2, <2>1, MainKeepsTypes DEF Decided
  <1>3. CASE Receive
    <2>1. pc' \in Pcs /\ cancelReason' \in {"none", "stopped", "paused", "failed"}
      BY <1>3, <1>a DEF Receive, MainTypeOK
    <2>2. MainTypeOK'
      BY <1>3, <1>a, <2>1 DEF Receive, MainTypeOK
    <2> QED BY <1>3, <2>2, SettleHeadKeepsTypes DEF Receive
  <1>4. CASE GroupDone
    <2>1. GateTypeOK' /\ MainTypeOK'
      BY <1>4, <1>a DEF GroupDone, GateTypeOK, MainTypeOK
    <2> QED BY <1>4, <2>1, MainKeepsTypes DEF GroupDone
  <1>5. CASE Collect
    BY <1>5, <1>a, SettleHeadKeepsTypes DEF Collect, MainTypeOK
  <1>6. CASE Collected
    <2>1. wd' \in {"none", "stopped", "run_failed"} /\ pc' \in Pcs
      BY <1>6, <1>a DEF Collected, MainTypeOK
    <2>2. GateTypeOK' /\ MainTypeOK'
      BY <1>6, <1>a, <2>1 DEF Collected, GateTypeOK, MainTypeOK
    <2> QED BY <1>6, <2>2, MainKeepsTypes DEF Collected
  <1>7. CASE WindDown
    <2>1. GateTypeOK' /\ MainTypeOK'
      BY <1>7, <1>a DEF WindDown, GateTypeOK, MainTypeOK, Ready, Pending
    <2> QED BY <1>7, <2>1, MainKeepsTypes DEF WindDown
  <1>8. CASE WindDownWait \/ WindDownEnd \/ WindDownAborted
    <2>1. GateTypeOK' /\ MainTypeOK'
      BY <1>8, <1>a DEF WindDownWait, WindDownEnd, WindDownAborted, GateTypeOK, MainTypeOK
    <2> QED BY <1>8, <2>1, MainKeepsTypes DEF WindDownWait, WindDownEnd, WindDownAborted
  <1>9. CASE Abort
    <2>1. GateTypeOK' /\ MainTypeOK'
      BY <1>9, <1>a DEF Abort, GateTypeOK, MainTypeOK
    <2> QED BY <1>9, <2>1, MainKeepsTypes DEF Abort
  <1>10. CASE RequestCancel
    <2>1. GateTypeOK' /\ MainTypeOK'
      BY <1>10, <1>a DEF RequestCancel, GateTypeOK, MainTypeOK
    <2> QED BY <1>10, <2>1, MainKeepsTypes DEF RequestCancel, taskVars
  <1>11. CASE \E s \in Step : MainStep(s)
    BY <1>11, MainStepType
  <1> QED
    BY <1>1, <1>2, <1>3, <1>4, <1>5, <1>6, <1>7, <1>8, <1>9, <1>10, <1>11 DEF Main

\* A list that is about to run: a first time, or again with the records of an earlier process.
Fresh ==
  /\ plan \in Plan /\ cache \in [Step -> Rec] /\ rec = cache
  /\ phase = [s \in Step |-> "pending"] /\ out = [s \in Step |-> NoRec]
  /\ signal = [s \in Step |-> "none"] /\ attempts = [s \in Step |-> 0] /\ stream = <<>>
  /\ draining = FALSE /\ paused = FALSE /\ control = NoControl
  /\ budget \in {FALSE, plan.capped} /\ cancel = FALSE /\ flag = FALSE
  /\ pc = "check" /\ wd = "none" /\ round = {} /\ cancelReason = "none" /\ aborted = FALSE

LEMMA InitFresh == Init => Fresh
  BY DEF Init, Fresh

LEMMA FreshType == Fresh => TypeInv
  <1> SUFFICES ASSUME Fresh PROVE TypeInv
    OBVIOUS
  <1>1. FrozenTypeOK
    BY DEF Fresh, FrozenTypeOK
  <1>2. NoRec \in Rec
    BY DEF NoRec, Rec, Statuses, Reasons, Errors
  <1>3. TaskTypeOK /\ attempts \in [Step -> 0..MaxAttempts]
    BY <1>1, <1>2 DEF Fresh, FrozenTypeOK, TaskTypeOK, Phases, Signals
  <1>6. StateTypeOK /\ MainTypeOK
    BY DEF Fresh, StateTypeOK, MainTypeOK, Control, Pcs
  <1>4. GateTypeOK
    BY <1>1, Zenon DEF Fresh, GateTypeOK, FrozenTypeOK, Plan
  <1>5. AttemptsInv
    BY DEF Fresh, AttemptsInv
  <1> QED BY <1>1, <1>3, <1>4, <1>5, <1>6, TypeParts DEF TypeInv

LEMMA NextType ==
  ASSUME TypeInv, RoundInv, [Next]_vars
  PROVE  TypeInv'
  <1>1. CASE UNCHANGED vars
    <2>1. GateTypeOK' /\ MainTypeOK'
      BY <1>1, TypeParts DEF TypeInv, GateTypeOK, MainTypeOK, vars, gateVars, mainVars
    <2> QED BY <1>1, <2>1, MainKeepsTypes DEF vars
  <1>2. CASE Main \/ Abort \/ RequestCancel
    BY <1>2, MainType
  <1>3. CASE \E s \in Step : Task(s)
    BY <1>3, TaskType
  <1> QED BY <1>1, <1>2, <1>3 DEF Next, Over

------------------------------------------------------------------------------
(* The join table.  What a step of the system does to the phases, the outcomes and the        *)
(* stream has one of four shapes; the invariants follow from the shapes.                       *)

\* An outcome in the stream belongs to a step that has sent it, and to no other place in it.
StreamInv ==
  /\ \A i \in 1..Len(stream) : phase[stream[i]] = "sent"
  /\ \A i, j \in 1..Len(stream) : stream[i] = stream[j] => i = j

JoinInv == TypeInv /\ StreamInv /\ RoundInv /\ LaunchedOnJoin

\* A verdict once given is kept.
Kept == /\ plan' = plan
        /\ \A n \in Settled : phase'[n] = "settled" /\ out'[n] = out[n]

MainMoves    == /\ UNCHANGED <<plan, phase, out, stream>>
                /\ round' \subseteq Ready /\ (pc' # "wd_decide" => round' = {})
TaskMoves(s) == /\ phase[s] \in Active /\ plan' = plan /\ UNCHANGED <<round, pc>>
                /\ \E p \in Active \union {"sent"} :
                     /\ phase' = [phase EXCEPT ![s] = p]
                     /\ stream' = IF p = "sent" THEN Append(stream, s) ELSE stream
                /\ \A t \in Step \ {s} : out'[t] = out[t]
StepMoves(s) == /\ s \in Ready /\ UNCHANGED <<plan, stream>>
                /\ \/ phase' = [phase EXCEPT ![s] = "settled"]
                   \/ phase' = [phase EXCEPT ![s] = "launched"] /\ Decision(s, FALSE) = "run"
                /\ \A t \in Step \ {s} : out'[t] = out[t]
                /\ round' = round \ {s} /\ pc' = pc
HeadMoves    == /\ stream # <<>> /\ UNCHANGED <<plan, out, round>>
                /\ stream' = Tail(stream) /\ phase' = [phase EXCEPT ![Head(stream)] = "settled"]
                /\ pc # "wd_decide" /\ pc' # "wd_decide"

LEMMA NeverDrainedStillRuns ==
  ASSUME NEW s \in Step, NEW drain, Decision(s, drain) = "run"
  PROVE  Decision(s, FALSE) = "run"
  BY DEF Decision, JoinDecision

LEMMA EndMoves ==
  ASSUME TaskTypeOK, taskFrame, NEW s \in Step, phase[s] \in Active, NEW r, NEW sig, End(s, r, sig)
  PROVE  TaskMoves(s)
  <1> DEFINE p == "ending"
  <1>1. phase' = [phase EXCEPT ![s] = p] /\ stream' = IF p = "sent" THEN Append(stream, s) ELSE stream
    BY DEF End
  <1>3. p \in Active \union {"sent"}
    BY DEF Active
  <1>2. \A t \in Step \ {s} : out'[t] = out[t]
    BY DEF End, TaskTypeOK
  <1>4. phase[s] \in Active /\ plan' = plan /\ UNCHANGED <<round, pc>>
    BY DEF taskFrame, frozenVars, mainVars
  <1> HIDE DEF p
  <1> QED BY <1>1, <1>2, <1>3, <1>4 DEF TaskMoves

LEMMA TaskShape ==
  ASSUME TaskTypeOK, NEW s \in Step, Task(s)
  PROVE  TaskMoves(s)
  <1> USE DEF Active, frozenVars, mainVars
  <1>1. CASE Replay(s) \/ LeafRefused(s) \/ LeafUnpaid(s) \/ LeafSucceeds(s)
    <2>1. phase[s] \in Active /\ taskFrame
      BY <1>1 DEF Replay, LeafRefused, LeafUnpaid, LeafSucceeds, Cleared
    <2>2. \E r, sig : End(s, r, sig)
      BY <1>1 DEF Replay, LeafRefused, LeafUnpaid, LeafSucceeds
    <2> QED BY <2>1, <2>2, EndMoves
  <1>2. CASE GateEnds(s) \/ StopEnds(s) \/ CompositeEnds(s) \/ Cancelled(s)
    BY <1>2, EndMoves DEF GateEnds, StopEnds, CompositeEnds, Cancelled
  <1>3. CASE Begin(s) \/ LeafAttempt(s) \/ LeafFails(s)
    <2>1. \E p \in {"queued", "attempt", "failing", "ending"} : phase' = [phase EXCEPT ![s] = p]
      BY <1>3 DEF Begin, LeafAttempt, LeafFails
    <2>2. \A t \in Step \ {s} : out'[t] = out[t]
      BY <1>3 DEF Begin, LeafAttempt, LeafFails, TaskTypeOK
    <2>3. phase[s] \in Active /\ stream' = stream /\ taskFrame
      BY <1>3 DEF Begin, LeafAttempt, LeafFails, Cleared
    <2> QED BY <2>1, <2>2, <2>3 DEF TaskMoves, taskFrame
  <1>4. CASE Finish(s) \/ FinishFails(s)
    <2>1. phase' = [phase EXCEPT ![s] = "sent"] /\ stream' = Append(stream, s)
      BY <1>4 DEF Finish, FinishFails
    <2>2. \A t \in Step \ {s} : out'[t] = out[t]
      BY <1>4 DEF Finish, FinishFails, TaskTypeOK
    <2>3. phase[s] \in Active /\ taskFrame
      BY <1>4 DEF Finish, FinishFails
    <2> QED BY <2>1, <2>2, <2>3 DEF TaskMoves, taskFrame
  <1>5. CASE Waits(s)
    <2>1. GoesOn(s)
      BY <1>5, WaitsGoOn
    <2>2. \E p \in Active : phase' = [phase EXCEPT ![s] = p]
      BY <2>1 DEF GoesOn
    <2> QED BY <2>1, <2>2 DEF GoesOn, TaskMoves, taskFrame
  <1> QED BY <1>1, <1>2, <1>3, <1>4, <1>5 DEF Task, Waits

LEMMA StepShape ==
  ASSUME TaskTypeOK, RoundInv, NEW s \in Step, MainStep(s)
  PROVE  StepMoves(s)
  <1> USE DEF StepMoves, frozenVars, mainVars
  <1>r. (pc = "decide" => round \ {s} = round) /\ (s \in round => s \in Ready)
    BY DEF RoundInv
  <1>w. ASSUME WhenRefuses(s)
        PROVE  /\ UNCHANGED <<plan, stream>> /\ phase' = [phase EXCEPT ![s] = "settled"]
               /\ \A t \in Step \ {s} : out'[t] = out[t]
    BY <1>w DEF WhenRefuses, Decide, TaskTypeOK
  <1>1. CASE DecideGated(s)
    BY <1>1, <1>r DEF DecideGated, Decide, TaskTypeOK
  <1>2. CASE DecideJoin(s)
    BY <1>2, <1>r DEF DecideJoin, Decide, TaskTypeOK
  <1>3. CASE DecideWhen(s)
    BY <1>3, <1>r, <1>w DEF DecideWhen
  <1>4. CASE Launch(s)
    BY <1>4, <1>r, NeverDrainedStillRuns DEF Launch, StartTask
  <1>5. CASE WindDownSkip(s)
    BY <1>5, <1>r DEF WindDownSkip, Decide, TaskTypeOK
  <1>6. CASE WindDownWhen(s)
    BY <1>6, <1>r, <1>w DEF WindDownWhen
  <1>7. CASE WindDownLaunch(s)
    BY <1>7, <1>r, NeverDrainedStillRuns DEF WindDownLaunch, StartTask
  <1> QED BY <1>1, <1>2, <1>3, <1>4, <1>5, <1>6, <1>7 DEF MainStep

LEMMA MainShape ==
  ASSUME TaskTypeOK, RoundInv, [Next]_vars
  PROVE  MainMoves \/ HeadMoves \/ \E s \in Step : StepMoves(s) \/ TaskMoves(s)
  <1> USE DEF RoundInv, frozenVars, taskVars, mainVars
  <1>1. CASE CheckCancelled \/ Decided \/ GroupDone \/ Collected
    BY <1>1 DEF MainMoves, CheckCancelled, Decided, GroupDone, Collected
  <1>2. CASE Receive \/ Collect
    BY <1>2 DEF HeadMoves, Receive, Collect, SettleHead
  <1>3. CASE WindDown \/ WindDownWait \/ WindDownEnd \/ WindDownAborted
    BY <1>3 DEF MainMoves, WindDown, WindDownWait, WindDownEnd, WindDownAborted
  <1>4. CASE Abort \/ RequestCancel
    BY <1>4 DEF MainMoves, Abort, RequestCancel
  <1>5. CASE UNCHANGED vars
    BY <1>5 DEF MainMoves, vars
  <1>6. CASE \E s \in Step : MainStep(s)
    BY <1>6, StepShape
  <1>7. CASE \E s \in Step : Task(s)
    BY <1>7, TaskShape
  <1> QED BY <1>1, <1>2, <1>3, <1>4, <1>5, <1>6, <1>7 DEF Next, Main, Over

LEMMA KeptByNext ==
  ASSUME TypeInv, StreamInv, RoundInv, [Next]_vars
  PROVE  Kept
  <1>t. TaskTypeOK
    BY TypeParts DEF TypeInv
  <1>1. CASE MainMoves
    BY <1>1 DEF MainMoves, Kept, Settled
  <1>2. CASE HeadMoves
    BY <1>2, <1>t DEF HeadMoves, Kept, Settled, TaskTypeOK
  <1>3. ASSUME NEW s \in Step, StepMoves(s) PROVE Kept
    BY <1>3, <1>t DEF StepMoves, Kept, Settled, Ready, Pending, TaskTypeOK
  <1>4. ASSUME NEW s \in Step, TaskMoves(s) PROVE Kept
    BY <1>4, <1>t DEF TaskMoves, Kept, Settled, Active, TaskTypeOK
  <1> QED BY <1>t, <1>1, <1>2, <1>3, <1>4, MainShape

LEMMA DecidableKept ==
  ASSUME TypeInv, Kept, NEW s \in Step, Decidable(s)
  PROVE  Decidable(s)' /\ Decision(s, FALSE)' = Decision(s, FALSE)
  <1>1. plan.needs[s] \subseteq Step /\ plan' = plan
    BY TypeParts DEF TypeInv, FrozenTypeOK, Plan, Kept
  <1>2. \A n \in plan.needs[s] : n \in Settled /\ n \in Settled' /\ out'[n] = out[n]
    BY <1>1 DEF Decidable, Kept, Settled
  <1>3. Decidable(s)'
    BY <1>1, <1>2 DEF Decidable
  <1>4. ClassesOf(s)' = ClassesOf(s)
    BY <1>1, <1>2 DEF ClassesOf
  <1> QED BY <1>1, <1>3, <1>4 DEF Decision

LEMMA StreamKept ==
  ASSUME TypeInv, StreamInv, RoundInv, [Next]_vars
  PROVE  StreamInv'
  <1>t. TaskTypeOK /\ stream \in Seq(Step) /\ phase \in [Step -> Phases]
    BY TypeParts DEF TypeInv, TaskTypeOK
  <1>s. \A i \in 1..Len(stream) : stream[i] \in Step
    BY <1>t
  <1>1. CASE MainMoves
    BY <1>1 DEF MainMoves, StreamInv
  <1>2. CASE HeadMoves
    <2>1. /\ Len(stream') = Len(stream) - 1
          /\ \A i \in 1..Len(stream') : stream'[i] = stream[i + 1] /\ i + 1 \in 1..Len(stream)
      BY <1>2, <1>t DEF HeadMoves
    <2>2. ASSUME NEW i \in 1..Len(stream')
          PROVE  stream'[i] # stream[1] /\ phase[stream'[i]] = "sent"
      <3>1. stream'[i] = stream[i + 1] /\ i + 1 \in 1..Len(stream)
        BY <2>1
      <3>2. 1 \in 1..Len(stream) /\ i + 1 # 1
        BY <3>1, <1>t
      <3> QED BY <3>1, <3>2 DEF StreamInv
    <2>3. \A i \in 1..Len(stream') : phase'[stream'[i]] = "sent"
      BY <1>2, <2>1, <2>2, <1>t, <1>s DEF HeadMoves
    <2>4. \A i, j \in 1..Len(stream') : stream'[i] = stream'[j] => i = j
      BY <2>1, <1>t DEF StreamInv
    <2> QED BY <2>3, <2>4 DEF StreamInv
  <1>3. ASSUME NEW s \in Step, StepMoves(s) PROVE StreamInv'
    <2>1. phase[s] = "pending" /\ stream' = stream
      BY <1>3 DEF StepMoves, Ready, Pending
    <2>2. \A i \in 1..Len(stream) : phase'[stream[i]] = "sent"
      BY <1>3, <2>1, <1>t, <1>s DEF StepMoves, StreamInv
    <2> QED BY <2>1, <2>2 DEF StreamInv
  <1>4. ASSUME NEW s \in Step, TaskMoves(s) PROVE StreamInv'
    <2>1. PICK p \in Active \union {"sent"} :
            /\ phase' = [phase EXCEPT ![s] = p]
            /\ stream' = IF p = "sent" THEN Append(stream, s) ELSE stream
      BY <1>4 DEF TaskMoves
    <2>2. phase[s] # "sent"
      BY <1>4 DEF TaskMoves, Active
    <2>3. \A i \in 1..Len(stream) : stream[i] # s /\ phase'[stream[i]] = "sent"
      BY <2>1, <2>2, <1>t, <1>s DEF StreamInv
    <2>4. CASE p # "sent"
      BY <2>1, <2>3, <2>4 DEF StreamInv
    <2>5. CASE p = "sent"
      <3>1. /\ Len(stream') = Len(stream) + 1 /\ stream'[Len(stream) + 1] = s
            /\ \A i \in 1..Len(stream) : stream'[i] = stream[i]
        BY <2>1, <2>5, <1>t
      <3>2. phase'[s] = "sent"
        BY <2>1, <2>5, <1>t
      <3>3. Len(stream) \in Nat
        BY <1>t
      <3>4. \A i \in 1..Len(stream') : phase'[stream'[i]] = "sent"
        BY <3>1, <3>2, <3>3, <2>3
      <3>5. \A i, j \in 1..Len(stream') : stream'[i] = stream'[j] => i = j
        BY <3>1, <3>3, <2>3 DEF StreamInv
      <3> QED BY <3>4, <3>5 DEF StreamInv
    <2> QED BY <2>4, <2>5
  <1> QED BY <1>t, <1>1, <1>2, <1>3, <1>4, MainShape

LEMMA RoundKept ==
  ASSUME TypeInv, StreamInv, RoundInv, [Next]_vars
  PROVE  RoundInv'
  <1>t. TaskTypeOK /\ phase \in [Step -> Phases] /\ stream \in Seq(Step)
    BY TypeParts DEF TypeInv, TaskTypeOK
  <1>k. Kept
    BY KeptByNext
  <1>d. \A t \in Step : Decidable(t) => Decidable(t)'
    BY <1>k, DecidableKept
  <1>1. CASE MainMoves
    <2>1. \A t \in Ready : t \in Ready'
      BY <1>1, <1>d DEF MainMoves, Ready, Pending
    <2> QED BY <1>1, <2>1 DEF MainMoves, RoundInv
  <1>2. CASE HeadMoves
    BY <1>2 DEF HeadMoves, RoundInv
  <1>3. ASSUME NEW s \in Step, StepMoves(s) PROVE RoundInv'
    <2>1. \A t \in Ready \ {s} : t \in Ready'
      BY <1>3, <1>d, <1>t DEF StepMoves, Ready, Pending
    <2> QED BY <1>3, <2>1 DEF StepMoves, RoundInv
  <1>4. ASSUME NEW s \in Step, TaskMoves(s) PROVE RoundInv'
    <2>1. \A t \in Ready : t \in Ready'
      BY <1>4, <1>d, <1>t DEF TaskMoves, Ready, Pending, Active
    <2> QED BY <1>4, <2>1 DEF TaskMoves, RoundInv
  <1> QED BY <1>t, <1>1, <1>2, <1>3, <1>4, MainShape

LEMMA LaunchKept ==
  ASSUME JoinInv, [Next]_vars
  PROVE  LaunchedOnJoin'
  <1>t. TaskTypeOK /\ phase \in [Step -> Phases] /\ stream \in Seq(Step)
    BY TypeParts DEF TypeInv, TaskTypeOK, JoinInv
  <1>k. Kept
    BY KeptByNext DEF JoinInv
  <1>d. \A t \in Step : Decidable(t) => Decidable(t)' /\ Decision(t, FALSE)' = Decision(t, FALSE)
    BY <1>k, DecidableKept DEF JoinInv
  <1>e. \A t \in Step : Engaged(t) => Decidable(t) /\ Decision(t, FALSE) = "run"
    BY DEF JoinInv, LaunchedOnJoin
  <1> SUFFICES ASSUME NEW t \in Step, Engaged(t)'
               PROVE  Decidable(t) /\ Decision(t, FALSE) = "run"
    BY <1>d DEF LaunchedOnJoin
  <1>1. CASE MainMoves
    BY <1>1, <1>e DEF MainMoves, Engaged
  <1>2. CASE HeadMoves
    BY <1>2, <1>e, <1>t DEF HeadMoves, Engaged, Active
  <1>3. ASSUME NEW s \in Step, StepMoves(s) PROVE Decidable(t) /\ Decision(t, FALSE) = "run"
    BY <1>3, <1>e, <1>t DEF StepMoves, Engaged, Active, Ready
  <1>4. ASSUME NEW s \in Step, TaskMoves(s) PROVE Decidable(t) /\ Decision(t, FALSE) = "run"
    BY <1>4, <1>e, <1>t DEF TaskMoves, Engaged
  <1> QED BY <1>t, <1>1, <1>2, <1>3, <1>4, MainShape DEF JoinInv

LEMMA FreshJoin == Fresh => JoinInv
  <1> SUFFICES ASSUME Fresh PROVE JoinInv
    OBVIOUS
  <1>1. StreamInv /\ RoundInv
    BY DEF Fresh, StreamInv, RoundInv
  <1>2. LaunchedOnJoin
    BY DEF Fresh, LaunchedOnJoin, Engaged, Active
  <1> QED BY <1>1, <1>2, FreshType DEF JoinInv

LEMMA JoinKept ==
  ASSUME JoinInv, [Next]_vars
  PROVE  JoinInv'
  BY NextType, StreamKept, RoundKept, LaunchKept DEF JoinInv

\* Every behaviour of a sibling list keeps the invariant the results below rest on.
THEOREM JoinInvariant == Spec => []JoinInv
  BY InitFresh, FreshJoin, JoinKept, PTL DEF Spec

\* Type correctness, and with it the bound on the attempts of one run, for every sibling list.
THEOREM TypeCorrect == Spec => []TypeOK
  <1>1. JoinInv => TypeOK
    BY DEF JoinInv, TypeInv
  <1> QED BY <1>1, JoinInvariant, PTL

\* No step of any sibling list ever gets a task before its needs are settled for good, or
\* against what its join says about them.
THEOREM LaunchIsJustified == Spec => []LaunchedOnJoin
  <1>1. JoinInv => LaunchedOnJoin
    BY DEF JoinInv
  <1> QED BY <1>1, JoinInvariant, PTL

------------------------------------------------------------------------------
(* Verdicts and records *)

LEMMA FinalizedStatus ==
  ASSUME NEW s \in Step, NEW r \in Rec
  PROVE  /\ Finalized(s, r) \in Rec
         /\ Finalized(s, r).status = r.status /\ Finalized(s, r).why = r.why
         /\ r.tolerated => Finalized(s, r).tolerated
  BY DEF Finalized, Rec

\* What the parts of JoinInv say about the types of the tasks' variables.
LEMMA Typed ==
  ASSUME TypeInv
  PROVE  /\ phase \in [Step -> Phases] /\ out \in [Step -> Rec] /\ rec \in [Step -> Rec]
         /\ cache \in [Step -> Rec] /\ stream \in Seq(Step) /\ plan \in Plan
  BY DEF TypeInv, TypeOK

------------------------------------------------------------------------------
(* What no step of the system takes back *)

\* The steps of the main task that decide nothing: they change no record, and no outcome.
Quiet == \/ CheckCancelled \/ Decided \/ Receive \/ GroupDone \/ Collect \/ Collected \/ WindDown
         \/ WindDownWait \/ WindDownEnd \/ WindDownAborted \/ Abort \/ RequestCancel
         \/ UNCHANGED vars

LEMMA NextCases ==
  [Next]_vars => Quiet \/ \E s \in Step : MainStep(s) \/ Task(s)
  BY DEF Next, Main, Over, Quiet

\* A task leaves the variables of the main task alone, and saves for its own step if at all.
LEMMA TaskFrames ==
  ASSUME NEW s \in Step, Task(s)
  PROVE  taskFrame /\ (rec' = rec \/ \E r : Save(s, r))
  <1>1. CASE Replay(s) \/ Begin(s) \/ LeafRefused(s) \/ LeafAttempt(s) \/ LeafUnpaid(s)
    BY <1>1 DEF Replay, Begin, LeafRefused, LeafAttempt, LeafUnpaid, End
  <1>2. CASE LeafSucceeds(s) \/ LeafFails(s) \/ GateEnds(s) \/ StopEnds(s)
    BY <1>2 DEF LeafSucceeds, LeafFails, GateEnds, StopEnds, End
  <1>3. CASE Waits(s)
    BY <1>3 DEF Waits, LeafAsks, LeafAsked, LeafGivesUp, LeafBacksOff, LeafRetries, BodyAsks, taskVars
  <1>4. CASE CompositeEnds(s) \/ Cancelled(s)
    BY <1>4 DEF CompositeEnds, Cancelled, End
  <1>5. CASE Finish(s) \/ FinishFails(s)
    BY <1>5 DEF Finish, FinishFails
  <1> QED BY <1>1, <1>2, <1>3, <1>4, <1>5 DEF Task, Waits

LEMMA FrozenKept == [Next]_vars => UNCHANGED frozenVars
  <1> USE DEF frozenVars
  <1>1. CASE Quiet
    BY <1>1 DEF Quiet, CheckCancelled, Decided, Receive, GroupDone, Collect, Collected, SettleHead,
       WindDown, WindDownWait, WindDownEnd, WindDownAborted, Abort, RequestCancel, vars
  <1>2. ASSUME NEW s \in Step, MainStep(s) PROVE UNCHANGED frozenVars
    BY <1>2 DEF MainStep, DecideGated, DecideJoin, DecideWhen, Launch, WindDownSkip, WindDownWhen,
       WindDownLaunch, WhenRefuses, Decide, StartTask
  <1>3. ASSUME NEW s \in Step, Task(s) PROVE UNCHANGED frozenVars
    BY <1>3, TaskFrames DEF taskFrame
  <1> QED BY <1>1, <1>2, <1>3, NextCases

LEMMA AskingKeeps ==
  ASSUME GateTypeOK
  PROVE  /\ AskBudget => (budget => budget')
         /\ SeeCancel => (budget => budget') /\ cancel'
  <1>1. AskBudget => (budget => budget')
    BY Zenon DEF AskBudget
  <1>2. SeeCancel => (budget => budget') /\ cancel'
    BY DEF SeeCancel
  <1> QED BY <1>1, <1>2

\* A tripped breaker stays tripped, and an interruption is not forgotten.
LEMMA Remembered ==
  ASSUME TypeInv, [Next]_vars
  PROVE  (budget => budget') /\ (cancel => cancel') /\ (aborted => aborted')
  <1> USE DEF mainVars, gateVars
  <1>t. GateTypeOK /\ cancel \in BOOLEAN /\ flag \in BOOLEAN
    BY TypeParts DEF TypeInv, GateTypeOK
  <1>1. CASE Quiet
    <2>1. budget' = budget /\ (cancel' = cancel \/ cancel' = (cancel \/ flag))
      BY <1>1 DEF Quiet, CheckCancelled, Decided, Receive, GroupDone, Collect, Collected, SettleHead,
         WindDown, WindDownWait, WindDownEnd, WindDownAborted, Abort, RequestCancel, vars
    <2>2. aborted' = aborted \/ aborted'
      BY <1>1 DEF Quiet, CheckCancelled, Decided, Receive, GroupDone, Collect, Collected, SettleHead,
         WindDown, WindDownWait, WindDownEnd, WindDownAborted, Abort, RequestCancel, vars
    <2> QED BY <2>1, <2>2, <1>t
  <1>2. ASSUME NEW s \in Step, MainStep(s)
        PROVE  (budget => budget') /\ (cancel => cancel') /\ aborted' = aborted
    <2>1. (\E r : Decide(s, r)) \/ UNCHANGED <<budget, cancel>>
      BY <1>2 DEF MainStep, DecideGated, DecideJoin, DecideWhen, Launch, WindDownSkip, WindDownWhen,
         WindDownLaunch, WhenRefuses, StartTask
    <2>2. (\E r : Decide(s, r)) => AskBudget /\ cancel' = cancel
      BY DEF Decide
    <2>3. aborted' = aborted
      BY <1>2 DEF MainStep, DecideGated, DecideJoin, DecideWhen, Launch, WindDownSkip, WindDownWhen,
         WindDownLaunch
    <2> QED BY <2>1, <2>2, <2>3, <1>t, AskingKeeps
  <1>3. ASSUME NEW s \in Step, Task(s)
        PROVE  (budget => budget') /\ (cancel => cancel') /\ aborted' = aborted
    <2>1. aborted' = aborted
      BY <1>3, TaskFrames DEF taskFrame
    <2> DEFINE Asked == \/ UNCHANGED <<budget, cancel>> \/ SeeCancel \/ (AskBudget /\ cancel' = cancel)
                        \/ (budget' = TRUE /\ cancel' = cancel)
    <2>2. Asked
      <3>1. CASE Replay(s) \/ Begin(s) \/ LeafUnpaid(s) \/ LeafSucceeds(s)
        BY <3>1 DEF Replay, Begin, LeafUnpaid, LeafSucceeds
      <3>2. CASE LeafAttempt(s) \/ LeafRefused(s) \/ LeafFails(s)
        BY <3>2 DEF LeafAttempt, LeafRefused, LeafFails
      <3>3. CASE GateEnds(s) \/ StopEnds(s) \/ Cancelled(s)
        BY <3>3 DEF GateEnds, StopEnds, Cancelled
      <3>4. CASE CompositeEnds(s)
        BY <3>4 DEF CompositeEnds
      <3>5. CASE Finish(s) \/ FinishFails(s)
        BY <3>5 DEF Finish, FinishFails
      <3>6. CASE Waits(s)
        BY <3>6 DEF Waits, LeafAsks, LeafAsked, LeafGivesUp, LeafBacksOff, LeafRetries, BodyAsks
      <3> QED BY <1>3, <3>1, <3>2, <3>3, <3>4, <3>5, <3>6 DEF Task, Waits
    <2> QED BY <2>1, <2>2, <1>t, AskingKeeps
  <1> QED BY <1>1, <1>2, <1>3, NextCases

------------------------------------------------------------------------------
(* Cleanup steps *)

\* Only the when: of a cleanup step skips it, and only the main task decides that - or the
\* operator's ceiling, when the step would open an agent turn past it.
Excused(s) == \/ phase[s] = "settled" /\ s \in plan.when /\ out[s].why = "when_false"
              \/ Unpaid(s) /\ out[s].why = "budget_exceeded"

CleanupInv ==
  \A s \in Step : plan.join[s] = "always" /\ out[s].status = "skipped" => Excused(s)

LEMMA TaskNeverSkipsCleanup ==
  ASSUME TypeInv, CleanupInv, NEW s \in Step, Task(s), plan.join[s] = "always",
         out'[s].status = "skipped"
  PROVE  Unpaid(s) /\ out'[s].why = "budget_exceeded"
  <1>t. out \in [Step -> Rec] /\ out[s] \in Rec /\ cache[s] \in Rec /\ phase[s] \in Active
    BY Typed, TaskShape, TypeParts DEF TaskMoves, TypeInv
  <1>u. out[s].status = "skipped" => Unpaid(s) /\ out[s].why = "budget_exceeded"
    BY <1>t DEF CleanupInv, Excused, Active
  <1> USE <1>t, <1>u DEF End, Outcome, Failure, Interrupted, NoRec
  <1>1. CASE Replay(s)
    BY <1>1 DEF Replay, CanReuse
  <1>2. CASE Begin(s) \/ LeafAttempt(s) \/ Waits(s)
    <2>1. out'[s] = out[s]
      BY <1>2, WaitsGoOn, TypeParts DEF Begin, LeafAttempt, GoesOn, TypeInv
    <2> QED BY <2>1
  <1>3. CASE LeafRefused(s)
    BY <1>3 DEF LeafRefused
  <1>4. CASE LeafUnpaid(s)
    BY <1>4 DEF LeafUnpaid
  <1>5. CASE LeafSucceeds(s) \/ LeafFails(s)
    BY <1>5 DEF LeafSucceeds, LeafFails
  <1>6. CASE GateEnds(s) \/ StopEnds(s)
    BY <1>6 DEF GateEnds, StopEnds
  <1>7. CASE CompositeEnds(s)
    BY <1>7 DEF CompositeEnds
  <1>8. CASE Cancelled(s)
    BY <1>8 DEF Cancelled
  <1>9. CASE Finish(s)
    BY <1>9, FinalizedStatus DEF Finish
  <1>10. CASE FinishFails(s)
    BY <1>10, FinalizedStatus DEF FinishFails
  <1> QED BY <1>1, <1>2, <1>3, <1>4, <1>5, <1>6, <1>7, <1>8, <1>9, <1>10 DEF Task, Waits

LEMMA MainNeverSkipsCleanup ==
  ASSUME TypeInv, CleanupInv, RoundInv, NEW s \in Step, MainStep(s), plan.join[s] = "always",
         out'[s].status = "skipped"
  PROVE  \/ phase'[s] = "settled" /\ s \in plan.when /\ out'[s].why = "when_false"
         \/ out'[s] = out[s] /\ Unpaid(s) /\ out[s].why = "budget_exceeded"
  <1> DEFINE Refused == phase'[s] = "settled" /\ s \in plan.when /\ out'[s].why = "when_false"
  <1>p. (s \in Ready => phase[s] = "pending") /\ (s \in round => s \in Ready)
    BY DEF Ready, Pending, RoundInv
  <1>t. out \in [Step -> Rec] /\ phase \in [Step -> Phases]
    BY Typed
  <1>o. /\ Outcome("skipped", "when_false") \in Rec /\ Failure("machine") \in Rec
        /\ Outcome("skipped", "when_false").why = "when_false"
        /\ Failure("machine").status = "failed"
    BY OutcomeType, FailureType DEF Outcome, Failure, Statuses, Terminal, Reasons, Errors
  <1>d. \A drain : Decision(s, drain) = "run"
    BY DEF Decision, JoinDecision
  <1>w. ASSUME WhenRefuses(s) PROVE Refused
    <2>1. CASE Decide(s, Outcome("skipped", "when_false"))
      BY <1>w, <2>1, <1>o, <1>t, FinalizedStatus DEF Decide, WhenRefuses
    <2>2. CASE Decide(s, Failure("machine"))
      BY <2>2, <1>o, <1>t, FinalizedStatus DEF Decide
    <2> QED BY <1>w, <2>1, <2>2 DEF WhenRefuses
  <1>1. CASE DecideGated(s)
    BY <1>1 DEF DecideGated, Gated
  <1>2. CASE DecideJoin(s)
    BY <1>2, <1>d DEF DecideJoin
  <1>3. CASE DecideWhen(s) \/ WindDownWhen(s)
    BY <1>3, <1>w DEF DecideWhen, WindDownWhen
  <1>4. CASE Launch(s) \/ WindDownLaunch(s)
    <2>1. phase[s] = "pending" /\ out'[s] = out[s]
      BY <1>4, <1>p DEF Launch, WindDownLaunch, StartTask
    <2> QED BY <2>1 DEF CleanupInv, Excused
  <1>5. CASE WindDownSkip(s)
    BY <1>5, <1>d DEF WindDownSkip
  <1> QED BY <1>1, <1>2, <1>3, <1>4, <1>5 DEF MainStep

LEMMA CleanupKept ==
  ASSUME JoinInv, CleanupInv, [Next]_vars
  PROVE  CleanupInv'
  <1>t. TypeInv /\ StreamInv /\ RoundInv /\ TaskTypeOK
    BY TypeParts DEF JoinInv, TypeInv
  <1>k. Kept
    BY <1>t, KeptByNext
  <1>p. plan' = plan /\ \A s \in Step : Unpaid(s) => Unpaid(s)'
    BY <1>k, <1>t, Remembered DEF Kept, Unpaid
  <1> SUFFICES ASSUME NEW s \in Step, plan.join[s] = "always", out'[s].status = "skipped"
               PROVE  Excused(s)'
    BY <1>p DEF CleanupInv
  <1>u. ASSUME out'[s] = out[s] PROVE Excused(s)'
    <2>1. Excused(s)
      BY <1>u DEF CleanupInv
    <2> QED BY <2>1, <1>u, <1>k, <1>p DEF Excused, Kept, Settled
  <1>1. CASE Quiet
    <2>1. out' = out
      BY <1>1 DEF Quiet, CheckCancelled, Decided, Receive, GroupDone, Collect, Collected, SettleHead,
         WindDown, WindDownWait, WindDownEnd, WindDownAborted, Abort, RequestCancel, taskVars, vars
    <2> QED BY <2>1, <1>u
  <1>2. ASSUME NEW r \in Step, MainStep(r) PROVE Excused(s)'
    <2>1. CASE r = s
      <3>1. \/ phase'[s] = "settled" /\ s \in plan.when /\ out'[s].why = "when_false"
            \/ out'[s] = out[s] /\ Unpaid(s) /\ out[s].why = "budget_exceeded"
        BY <1>2, <2>1, <1>t, MainNeverSkipsCleanup
      <3> QED BY <3>1, <1>p DEF Excused
    <2>2. CASE r # s
      BY <1>2, <2>2, <1>t, <1>u, StepShape DEF StepMoves
    <2> QED BY <2>1, <2>2
  <1>3. ASSUME NEW r \in Step, Task(r) PROVE Excused(s)'
    <2>1. CASE r = s
      <3>1. Unpaid(s) /\ out'[s].why = "budget_exceeded"
        BY <1>3, <2>1, <1>t, TaskNeverSkipsCleanup
      <3> QED BY <3>1, <1>p DEF Excused
    <2>2. CASE r # s
      BY <1>3, <2>2, <1>t, <1>u, TaskShape DEF TaskMoves
    <2> QED BY <2>1, <2>2
  <1> QED BY <1>1, <1>2, <1>3, NextCases

\* No failure, workflow cap, cancel, teardown or stop ever skips a join: always step of any list.
THEOREM CleanupRuns == Spec => []CleanupIsNeverSkipped
  <1>1. Init => CleanupInv
    BY DEF Init, CleanupInv, NoRec
  <1>2. CleanupInv => CleanupIsNeverSkipped
    BY DEF CleanupInv, CleanupIsNeverSkipped, Excused, Settled
  <1>3. JoinInv /\ CleanupInv /\ [Next]_vars => CleanupInv'
    BY CleanupKept
  <1> QED BY <1>1, <1>2, <1>3, JoinInvariant, PTL DEF Spec

------------------------------------------------------------------------------
(* Records *)

\* Where steps are still launched, a verdict that run.json does not hold is a failure.
Deciding == pc \in {"check", "decide", "receive"}
Told(s)  == phase[s] \in {"sent", "settled"}
SaveInv  ==
  Deciding => ~aborted /\ \A s \in Step : Told(s) => rec[s] = out[s] \/ Untolerated(out[s])

\* What a step of the system does to the record of a step whose outcome is told.
Recorded(s) ==
  \/ Told(s) /\ out'[s] = out[s] /\ rec'[s] \in {rec[s], out[s]}
  \/ rec'[s] = out'[s]
  \/ Untolerated(out'[s])

LEMMA SaveRecords ==
  ASSUME TypeInv, NEW s \in Step, NEW r, Save(s, r), NEW t \in Step
  PROVE  IF t = s THEN rec'[t] = r ELSE rec'[t] = IF Told(t) THEN out[t] ELSE rec[t]
  BY DEF Save, Told

LEMMA DecideRecords ==
  ASSUME TypeInv, NEW s \in Step, NEW r, Decide(s, r), NEW t \in Step, Told(t)'
  PROVE  Recorded(t)
  <1>1. Save(s, Finalized(s, r)) /\ out' = [out EXCEPT ![s] = Finalized(s, r)]
        /\ phase' = [phase EXCEPT ![s] = "settled"]
    BY DEF Decide
  <1> QED BY <1>1, SaveRecords, Typed DEF Recorded, Told

LEMMA TaskRecords ==
  ASSUME TypeInv, ~Torn, NEW s \in Step, Task(s), NEW t \in Step, Told(t)'
  PROVE  Recorded(t)
  <1>t. out \in [Step -> Rec] /\ phase \in [Step -> Phases]
    BY Typed
  <1>e. ASSUME NEW r, NEW sig, End(s, r, sig) PROVE Recorded(t)
    BY <1>e, <1>t DEF End, Told, Recorded
  <1>1. CASE Replay(s) \/ LeafRefused(s) \/ LeafUnpaid(s) \/ LeafSucceeds(s)
    BY <1>1, <1>e DEF Replay, LeafRefused, LeafUnpaid, LeafSucceeds
  <1>2. CASE GateEnds(s) \/ StopEnds(s) \/ CompositeEnds(s) \/ Cancelled(s)
    BY <1>2, <1>e DEF GateEnds, StopEnds, CompositeEnds, Cancelled
  <1>3. CASE LeafAttempt(s) \/ LeafFails(s) \/ Waits(s)
    <2>1. /\ \A u \in Step \ {s} : phase'[u] = phase[u] /\ out'[u] = out[u]
          /\ phase'[s] \in Active /\ rec' = rec
      <3>1. CASE LeafAttempt(s) \/ LeafFails(s)
        BY <3>1, <1>t DEF LeafAttempt, LeafFails, Active
      <3>2. CASE Waits(s)
        BY <3>2, <1>t, WaitsGoOn, TypeParts DEF GoesOn, TypeInv
      <3> QED BY <1>3, <3>1, <3>2
    <2> QED BY <2>1 DEF Recorded, Told, Active
  <1>4. CASE Begin(s)
    <2>1. /\ \A u \in Step \ {s} : phase'[u] = phase[u] /\ out' = out
          /\ phase'[s] \in {"attempt", "queued"} /\ Save(s, Outcome("running", "none"))
      BY <1>4, <1>t DEF Begin
    <2> QED BY <2>1, SaveRecords DEF Recorded, Told
  <1>5. CASE Finish(s)
    <2>1. Save(s, Finalized(s, out[s])) /\ out' = [out EXCEPT ![s] = Finalized(s, out[s])]
          /\ phase' = [phase EXCEPT ![s] = "sent"]
      BY <1>5 DEF Finish
    <2> QED BY <2>1, <1>t, SaveRecords DEF Recorded, Told
  <1>6. CASE FinishFails(s)
    <2>1. /\ \A u \in Step \ {s} : phase'[u] = phase[u] /\ out'[u] = out[u]
          /\ out'[s] = Failure("persist")
          /\ rec' = rec \/ Save(s, Finalized(s, out[s]))
      BY <1>6, <1>t DEF FinishFails
    <2>2. CASE t = s
      BY <2>1, <2>2 DEF Recorded, Untolerated, Failure, FailedLike
    <2>3. CASE t # s
      BY <2>1, <2>3, SaveRecords DEF Recorded, Told
    <2> QED BY <2>2, <2>3
  <1> QED BY <1>1, <1>2, <1>3, <1>4, <1>5, <1>6 DEF Task, Waits

LEMMA MainRecords ==
  ASSUME TypeInv, NEW s \in Step, MainStep(s), NEW t \in Step, Told(t)'
  PROVE  Recorded(t)
  <1>t. phase \in [Step -> Phases]
    BY Typed
  <1>1. CASE DecideGated(s) \/ DecideJoin(s) \/ DecideWhen(s)
    BY <1>1, DecideRecords DEF DecideGated, DecideJoin, DecideWhen, WhenRefuses
  <1>2. CASE WindDownSkip(s) \/ WindDownWhen(s)
    BY <1>2, DecideRecords DEF WindDownSkip, WindDownWhen, WhenRefuses
  <1>3. CASE Launch(s) \/ WindDownLaunch(s)
    <2>1. phase' = [phase EXCEPT ![s] = "launched"] /\ out' = out /\ rec' = rec
      BY <1>3 DEF Launch, WindDownLaunch, StartTask
    <2> QED BY <2>1, <1>t DEF Recorded, Told
  <1> QED BY <1>1, <1>2, <1>3 DEF MainStep

LEMMA QuietRecords ==
  ASSUME TypeInv, StreamInv, Quiet
  PROVE  /\ rec' = rec /\ out' = out /\ \A t \in Step : Told(t)' <=> Told(t)
         /\ Deciding' => Deciding /\ aborted' = aborted
  <1> USE DEF taskVars, mainVars, vars, Deciding, Final
  <1>1. CASE Receive \/ Collect
    <2>1. /\ stream # <<>> /\ rec' = rec /\ out' = out
          /\ phase' = [phase EXCEPT ![Head(stream)] = "settled"]
          /\ Deciding' => Deciding /\ aborted' = aborted
      BY <1>1 DEF Receive, Collect, SettleHead
    <2>2. phase[Head(stream)] = "sent"
      BY <2>1, Typed DEF StreamInv
    <2> QED BY <2>1, <2>2, Typed DEF Told
  <1>2. CASE CheckCancelled \/ Decided \/ GroupDone \/ Collected
    BY <1>2 DEF CheckCancelled, Decided, GroupDone, Collected, Told
  <1>3. CASE WindDown \/ WindDownWait \/ WindDownEnd \/ WindDownAborted
    BY <1>3 DEF WindDown, WindDownWait, WindDownEnd, WindDownAborted, Told
  <1>4. CASE Abort \/ RequestCancel \/ UNCHANGED vars
    BY <1>4 DEF Abort, RequestCancel, Told
  <1> QED BY <1>1, <1>2, <1>3, <1>4 DEF Quiet

LEMMA SaveKept ==
  ASSUME JoinInv, SaveInv, [Next]_vars
  PROVE  SaveInv'
  <1>t. TypeInv /\ StreamInv /\ RoundInv /\ TaskTypeOK
    BY TypeParts DEF JoinInv, TypeInv
  <1> SUFFICES ASSUME Deciding'
               PROVE  ~aborted' /\ \A s \in Step : Told(s)' => rec'[s] = out'[s] \/ Untolerated(out'[s])
    BY DEF SaveInv, Untolerated
  <1>1. CASE Quiet
    BY <1>1, <1>t, QuietRecords DEF SaveInv
  <1>r. ASSUME ~aborted', Deciding, \A s \in Step : Told(s)' => Recorded(s)
        PROVE  ~aborted' /\ \A s \in Step : Told(s)' => rec'[s] = out'[s] \/ Untolerated(out'[s])
    BY <1>r DEF SaveInv, Recorded
  <1>2. ASSUME NEW s \in Step, MainStep(s) PROVE ~aborted' /\ Deciding /\ \A t \in Step : Told(t)' => Recorded(t)
    <2>1. pc' = pc /\ aborted' = aborted
      BY <1>2 DEF MainStep, DecideGated, DecideJoin, DecideWhen, Launch, WindDownSkip, WindDownWhen,
                  WindDownLaunch, mainVars
    <2> QED BY <2>1, <1>2, <1>t, MainRecords DEF SaveInv, Deciding
  <1>3. ASSUME NEW s \in Step, Task(s) PROVE ~aborted' /\ Deciding /\ \A t \in Step : Told(t)' => Recorded(t)
    <2>1. pc' = pc /\ aborted' = aborted
      BY <1>3, TaskFrames DEF taskFrame, mainVars
    <2>2. ~Torn /\ Deciding
      BY <2>1 DEF SaveInv, Deciding, Torn
    <2> QED BY <2>1, <2>2, <1>3, <1>t, TaskRecords DEF SaveInv
  <1> QED BY <1>1, <1>2, <1>3, <1>r, NextCases

LEMMA SettledRecords ==
  ASSUME JoinInv, [Next]_vars, NEW n \in Settled
  PROVE  n \in Settled' /\ out'[n] = out[n] /\ rec'[n] \in {rec[n], out[n]}
  <1>t. /\ TypeInv /\ StreamInv /\ RoundInv /\ TaskTypeOK
        /\ n \in Step /\ phase[n] = "settled" /\ Told(n)
    BY TypeParts DEF JoinInv, TypeInv, Settled, Told
  <1>k. n \in Settled' /\ out'[n] = out[n]
    BY <1>t, KeptByNext DEF Kept, Settled
  <1>1. CASE Quiet
    BY <1>1, <1>k, <1>t, QuietRecords
  <1>s. ASSUME NEW s \in Step, NEW r, Save(s, r), s # n PROVE rec'[n] \in {rec[n], out[n]}
    BY <1>s, <1>t, SaveRecords
  <1>2. ASSUME NEW s \in Step, MainStep(s) PROVE rec'[n] \in {rec[n], out[n]}
    <2>1. s # n
      BY <1>2, <1>t, StepShape DEF StepMoves, Ready, Pending
    <2> QED BY <2>1, <1>2, <1>s DEF MainStep, DecideGated, DecideJoin, DecideWhen, Launch,
             WindDownSkip, WindDownWhen, WindDownLaunch, WhenRefuses, Decide, StartTask
  <1>3. ASSUME NEW s \in Step, Task(s) PROVE rec'[n] \in {rec[n], out[n]}
    <2>1. s # n
      BY <1>3, <1>t, TaskShape DEF TaskMoves, Active
    <2> QED BY <2>1, <1>3, <1>s, TaskFrames
  <1> QED BY <1>1, <1>2, <1>3, <1>k, NextCases

\* A settled verdict, and its record once saved, is never rewritten, in any list.
THEOREM VerdictStands == Spec => VerdictIsFinal
  <1>1. ASSUME JoinInv, [Next]_vars
        PROVE  [\A s \in Step : phase[s] = "settled" =>
                  phase'[s] = "settled" /\ out'[s] = out[s] /\ rec'[s] \in {rec[s], out[s]}]_vars
    BY <1>1, SettledRecords DEF Settled
  <1> QED BY <1>1, JoinInvariant, PTL DEF Spec, VerdictIsFinal

LEMMA WriteAheadKept ==
  ASSUME JoinInv, SaveInv, WriteAhead, [Next]_vars
  PROVE  WriteAhead'
  <1>t. /\ TypeInv /\ StreamInv /\ RoundInv /\ TaskTypeOK /\ phase \in [Step -> Phases]
        /\ LaunchedOnJoin
    BY TypeParts, Typed DEF JoinInv, TypeInv
  <1>p. plan' = plan /\ \A s \in Step : plan.needs[s] \subseteq Step
    BY <1>t, KeptByNext, Typed DEF Kept, Plan
  <1> SUFFICES ASSUME NEW s \in Step, Engaged(s)', plan.join[s] # "always", NEW n \in plan.needs[s]
               PROVE  rec'[n] = out'[n]
    BY <1>p DEF WriteAhead
  <1>1. CASE Engaged(s)
    <2>1. n \in Settled /\ rec[n] = out[n]
      BY <1>1, <1>t DEF LaunchedOnJoin, Decidable, WriteAhead
    <2> QED BY <2>1, SettledRecords
  <1>2. CASE ~Engaged(s)
    <2>1. Launch(s) \/ WindDownLaunch(s)
      <3>1. CASE Quiet
        <4>1. \A t \in Step : Engaged(t)' => Engaged(t)
          BY <3>1, <1>t, Typed DEF Quiet, CheckCancelled, Decided, Receive, GroupDone, Collect, Collected,
             SettleHead, WindDown, WindDownWait, WindDownEnd, WindDownAborted, Abort, RequestCancel,
             taskVars, vars, Engaged, Active
        <4> QED BY <4>1, <1>2
      <3>2. ASSUME NEW r \in Step, Task(r) PROVE FALSE
        BY <3>2, <1>2, <1>t, TaskShape DEF TaskMoves, Engaged
      <3>3. ASSUME NEW r \in Step, MainStep(r) PROVE Launch(s) \/ WindDownLaunch(s)
        <4>1. r = s
          BY <3>3, <1>2, <1>t, StepShape DEF StepMoves, Engaged
        <4>2. ASSUME NEW x, Decide(s, x) PROVE FALSE
          BY <4>2, <1>t DEF Decide, Engaged, Active
        <4> QED BY <3>3, <4>1, <4>2 DEF MainStep, DecideGated, DecideJoin, DecideWhen, WindDownSkip,
                 WindDownWhen, WhenRefuses
      <3> QED BY <3>1, <3>2, <3>3, NextCases
    <2>2. Launch(s)
      BY <2>1, <1>2 DEF WindDownLaunch, Decision, JoinDecision
    <2>3. s \in Ready /\ Deciding /\ Decision(s, FALSE) = "run"
      BY <2>2, NeverDrainedStillRuns DEF Launch, Deciding
    <2>4. n \in Settled /\ n \in Step
      BY <2>3, <1>p DEF Ready, Decidable
    <2>5. "failed" \notin ClassesOf(s)
      BY <2>3 DEF Decision, JoinDecision
    <2>6. ~Untolerated(out[n])
      <3>1. Classify(out[n]) # "failed"
        BY <2>5 DEF ClassesOf
      <3> QED BY <3>1 DEF Untolerated, Classify, FailedLike
    <2>7. rec[n] = out[n]
      BY <2>3, <2>4, <2>6 DEF SaveInv, Told, Settled
    <2>8. rec' = rec /\ out' = out
      BY <2>2 DEF Launch, StartTask
    <2> QED BY <2>7, <2>8
  <1> QED BY <1>1, <1>2

\* Whatever is interrupted, torn down or fails to be saved, no step but a cleanup step ever
\* runs on an outcome that a crash would lose.
THEOREM OutcomesAreSavedFirst == Spec => []WriteAhead
  <1>1. Init => SaveInv /\ WriteAhead
    BY DEF Init, SaveInv, Told, WriteAhead, Engaged, Active
  <1>2. ASSUME JoinInv, SaveInv, WriteAhead, [Next]_vars PROVE SaveInv' /\ WriteAhead'
    BY <1>2, SaveKept, WriteAheadKept
  <1> QED BY <1>1, <1>2, JoinInvariant, PTL DEF Spec

------------------------------------------------------------------------------
(* Breakers *)

\* A step of the system starts nothing of s: no launch, and no attempt but one on its way.
KeepsOut(s) ==
  /\ phase[s] = "pending" => phase'[s] \in {"pending", "settled"}
  /\ MayStillStart(s)' \/ attempts'[s] # attempts[s] => MayStillStart(s)
  /\ attempts'[s] # attempts[s] => ~MayStillStart(s)'

StartsNothing == budget \/ cancel => \A s \in Step : plan.join[s] # "always" => KeepsOut(s)

LEMMA TaskKeepsOut ==
  ASSUME TypeInv, budget \/ cancel, NEW s \in Step, plan.join[s] # "always", Task(s)
  PROVE  KeepsOut(s)
  <1>t. phase \in [Step -> Phases] /\ attempts \in [Step -> 0..MaxAttempts] /\ TaskTypeOK
    BY TypeParts, Typed DEF TypeInv
  <1>p. phase[s] # "pending"
    BY <1>t, TaskShape DEF TaskMoves, Active
  <1>n. ASSUME phase'[s] \notin {"asking", "asked"}, attempts' = attempts PROVE KeepsOut(s)
    BY <1>n, <1>p DEF KeepsOut, MayStillStart
  <1>1. CASE LeafAttempt(s)
    <2>1. phase[s] = "asked" /\ phase'[s] = "attempt"
      BY <1>1, <1>t DEF LeafAttempt, Cleared
    <2> QED BY <2>1 DEF KeepsOut, MayStillStart
  <1>2. CASE LeafAsks(s)
    <2>1. cancel' /\ phase'[s] = "asking" /\ attempts' = attempts
      BY <1>2, <1>t DEF LeafAsks
    <2> QED BY <2>1, <1>p DEF KeepsOut, MayStillStart
  <1>3. CASE LeafAsked(s)
    <2>1. ~cancel /\ phase[s] = "asking" /\ attempts' = attempts
      BY <1>3 DEF LeafAsked
    <2> QED BY <2>1 DEF KeepsOut, MayStillStart
  <1>e. ASSUME NEW r, NEW sig, End(s, r, sig) PROVE KeepsOut(s)
    BY <1>e, <1>t, <1>n DEF End
  <1>4. CASE Replay(s) \/ LeafRefused(s) \/ LeafUnpaid(s) \/ LeafSucceeds(s)
    BY <1>4, <1>e DEF Replay, LeafRefused, LeafUnpaid, LeafSucceeds
  <1>5. CASE GateEnds(s) \/ StopEnds(s) \/ CompositeEnds(s) \/ Cancelled(s)
    BY <1>5, <1>e DEF GateEnds, StopEnds, CompositeEnds, Cancelled
  <1>6. CASE Begin(s) \/ LeafFails(s) \/ Finish(s) \/ FinishFails(s)
    <2>1. attempts' = attempts /\ phase'[s] \notin {"asking", "asked"}
      BY <1>6, <1>t DEF Begin, LeafFails, Finish, FinishFails
    <2> QED BY <2>1, <1>n
  <1>7. CASE LeafGivesUp(s) \/ LeafBacksOff(s) \/ LeafRetries(s) \/ BodyAsks(s)
    <2>1. attempts' = attempts /\ phase'[s] \notin {"asking", "asked"}
      BY <1>7, <1>t DEF LeafGivesUp, LeafBacksOff, LeafRetries, BodyAsks, taskVars
    <2> QED BY <2>1, <1>n
  <1> QED BY <1>1, <1>2, <1>3, <1>4, <1>5, <1>6, <1>7 DEF Task

LEMMA TaskStartsAlone ==
  ASSUME TypeInv, NEW r \in Step, Task(r), NEW s \in Step, r # s
  PROVE  attempts'[s] = attempts[s]
  <1>t. attempts \in [Step -> 0..MaxAttempts] /\ TaskTypeOK
    BY TypeParts DEF TypeInv
  <1>1. CASE LeafAttempt(r)
    BY <1>1, <1>t DEF LeafAttempt
  <1>2. CASE Waits(r)
    BY <1>2, <1>t, WaitsGoOn DEF GoesOn
  <1>3. CASE Begin(r) \/ LeafFails(r) \/ Finish(r) \/ FinishFails(r)
    BY <1>3 DEF Begin, LeafFails, Finish, FinishFails
  <1>4. CASE Replay(r) \/ LeafRefused(r) \/ LeafUnpaid(r) \/ LeafSucceeds(r)
    BY <1>4 DEF Replay, LeafRefused, LeafUnpaid, LeafSucceeds, End
  <1>5. CASE GateEnds(r) \/ StopEnds(r) \/ CompositeEnds(r) \/ Cancelled(r)
    BY <1>5 DEF GateEnds, StopEnds, CompositeEnds, Cancelled, End
  <1> QED BY <1>1, <1>2, <1>3, <1>4, <1>5 DEF Task, Waits

\* Once a cap tripped or a cancel was seen, no list launches anything but cleanup steps, and no
\* leaf attempts anything, except once each those whose own question was under way by then.
THEOREM BreakersStopNewWork == Spec => BreakerHolds
  <1>1. ASSUME JoinInv, [Next]_vars PROVE [StartsNothing]_vars
    <2>t. TypeInv /\ RoundInv /\ TaskTypeOK /\ phase \in [Step -> Phases]
      BY <1>1, TypeParts, Typed DEF JoinInv, TypeInv
    <2>c. cancel => cancel'
      BY <1>1, <2>t, Remembered
    <2> SUFFICES ASSUME budget \/ cancel, NEW s \in Step, plan.join[s] # "always"
                 PROVE  KeepsOut(s)
      BY DEF StartsNothing
    <2>k. ASSUME attempts'[s] = attempts[s],
                 phase'[s] = phase[s] \/ phase'[s] = "settled" \/ phase'[s] = "launched",
                 phase[s] = "pending" => phase'[s] # "launched"
          PROVE  KeepsOut(s)
      BY <2>k, <2>c DEF KeepsOut, MayStillStart
    <2>1. CASE Quiet
      <3>1. attempts' = attempts
        BY <2>1 DEF Quiet, CheckCancelled, Decided, Receive, GroupDone, Collect, Collected, SettleHead,
           WindDown, WindDownWait, WindDownEnd, WindDownAborted, Abort, RequestCancel, taskVars, vars
      <3>2. phase' = phase \/ \E x : phase' = [phase EXCEPT ![x] = "settled"]
        BY <2>1 DEF Quiet, CheckCancelled, Decided, Receive, GroupDone, Collect, Collected, SettleHead,
           WindDown, WindDownWait, WindDownEnd, WindDownAborted, Abort, RequestCancel, taskVars, vars
      <3> QED BY <3>1, <3>2, <2>t, <2>k
    <2>2. ASSUME NEW r \in Step, MainStep(r) PROVE KeepsOut(s)
      <3>d. ASSUME NEW x, Decide(r, x)
            PROVE  /\ phase' = [phase EXCEPT ![r] = "settled"] /\ attempts' = attempts
        BY <3>d DEF Decide
      <3>1. CASE DecideGated(r) \/ DecideJoin(r) \/ DecideWhen(r) \/ WindDownSkip(r) \/ WindDownWhen(r)
        <4>1. phase' = [phase EXCEPT ![r] = "settled"] /\ attempts' = attempts
          BY <3>1, <3>d DEF DecideGated, DecideJoin, DecideWhen, WindDownSkip, WindDownWhen, WhenRefuses
        <4> QED BY <4>1, <2>t, <2>k
      <3>2. CASE Launch(r) \/ WindDownLaunch(r)
        <4>1. r # s
          BY <3>2 DEF Launch, WindDownLaunch, Gated, Decision, JoinDecision
        <4>2. phase'[s] = phase[s] /\ attempts'[s] = attempts[s]
          BY <3>2, <4>1, <2>t DEF Launch, WindDownLaunch, StartTask
        <4> QED BY <4>2, <2>k
      <3> QED BY <2>2, <3>1, <3>2 DEF MainStep
    <2>3. ASSUME NEW r \in Step, Task(r) PROVE KeepsOut(s)
      <3>1. CASE r = s
        BY <2>3, <3>1, <2>t, TaskKeepsOut
      <3>2. CASE r # s
        <4>1. phase'[s] = phase[s] /\ attempts'[s] = attempts[s]
          BY <2>3, <3>2, <2>t, TaskShape, TaskStartsAlone DEF TaskMoves
        <4> QED BY <4>1, <2>k
      <3> QED BY <3>1, <3>2
    <2> QED BY <1>1, <2>1, <2>2, <2>3, NextCases
  <1>2. BreakerHolds <=> [][StartsNothing]_vars
    BY PTL DEF BreakerHolds, StartsNothing, KeepsOut
  <1> QED BY <1>1, <1>2, JoinInvariant, PTL DEF Spec

------------------------------------------------------------------------------
(* Outcomes: what a step holds at each point of its task, and what the list makes of it.       *)

\* A record that an earlier run left behind and that may answer for a step carries no reason.
CacheInv == \A s \in Step : cache[s].status \in {"succeeded", "failed"} => cache[s].why = "none"

Ended(s) == phase[s] \in {"ending", "sent", "settled"}

\* The record an executor may leave, with the signal it raised.
Ending(r, sig) == /\ r.status \in Terminal \union {"paused"}
                  /\ r.status = "paused" => sig = "pause"
                  /\ r.status \in {"interrupted", "rejected"} => ~r.tolerated

\* Nothing is held before the first attempt, only a failure between attempts, and a signal
\* only together with the outcome that raised it.
Holds(s) ==
  /\ phase[s] \in {"pending", "launched"} => out[s] = NoRec
  /\ phase[s] \in {"queued", "asking", "asked", "attempt", "backoff"} =>
       out[s] \in {NoRec, Failure("machine")}
  /\ phase[s] = "failing" => out[s] = Failure("machine")
  /\ Ended(s) => Ending(out[s], signal[s])
  /\ ~Ended(s) => signal[s] = "none"

OutcomeInv == \A s \in Step : Holds(s)

\* An outcome that was sent is still in the stream.
SentInv == \A s \in Step : phase[s] = "sent" => \E i \in 1..Len(stream) : stream[i] = s

FailedAmong(S)     == \E t \in S \cap Settled : Untolerated(out[t])
SaidAmong(S, kind) == \E t \in S : signal[t] = kind

\* The list's state is what its settled steps said, no more and no less.
ControlInv ==
  /\ control.kind = "pause" <=> SaidAmong(Settled, "pause")
  /\ control.kind = "stop" <=> SaidAmong(Settled, "stop") /\ ~SaidAmong(Settled, "pause")
  /\ paused <=> \E s \in Settled : out[s].status = "paused"
  /\ draining => FailedAmong(Step) \/ \E s \in Settled : out[s].status = "paused"

\* What the list says of itself when it cancels or winds down has happened.
WhyInv ==
  /\ cancelReason = "failed"  => FailFast /\ FailedAmong(Step)
  /\ cancelReason = "stopped" => SaidAmong(Settled, "stop")
  /\ cancelReason = "paused"  => SaidAmong(Settled, "pause")
  /\ wd = "run_failed" => FailedAmong(Step)
  /\ wd = "stopped"    => SaidAmong(Settled, "stop")

\* A reason that is true of a step: every part of it, once true, stays true.
TrueOf(s, why) ==
  LET needed == plan.needs[s] \cap Settled IN
    /\ why = "upstream_failed"  => \E n \in needed : Untolerated(out[n])
    /\ why = "upstream_skipped" => \E n \in needed : out[n].status = "skipped"
    /\ why = "run_failed"       => FailedAmong(Step \ {s})
    /\ why = "failed"           => FailedAmong(Step \ {s}) /\ FailFast
    /\ why = "budget_exceeded"  => budget
    /\ why = "cancelled"        => cancel
    /\ why = "interrupted"      => aborted
    /\ why = "stopped"          => SaidAmong(Step, "stop")
    /\ why = "paused"           => SaidAmong(Step, "pause")

ReasonInv == \A s \in Step : Ended(s) => TrueOf(s, out[s].why)

\* Where the main task is, and what it has seen to get there.
PlaceInv ==
  /\ pc \in {"check", "decide", "receive"} => control.kind = "none" /\ ~aborted /\ wd = "none"
  /\ pc = "receive" => Ready = {}
  /\ pc \in {"collect", "winddown"} \union Final => NoneActive
  /\ pc \in {"winddown", "returned", "raised"} => stream = <<>>
  /\ pc \in {"winddown", "wd_decide", "wd_run"} => wd # "none"
  /\ pc \in {"teardown", "collect"} /\ wd = "none" /\ ~aborted =>
       \/ control.kind # "none"
       \/ draining /\ FailFast
       \/ pc = "collect" /\ Ready = {} /\ Running = {}
  /\ pc = "teardown" /\ ~aborted => cancelReason # "none"
  /\ pc \in {"returned", "raised"} =>
       /\ Ready = {} \/ paused \/ control.kind = "pause"
       /\ pc = "raised" <=> control.kind # "none"
  /\ pc = "aborted" => aborted

LEMMA TaskSignals ==
  ASSUME TaskTypeOK, NEW s \in Step, Task(s)
  PROVE  \A t \in Step \ {s} : signal'[t] = signal[t]
  <1>t. signal \in [Step -> Signals]
    BY DEF TaskTypeOK
  <1>1. CASE Waits(s)
    BY <1>1, WaitsGoOn DEF GoesOn
  <1>2. CASE Begin(s) \/ LeafAttempt(s) \/ LeafFails(s) \/ Finish(s) \/ FinishFails(s)
    BY <1>2 DEF Begin, LeafAttempt, LeafFails, Finish, FinishFails
  <1>3. CASE Replay(s) \/ LeafRefused(s) \/ LeafUnpaid(s) \/ LeafSucceeds(s)
    BY <1>3, <1>t DEF Replay, LeafRefused, LeafUnpaid, LeafSucceeds, End
  <1>4. CASE GateEnds(s) \/ StopEnds(s) \/ CompositeEnds(s) \/ Cancelled(s)
    BY <1>4, <1>t DEF GateEnds, StopEnds, CompositeEnds, Cancelled, End
  <1> QED BY <1>1, <1>2, <1>3, <1>4 DEF Task, Waits

LEMMA TaskElsewhere ==
  ASSUME TypeInv, NEW s \in Step, Task(s)
  PROVE  /\ phase[s] \in Active /\ Settled' = Settled
         /\ \A t \in Step \ {s} : phase'[t] = phase[t] /\ out'[t] = out[t] /\ signal'[t] = signal[t]
         /\ UNCHANGED <<plan, cache, draining, paused, control, pc, wd, round, cancelReason, aborted>>
  <1>t. TaskTypeOK /\ phase \in [Step -> Phases] /\ signal \in [Step -> Signals]
    BY TypeParts DEF TypeInv, TaskTypeOK
  <1>m. TaskMoves(s)
    BY <1>t, TaskShape
  <1>1. \A t \in Step \ {s} : phase'[t] = phase[t]
    BY <1>m, <1>t DEF TaskMoves
  <1>2. Settled' = Settled
    BY <1>m, <1>t DEF TaskMoves, Settled, Active
  <1>3. \A t \in Step \ {s} : signal'[t] = signal[t]
    BY <1>t, TaskSignals
  <1>4. taskFrame
    BY TaskFrames
  <1>5. UNCHANGED <<plan, cache, draining, paused, control, pc, wd, round, cancelReason, aborted>>
    BY <1>4 DEF taskFrame, frozenVars, stateVars, mainVars
  <1>6. phase[s] \in Active /\ \A t \in Step \ {s} : out'[t] = out[t]
    BY <1>m DEF TaskMoves
  <1> QED BY <1>1, <1>2, <1>3, <1>5, <1>6

\* The steps of a task that neither end it nor send its outcome, and those that end it.
LEMMA EndHolds ==
  ASSUME TypeInv, NEW s \in Step, NEW r \in Rec, NEW sig, Ending(r, sig), End(s, r, sig)
  PROVE  Holds(s)'
  <1>1. phase'[s] = "ending" /\ out'[s] = r /\ signal'[s] = sig
    BY TypeParts DEF TypeInv, TaskTypeOK, End
  <1> QED BY <1>1 DEF Holds, Ended, Ending

LEMMA TaskHolds ==
  ASSUME TypeInv, CacheInv, NEW s \in Step, Holds(s), Task(s)
  PROVE  Holds(s)'
  <1>t. /\ phase \in [Step -> Phases] /\ out \in [Step -> Rec] /\ signal \in [Step -> Signals]
        /\ out[s] \in Rec /\ cache[s] \in Rec
    BY TypeParts DEF TypeInv, TaskTypeOK, FrozenTypeOK
  <1>f. /\ Failure("machine") \in Rec /\ Ending(Failure("machine"), "none")
        /\ Failure("rejected") \in Rec /\ Ending(Failure("rejected"), "none")
        /\ \A sig : Ending(Failure("persist"), sig)
    BY FailureType DEF Errors, Ending, Failure, Terminal
  <1>o. \A st \in Statuses, why \in Reasons : \A sig :
          /\ Outcome(st, why) \in Rec
          /\ \/ st \in Terminal
             \/ st = "paused" /\ sig = "pause"
             => Ending(Outcome(st, why), sig)
    BY OutcomeType DEF Ending, Outcome, Terminal
  <1>s. Terminal \subseteq Statuses /\ "paused" \in Statuses
    BY DEF Statuses
  <1>w. {"none", "budget_exceeded", "cancelled", "stopped", "paused", "failed", "interrupted"}
          \subseteq Reasons
    BY DEF Reasons
  <1>e. \A r \in Rec : \A sig : Ending(r, sig) /\ End(s, r, sig) => Holds(s)'
    BY EndHolds
  <1>g. /\ Outcome("succeeded", "none") \in Rec
        /\ \A sig : Ending(Outcome("succeeded", "none"), sig)
        /\ Outcome("rejected", "none") \in Rec /\ Ending(Outcome("rejected", "none"), "stop")
        /\ Outcome("skipped", "budget_exceeded") \in Rec
        /\ Ending(Outcome("skipped", "budget_exceeded"), "none")
    BY <1>o, <1>s, <1>w DEF Terminal
  <1>h. /\ \A why \in {"none", "paused"} :
             Outcome("paused", why) \in Rec /\ Ending(Outcome("paused", why), "pause")
        /\ \A why \in {"stopped", "cancelled"} : \A sig :
             Outcome("interrupted", why) \in Rec /\ Ending(Outcome("interrupted", why), sig)
    BY <1>o, <1>s, <1>w DEF Terminal
  <1>1. CASE Replay(s)
    <2>1. Ending(cache[s], "none")
      BY <1>1 DEF Replay, CanReuse, Ending, Terminal
    <2> QED BY <1>1, <1>t, <2>1, EndHolds DEF Replay
  <1>2. CASE Begin(s) \/ LeafAttempt(s)
    <2>1. /\ phase[s] \in {"launched", "queued", "asked"} /\ phase'[s] \in {"queued", "attempt"}
          /\ out'[s] = out[s] /\ signal'[s] = signal[s]
      BY <1>2, <1>t DEF Begin, LeafAttempt, Cleared
    <2> QED BY <2>1 DEF Holds, Ended
  <1>3. CASE Waits(s) \/ LeafFails(s)
    <2>1. CASE LeafFails(s)
      <3>1. /\ phase[s] = "attempt" /\ phase'[s] \in {"failing", "ending"}
            /\ out'[s] = Failure("machine") /\ signal'[s] = signal[s]
        BY <2>1, <1>t DEF LeafFails
      <3> QED BY <3>1, <1>f DEF Holds, Ended
    <2>2. CASE LeafAsks(s) \/ LeafAsked(s) \/ LeafBacksOff(s) \/ LeafRetries(s)
      <3>1. /\ phase[s] \in {"queued", "asking", "failing", "backoff"}
            /\ phase'[s] \in {"queued", "asking", "asked", "backoff"}
            /\ out'[s] = out[s] /\ signal'[s] = signal[s]
        BY <2>2, <1>t DEF LeafAsks, LeafAsked, LeafBacksOff, LeafRetries
      <3> QED BY <3>1 DEF Holds, Ended
    <2>3. CASE LeafGivesUp(s)
      <3>1. /\ phase[s] = "failing" /\ phase'[s] = "ending"
            /\ out'[s] = out[s] /\ signal'[s] = signal[s]
        BY <2>3, <1>t DEF LeafGivesUp
      <3> QED BY <3>1, <1>f DEF Holds, Ended
    <2>4. CASE BodyAsks(s)
      BY <2>4 DEF BodyAsks, taskVars, Holds, Ended
    <2> QED BY <1>3, <2>1, <2>2, <2>3, <2>4 DEF Waits
  <1>4. CASE LeafRefused(s)
    <2> DEFINE r == IF out[s] # NoRec THEN out[s]
                    ELSE Outcome("skipped", IF budget' THEN "budget_exceeded" ELSE "cancelled")
    <2>1. phase[s] \in {"queued", "asking"} /\ End(s, r, "none")
      BY <1>4 DEF LeafRefused
    <2>2. r \in Rec /\ Ending(r, "none")
      <3>1. CASE out[s] # NoRec
        BY <2>1, <3>1, <1>f DEF Holds
      <3>2. CASE out[s] = NoRec
        BY <3>2, <1>o, <1>w, <1>s DEF Terminal
      <3> QED BY <3>1, <3>2
    <2> HIDE DEF r
    <2> QED BY <2>1, <2>2, EndHolds
  <1>5. CASE LeafUnpaid(s) \/ LeafSucceeds(s)
    BY <1>5, <1>e, <1>f, <1>g, <1>h DEF LeafUnpaid, LeafSucceeds
  <1>6. CASE GateEnds(s)
    BY <1>6, <1>e, <1>f, <1>g, <1>h DEF GateEnds
  <1>7. CASE StopEnds(s)
    BY <1>7, <1>e, <1>f, <1>g, <1>h DEF StopEnds
  <1>8. CASE CompositeEnds(s)
    BY <1>8, <1>e, <1>f, <1>g, <1>h DEF CompositeEnds
  <1>9. CASE Cancelled(s)
    <2>1. Interrupted \in Rec /\ Ending(Interrupted, "none")
      <3>1. (IF cancelReason = "none" THEN "interrupted" ELSE cancelReason) \in Reasons
        BY <1>w, TypeParts DEF TypeInv, MainTypeOK
      <3> QED BY <3>1, <1>o, <1>s DEF Interrupted, Terminal
    <2> QED BY <1>9, <2>1, <1>o, <1>s, <1>w, EndHolds DEF Cancelled
  <1>10. CASE Finish(s) \/ FinishFails(s)
    <2>1. /\ phase[s] = "ending" /\ phase'[s] = "sent" /\ signal'[s] = signal[s]
          /\ out'[s] = Finalized(s, out[s]) \/ out'[s] = Failure("persist")
      BY <1>10, <1>t DEF Finish, FinishFails
    <2>2. Ending(out[s], signal[s])
      BY <2>1 DEF Holds, Ended
    <2>3. Ending(Finalized(s, out[s]), signal[s])
      BY <2>2, <1>t DEF Ending, Finalized, Rec
    <2> QED BY <2>1, <2>3, <1>f DEF Holds, Ended
  <1> QED
    BY <1>1, <1>2, <1>3, <1>4, <1>5, <1>6, <1>7, <1>8, <1>9, <1>10 DEF Task, Waits

\* A step of the main task that decides nothing moves no step, or settles the head of the stream.
LEMMA QuietShape ==
  ASSUME TypeInv, StreamInv, Quiet
  PROVE  \/ UNCHANGED <<plan, cache, phase, out, signal, stream, draining, paused, control>>
         \/ /\ Receive \/ Collect
            /\ UNCHANGED <<plan, cache, out, signal>> /\ stream # <<>> /\ stream' = Tail(stream)
            /\ \E s \in Step :
                 /\ s = Head(stream) /\ phase[s] = "sent" /\ phase' = [phase EXCEPT ![s] = "settled"]
                 /\ Settle(s, out[s], signal[s])
  <1> USE DEF taskVars, stateVars, frozenVars, vars
  <1>1. CASE Receive \/ Collect
    <2>1. SettleHead
      BY <1>1 DEF Receive, Collect
    <2>2. Head(stream) \in Step /\ phase[Head(stream)] = "sent"
      BY <2>1, Typed DEF SettleHead, StreamInv
    <2> QED BY <1>1, <2>1, <2>2 DEF SettleHead
  <1>2. CASE ~(Receive \/ Collect)
    BY <1>2 DEF Quiet, CheckCancelled, Decided, GroupDone, Collected, WindDown, WindDownWait,
       WindDownEnd, WindDownAborted, Abort, RequestCancel
  <1> QED BY <1>1, <1>2

\* The answer of the join table is true of the settled needs of the step.
LEMMA DecisionIsTrue ==
  ASSUME TypeInv, OutcomeInv, NEW s \in Step, Decidable(s), NEW drain, drain \in BOOLEAN
  PROVE  LET needed == plan.needs[s] \cap Settled IN
         /\ Decision(s, drain) = "upstream_failed" => \E n \in needed : Untolerated(out[n])
         /\ Decision(s, drain) = "upstream_skipped" => \E n \in needed : out[n].status = "skipped"
         /\ Decision(s, drain) = "run_failed" => drain
  <1>n. plan.needs[s] \subseteq Step
    BY Typed DEF Plan
  <1>1. ASSUME "failed" \in ClassesOf(s)
        PROVE  \E n \in plan.needs[s] \cap Settled : Untolerated(out[n])
    <2>1. PICK n \in plan.needs[s] : Classify(out[n]) = "failed"
      BY <1>1 DEF ClassesOf
    <2>2. n \in Settled /\ out[n].status \in Terminal /\ Ending(out[n], signal[n])
      BY <1>n, <2>1 DEF Decidable, OutcomeInv, Holds, Ended, Settled
    <2>3. Untolerated(out[n])
      BY <2>1, <2>2 DEF Classify, Ending, Terminal, Untolerated, FailedLike
    <2> QED BY <2>2, <2>3
  <1>2. ASSUME "skipped" \in ClassesOf(s)
        PROVE  \E n \in plan.needs[s] \cap Settled : out[n].status = "skipped"
    <2>1. PICK n \in plan.needs[s] : Classify(out[n]) = "skipped"
      BY <1>2 DEF ClassesOf
    <2>2. out[n].status = "skipped"
      BY <2>1 DEF Classify
    <2> QED BY <2>1, <2>2 DEF Decidable
  <1>3. Decision(s, drain) = "upstream_failed" => "failed" \in ClassesOf(s)
    BY DEF Decision, JoinDecision
  <1>4. Decision(s, drain) = "upstream_skipped" => "skipped" \in ClassesOf(s)
    BY DEF Decision, JoinDecision
  <1>5. Decision(s, drain) = "run_failed" => drain
    BY DEF Decision, JoinDecision
  <1> QED BY <1>1, <1>2, <1>3, <1>4, <1>5

\* A list that drains without a pause drains because of a failure.
LEMMA DrainIsTrue ==
  ASSUME TypeInv, OutcomeInv, ControlInv, draining, control.kind # "pause"
  PROVE  FailedAmong(Step)
  <1>1. ASSUME NEW s \in Settled, out[s].status = "paused" PROVE FALSE
    <2>1. signal[s] = "pause"
      BY <1>1 DEF OutcomeInv, Holds, Ended, Settled, Ending
    <2> QED BY <2>1 DEF ControlInv, SaidAmong
  <1> QED BY <1>1 DEF ControlInv

\* What the main task decides about a step without running it is true.
LEMMA MainDecides ==
  ASSUME TypeInv, RoundInv, CacheInv, OutcomeInv, ControlInv, WhyInv, PlaceInv,
         NEW s \in Step, MainStep(s)
  PROVE  /\ s \in Ready
         /\ UNCHANGED <<plan, cache, signal, stream, pc, wd, cancelReason, aborted>>
         /\ \/ StartTask(s)
            \/ \E r \in Rec : Decide(s, r) /\ Ending(r, "none") /\ TrueOf(s, r.why)
  <1> DEFINE Apt(r)  == Ending(r, "none") /\ TrueOf(s, r.why)
             Given(r)   == r \in Rec /\ Decide(s, r) /\ Apt(r)
             Goal == StartTask(s) \/ \E r : Given(r)
  <1>r. s \in Ready
    BY DEF MainStep, DecideGated, DecideJoin, DecideWhen, Launch, WindDownSkip, WindDownWhen,
       WindDownLaunch, RoundInv
  <1>d. s \in Step \ Settled /\ Decidable(s)
    BY <1>r DEF Ready, Pending, Settled
  <1>u. UNCHANGED <<plan, cache, signal, stream, pc, wd, cancelReason, aborted>>
    <2>1. (\E r : Decide(s, r)) \/ StartTask(s)
      BY DEF MainStep, DecideGated, DecideJoin, DecideWhen, Launch, WindDownSkip, WindDownWhen,
         WindDownLaunch, WhenRefuses
    <2>2. UNCHANGED <<plan, cache, signal, stream>>
      BY <2>1 DEF Decide, StartTask, frozenVars
    <2>3. UNCHANGED <<pc, wd, cancelReason, aborted>>
      BY DEF MainStep, DecideGated, DecideJoin, DecideWhen, Launch, WindDownSkip, WindDownWhen,
         WindDownLaunch, mainVars
    <2> QED BY <2>2, <2>3
  <1> SUFFICES Goal
    BY <1>r, <1>u
  <1>f. FailedAmong(Step) => FailedAmong(Step \ {s})
    BY <1>d DEF FailedAmong
  <1>k. \A why \in Reasons : /\ Outcome("skipped", why) \in Rec
                             /\ Outcome("skipped", why).why = why
                             /\ Ending(Outcome("skipped", why), "none")
    BY OutcomeType DEF Outcome, Statuses, Ending, Terminal
  <1>m. /\ Failure("machine") \in Rec /\ Failure("machine").why = "none"
        /\ Ending(Failure("machine"), "none")
    BY FailureType DEF Failure, Errors, Ending, Terminal
  <1>n. TrueOf(s, "none") /\ TrueOf(s, "when_false")
    BY DEF TrueOf
  <1>w. ASSUME WhenRefuses(s) PROVE Goal
    <2>1. Decide(s, Outcome("skipped", "when_false")) => Given(Outcome("skipped", "when_false"))
      BY <1>k, <1>n DEF Reasons
    <2>2. Decide(s, Failure("machine")) => Given(Failure("machine"))
      BY <1>m, <1>n
    <2> HIDE DEF Given
    <2> QED BY <1>w, <2>1, <2>2 DEF WhenRefuses
  <1>1. CASE DecideGated(s)
    <2>1. CASE CanReuse(s)
      <3>1. Decide(s, cache[s]) /\ cache[s] \in Rec
        BY <1>1, <2>1, Typed DEF DecideGated
      <3>2. cache[s].status \in {"succeeded", "failed"}
        BY <2>1 DEF CanReuse
      <3>3. Ending(cache[s], "none") /\ cache[s].why = "none"
        BY <3>2 DEF Ending, Terminal, CacheInv
      <3>4. Given(cache[s])
        BY <3>1, <3>3, <1>n
      <3> QED BY <3>4
    <2>2. CASE ~CanReuse(s)
      <3> DEFINE why == IF budget THEN "budget_exceeded" ELSE "cancelled"
      <3>1. Decide(s, Outcome("skipped", why)) /\ (budget \/ cancel)
        BY <1>1, <2>2 DEF DecideGated, Gated
      <3>2. why \in Reasons /\ TrueOf(s, why)
        BY <3>1 DEF Reasons, TrueOf
      <3> HIDE DEF why
      <3>3. Given(Outcome("skipped", why))
        BY <3>1, <3>2, <1>k
      <3> QED BY <3>3
    <2> QED BY <2>1, <2>2
  <1>2. CASE DecideJoin(s)
    <2> DEFINE why == Decision(s, draining \/ control.kind # "none")
    <2>1. control.kind = "none" /\ why # "run" /\ Decide(s, Outcome("skipped", why))
      BY <1>2 DEF DecideJoin, PlaceInv
    <2>2. why \in SkipReasons /\ why \in Reasons
      BY <2>1, DecisionType DEF Reasons
    <2>3. draining \in BOOLEAN /\ (draining \/ control.kind # "none") \in BOOLEAN
      BY DEF TypeInv, TypeOK
    <2>4. why = "run_failed" => FailedAmong(Step \ {s})
      BY <2>1, <2>3, <1>d, <1>f, DecisionIsTrue, DrainIsTrue
    <2>5. LET needed == plan.needs[s] \cap Settled IN
          /\ why = "upstream_failed" => \E n \in needed : Untolerated(out[n])
          /\ why = "upstream_skipped" => \E n \in needed : out[n].status = "skipped"
      BY <2>3, <1>d, DecisionIsTrue
    <2> HIDE DEF why
    <2>6. TrueOf(s, why)
      BY <2>2, <2>4, <2>5 DEF TrueOf, SkipReasons
    <2>7. Given(Outcome("skipped", why))
      BY <2>1, <2>2, <2>6, <1>k
    <2> QED BY <2>7
  <1>3. CASE DecideWhen(s) \/ WindDownWhen(s)
    BY <1>3, <1>w DEF DecideWhen, WindDownWhen
  <1>4. CASE Launch(s) \/ WindDownLaunch(s)
    BY <1>4 DEF Launch, WindDownLaunch
  <1>5. CASE WindDownSkip(s)
    <2> DEFINE decision  == Decision(s, TRUE)
               explained == wd # "stopped" /\ decision # "run_failed"
               why       == IF explained THEN decision ELSE wd
    <2>1. wd \in {"stopped", "run_failed"} /\ decision # "run" /\ Decide(s, Outcome("skipped", why))
      BY <1>5, TypeParts DEF WindDownSkip, PlaceInv, TypeInv, MainTypeOK
    <2>2. decision \in SkipReasons
      BY <2>1, DecisionType
    <2>3. LET needed == plan.needs[s] \cap Settled IN
          /\ decision = "upstream_failed" => \E n \in needed : Untolerated(out[n])
          /\ decision = "upstream_skipped" => \E n \in needed : out[n].status = "skipped"
      BY <1>d, DecisionIsTrue
    <2>4. why \in Reasons
      BY <2>1, <2>2 DEF Reasons, SkipReasons
    <2>5. TrueOf(s, why)
      <3>1. CASE explained
        <4>1. why = decision /\ decision \in {"upstream_failed", "upstream_skipped"}
          BY <3>1, <2>2 DEF SkipReasons
        <4> HIDE DEF why, decision
        <4> QED BY <4>1, <2>3 DEF TrueOf
      <3>2. CASE ~explained
        <4>1. why = wd
          BY <3>2
        <4>2. wd = "run_failed" => FailedAmong(Step \ {s})
          BY <1>f DEF WhyInv
        <4>3. wd = "stopped" => SaidAmong(Step, "stop")
          BY DEF WhyInv, SaidAmong, Settled
        <4> HIDE DEF why, explained
        <4> QED BY <4>1, <4>2, <4>3, <2>1 DEF TrueOf
      <3> QED BY <3>1, <3>2
    <2> HIDE DEF why
    <2>6. Given(Outcome("skipped", why))
      BY <2>1, <2>4, <2>5, <1>k
    <2> QED BY <2>6
  <1> QED BY <1>1, <1>2, <1>3, <1>4, <1>5 DEF MainStep

ListInv == /\ JoinInv /\ CacheInv /\ OutcomeInv /\ SentInv
           /\ ControlInv /\ WhyInv /\ ReasonInv /\ PlaceInv

LEMMA ListParts ==
  ASSUME ListInv
  PROVE  /\ TypeInv /\ StreamInv /\ RoundInv /\ CacheInv /\ OutcomeInv /\ SentInv
         /\ ControlInv /\ WhyInv /\ ReasonInv /\ PlaceInv
         /\ phase \in [Step -> Phases] /\ out \in [Step -> Rec] /\ signal \in [Step -> Signals]
         /\ stream \in Seq(Step) /\ TaskTypeOK
  <1>1. TypeInv /\ StreamInv /\ RoundInv
    BY DEF ListInv, JoinInv
  <1>2. TaskTypeOK
    BY <1>1, TypeParts DEF TypeInv
  <1> QED BY <1>1, <1>2 DEF ListInv, TaskTypeOK

------------------------------------------------------------------------------
(* What a step said stays said, and what was true of it stays true. *)

LEMMA SignalsKept ==
  ASSUME ListInv, [Next]_vars, NEW t \in Step, signal[t] # "none"
  PROVE  signal'[t] = signal[t]
  <1>p. ListInv /\ Ended(t)
    BY ListParts DEF OutcomeInv, Holds
  <1>1. CASE Quiet
    BY <1>1, ListParts, QuietShape
  <1>2. ASSUME NEW s \in Step, MainStep(s) PROVE signal'[t] = signal[t]
    BY <1>2, ListParts, MainDecides
  <1>3. ASSUME NEW s \in Step, Task(s) PROVE signal'[t] = signal[t]
    <2>1. CASE s # t
      BY <1>3, <2>1, ListParts, TaskElsewhere
    <2>2. CASE s = t
      <3>1. phase[s] = "ending"
        BY <1>3, <1>p, <2>2, ListParts, TaskElsewhere DEF Ended, Active
      <3>2. Finish(s) \/ FinishFails(s)
        BY <1>3, <3>1 DEF Task, Replay, Begin, LeafAsks, LeafAsked, LeafRefused, Cleared, LeafAttempt,
           LeafUnpaid, LeafSucceeds, LeafFails, LeafGivesUp, LeafBacksOff, LeafRetries, GateEnds,
           StopEnds, BodyAsks, CompositeEnds, Cancelled
      <3> QED BY <3>2 DEF Finish, FinishFails
    <2> QED BY <2>1, <2>2
  <1> QED BY <1>1, <1>2, <1>3, NextCases

LEMMA Grows ==
  ASSUME ListInv, [Next]_vars
  PROVE  /\ Kept /\ Settled \subseteq Settled'
         /\ \A S \in SUBSET Step : FailedAmong(S) => FailedAmong(S)'
         /\ \A kind \in {"stop", "pause"} :
              /\ SaidAmong(Step, kind) => SaidAmong(Step, kind)'
              /\ SaidAmong(Settled, kind) => SaidAmong(Settled, kind)'
  <1>k. Kept
    BY ListParts, KeptByNext
  <1>1. Settled \subseteq Settled'
    BY <1>k DEF Kept, Settled
  <1>2. ASSUME NEW S \in SUBSET Step, FailedAmong(S) PROVE FailedAmong(S)'
    <2>1. PICK t \in S \cap Settled : Untolerated(out[t])
      BY <1>2 DEF FailedAmong
    <2>2. t \in S \cap Settled' /\ Untolerated(out'[t])
      BY <2>1, <1>1, <1>k DEF Kept
    <2> QED BY <2>2 DEF FailedAmong, Untolerated
  <1>3. ASSUME NEW kind \in {"stop", "pause"}, NEW t \in Step, signal[t] = kind
        PROVE  signal'[t] = kind
    BY <1>3, SignalsKept
  <1>4. Settled \subseteq Step
    BY DEF Settled
  <1> QED BY <1>k, <1>1, <1>2, <1>3, <1>4 DEF SaidAmong

LEMMA TrueGrows ==
  ASSUME ListInv, [Next]_vars, NEW s \in Step, NEW why, TrueOf(s, why)
  PROVE  TrueOf(s, why)'
  <1>g. /\ Kept /\ Settled \subseteq Settled' /\ plan' = plan
        /\ FailedAmong(Step \ {s}) => FailedAmong(Step \ {s})'
        /\ SaidAmong(Step, "stop") => SaidAmong(Step, "stop")'
        /\ SaidAmong(Step, "pause") => SaidAmong(Step, "pause")'
    BY Grows DEF Kept
  <1>b. (budget => budget') /\ (cancel => cancel') /\ (aborted => aborted')
    BY ListParts, Remembered
  <1>1. \A n \in plan.needs[s] \cap Settled : n \in plan'.needs[s] \cap Settled' /\ out'[n] = out[n]
    BY <1>g DEF Kept
  <1>2. FailFast => FailFast'
    BY <1>g DEF FailFast
  <1> QED BY <1>g, <1>b, <1>1, <1>2 DEF TrueOf, Untolerated

------------------------------------------------------------------------------
(* The invariant is kept. *)

LEMMA CacheKept ==
  ASSUME CacheInv, [Next]_vars
  PROVE  CacheInv'
  BY FrozenKept DEF CacheInv, frozenVars

LEMMA OutcomeKept ==
  ASSUME ListInv, [Next]_vars
  PROVE  OutcomeInv'
  <1>h. /\ phase \in [Step -> Phases] /\ out \in [Step -> Rec] /\ signal \in [Step -> Signals]
        /\ \A t \in Step : Holds(t)
    BY ListParts DEF OutcomeInv
  <1>u. ASSUME NEW t \in Step, phase'[t] = phase[t] \/ (phase[t] = "sent" /\ phase'[t] = "settled"),
               out'[t] = out[t], signal'[t] = signal[t]
        PROVE  Holds(t)'
    <2>1. Holds(t)
      BY <1>h
    <2> QED BY <2>1, <1>u DEF Holds, Ended
  <1>1. CASE Quiet
    <2>1. \A t \in Step : \/ phase'[t] = phase[t]
                          \/ phase[t] = "sent" /\ phase'[t] = "settled"
      BY <1>1, <1>h, ListParts, QuietShape
    <2>2. out' = out /\ signal' = signal
      BY <1>1, ListParts, QuietShape
    <2> QED BY <2>1, <2>2, <1>u DEF OutcomeInv
  <1>2. ASSUME NEW s \in Step, MainStep(s) PROVE OutcomeInv'
    <2>1. /\ s \in Ready /\ signal' = signal
          /\ StartTask(s) \/ \E r \in Rec : Decide(s, r) /\ Ending(r, "none") /\ TrueOf(s, r.why)
      BY <1>2, ListParts, MainDecides
    <2>2. phase[s] = "pending" /\ out[s] = NoRec /\ signal[s] = "none"
      BY <2>1, <1>h DEF Ready, Pending, Holds, Ended
    <2>3. \A t \in Step \ {s} : phase'[t] = phase[t] /\ out'[t] = out[t]
      BY <2>1, <1>h DEF StartTask, Decide
    <2>4. Holds(s)'
      <3>1. CASE StartTask(s)
        <4>1. phase'[s] = "launched" /\ out'[s] = out[s]
          BY <3>1, <1>h DEF StartTask
        <4> QED BY <4>1, <2>1, <2>2 DEF Holds, Ended
      <3>2. ASSUME NEW r \in Rec, Decide(s, r), Ending(r, "none") PROVE Holds(s)'
        <4>1. phase'[s] = "settled" /\ out'[s] = Finalized(s, r)
          BY <3>2, <1>h DEF Decide
        <4>2. Ending(Finalized(s, r), "none")
          BY <3>2 DEF Ending, Finalized, Rec
        <4> QED BY <4>1, <4>2, <2>1, <2>2 DEF Holds, Ended
      <3> QED BY <2>1, <3>1, <3>2
    <2> QED BY <2>1, <2>3, <2>4, <1>u DEF OutcomeInv
  <1>3. ASSUME NEW s \in Step, Task(s) PROVE OutcomeInv'
    <2>1. Holds(s)'
      BY <1>3, <1>h, ListParts, TaskHolds
    <2>2. \A t \in Step \ {s} : phase'[t] = phase[t] /\ out'[t] = out[t] /\ signal'[t] = signal[t]
      BY <1>3, ListParts, TaskElsewhere
    <2> QED BY <2>1, <2>2, <1>u DEF OutcomeInv
  <1> QED BY <1>1, <1>2, <1>3, NextCases

LEMMA SentKept ==
  ASSUME ListInv, [Next]_vars
  PROVE  SentInv'
  <1>h. /\ phase \in [Step -> Phases] /\ stream \in Seq(Step) /\ TaskTypeOK
        /\ \A t \in Step : phase[t] = "sent" => \E i \in 1..Len(stream) : stream[i] = t
    BY ListParts DEF SentInv
  <1>1. CASE Quiet
    <2>1. CASE UNCHANGED <<phase, stream>>
      BY <2>1, <1>h DEF SentInv
    <2>2. ASSUME NEW s \in Step, stream # <<>>, stream' = Tail(stream), s = Head(stream),
                 phase' = [phase EXCEPT ![s] = "settled"]
          PROVE  SentInv'
      <3>1. SUFFICES ASSUME NEW t \in Step, phase'[t] = "sent"
                     PROVE  \E i \in 1..Len(stream') : stream'[i] = t
        BY DEF SentInv
      <3>2. t # s /\ phase[t] = "sent"
        BY <2>2, <3>1, <1>h
      <3>3. PICK i \in 1..Len(stream) : stream[i] = t
        BY <3>2, <1>h
      <3>4. i # 1 /\ Len(stream) \in Nat
        BY <2>2, <3>2, <3>3, <1>h
      <3>5. i - 1 \in 1..(Len(stream) - 1)
        BY <3>3, <3>4
      <3>6. Len(stream') = Len(stream) - 1 /\ \A j \in 1..Len(stream') : stream'[j] = stream[j + 1]
        BY <2>2, <1>h
      <3>7. i - 1 \in 1..Len(stream') /\ stream'[i - 1] = t
        BY <3>3, <3>5, <3>6
      <3> QED BY <3>7
    <2> QED BY <1>1, <2>1, <2>2, ListParts, QuietShape
  <1>2. ASSUME NEW s \in Step, MainStep(s) PROVE SentInv'
    <2>1. StepMoves(s)
      BY <1>2, ListParts, StepShape
    <2> QED BY <2>1, <1>h DEF StepMoves, SentInv
  <1>3. ASSUME NEW s \in Step, Task(s) PROVE SentInv'
    <2>1. PICK p \in Active \union {"sent"} :
            /\ phase' = [phase EXCEPT ![s] = p]
            /\ stream' = IF p = "sent" THEN Append(stream, s) ELSE stream
      BY <1>3, <1>h, TaskShape DEF TaskMoves
    <2>2. CASE p # "sent"
      BY <2>1, <2>2, <1>h DEF SentInv
    <2>3. CASE p = "sent"
      <3>1. /\ Len(stream') = Len(stream) + 1 /\ stream'[Len(stream) + 1] = s
            /\ \A i \in 1..Len(stream) : stream'[i] = stream[i]
        BY <2>1, <2>3, <1>h
      <3>2. Len(stream) \in Nat
        BY <1>h
      <3>3. \A t \in Step \ {s} : phase'[t] = phase[t]
        BY <2>1, <1>h
      <3>4. Len(stream) + 1 \in 1..Len(stream') /\ 1..Len(stream) \subseteq 1..Len(stream')
        BY <3>1, <3>2
      <3>5. ASSUME NEW t \in Step, phase'[t] = "sent"
            PROVE  \E i \in 1..Len(stream') : stream'[i] = t
        <4>1. CASE t = s
          BY <4>1, <3>1, <3>4
        <4>2. CASE t # s
          <5>1. PICK i \in 1..Len(stream) : stream[i] = t
            BY <4>2, <3>3, <3>5, <1>h
          <5> QED BY <5>1, <3>1, <3>4
        <4> QED BY <4>1, <4>2
      <3> QED BY <3>5 DEF SentInv
    <2> QED BY <2>2, <2>3
  <1> QED BY <1>1, <1>2, <1>3, NextCases

\* The outcome that joins the settled ones moves the state as Settle says, and no further.
LEMMA SettleControls ==
  ASSUME TypeInv, ControlInv, NEW s \in Step, s \notin Settled, NEW r, NEW sig \in Signals,
         Settle(s, r, sig), Settled' = Settled \union {s}, out'[s] = r, signal'[s] = sig,
         \A t \in Settled : out'[t] = out[t] /\ signal'[t] = signal[t]
  PROVE  ControlInv'
  <1>t. control \in Control /\ control.kind \in {"none", "stop", "pause"}
        /\ draining \in BOOLEAN /\ paused \in BOOLEAN
    BY DEF TypeInv, TypeOK, Control, NoControl
  <1>1. \A kind : SaidAmong(Settled, kind)' <=> SaidAmong(Settled, kind) \/ sig = kind
    BY DEF SaidAmong
  <1>2. control'.kind = IF \/ sig # "none" /\ control.kind = "none"
                           \/ sig = "pause" /\ control.kind # "pause"
                        THEN sig ELSE control.kind
    BY DEF Settle
  <1>3. /\ control'.kind = "pause" <=> SaidAmong(Settled, "pause")'
        /\ control'.kind = "stop" <=> SaidAmong(Settled, "stop")' /\ ~SaidAmong(Settled, "pause")'
    BY <1>1, <1>2, <1>t DEF ControlInv, Signals
  <1>4. paused' <=> \E t \in Settled' : out'[t].status = "paused"
    BY <1>t DEF ControlInv, Settle
  <1>5. FailedAmong(Step) => FailedAmong(Step)'
    BY DEF FailedAmong, Untolerated, Settled
  <1>6. Untolerated(r) => FailedAmong(Step)'
    BY DEF FailedAmong, Untolerated
  <1>7. draining' => FailedAmong(Step)' \/ \E t \in Settled' : out'[t].status = "paused"
    BY <1>5, <1>6, <1>t DEF ControlInv, Settle
  <1> QED BY <1>3, <1>4, <1>7 DEF ControlInv

LEMMA ControlKept ==
  ASSUME ListInv, [Next]_vars
  PROVE  ControlInv'
  <1>h. /\ phase \in [Step -> Phases] /\ out \in [Step -> Rec] /\ signal \in [Step -> Signals]
        /\ TypeInv /\ ControlInv
    BY ListParts
  <1>u. ASSUME Settled' = Settled, UNCHANGED <<draining, paused, control>>,
               \A t \in Settled : out'[t] = out[t] /\ signal'[t] = signal[t]
        PROVE  ControlInv'
    BY <1>u, <1>h DEF ControlInv, SaidAmong, FailedAmong, Untolerated
  <1>1. CASE Quiet
    <2>1. CASE UNCHANGED <<phase, out, signal, draining, paused, control>>
      BY <2>1, <1>u DEF Settled
    <2>2. ASSUME NEW s \in Step, phase[s] = "sent", phase' = [phase EXCEPT ![s] = "settled"],
                 Settle(s, out[s], signal[s]), UNCHANGED <<out, signal>>
          PROVE  ControlInv'
      <3>1. s \notin Settled /\ Settled' = Settled \union {s} /\ signal[s] \in Signals
        BY <2>2, <1>h DEF Settled
      <3> QED BY <2>2, <3>1, <1>h, SettleControls
    <2> QED BY <1>1, <2>1, <2>2, ListParts, QuietShape
  <1>2. ASSUME NEW s \in Step, MainStep(s) PROVE ControlInv'
    <2>1. /\ s \in Ready /\ signal' = signal
          /\ StartTask(s) \/ \E r \in Rec : Decide(s, r)
      BY <1>2, ListParts, MainDecides
    <2>2. phase[s] = "pending" /\ signal[s] = "none" /\ s \notin Settled
      BY <2>1, ListParts DEF Ready, Pending, Settled, OutcomeInv, Holds, Ended
    <2>3. CASE StartTask(s)
      <3>1. Settled' = Settled /\ out' = out /\ UNCHANGED <<draining, paused, control>>
        BY <2>2, <2>3, <1>h DEF StartTask, Settled, stateVars
      <3> QED BY <3>1, <2>1, <1>u
    <2>4. ASSUME NEW r \in Rec, Decide(s, r) PROVE ControlInv'
      <3>1. /\ Settle(s, Finalized(s, r), "none") /\ out'[s] = Finalized(s, r)
            /\ phase' = [phase EXCEPT ![s] = "settled"]
            /\ \A t \in Step \ {s} : out'[t] = out[t]
        BY <2>4, <1>h DEF Decide
      <3>2. Settled' = Settled \union {s} /\ Settled \subseteq Step \ {s}
        BY <3>1, <2>2, <1>h DEF Settled
      <3> QED BY <3>1, <3>2, <2>1, <2>2, <1>h, SettleControls DEF Signals
    <2> QED BY <2>1, <2>3, <2>4
  <1>3. ASSUME NEW s \in Step, Task(s) PROVE ControlInv'
    <2>1. Settled \subseteq Step \ {s}
      BY <1>3, <1>h, TaskElsewhere DEF Settled, Active
    <2> QED BY <1>3, <2>1, <1>h, <1>u, TaskElsewhere
  <1> QED BY <1>1, <1>2, <1>3, NextCases

\* DrainIsTrue, of the next state.
LEMMA DrainIsTrueNext ==
  ASSUME OutcomeInv', ControlInv', draining', control'.kind # "pause"
  PROVE  FailedAmong(Step)'
  <1>1. ASSUME NEW s \in Settled', out'[s].status = "paused" PROVE FALSE
    <2>1. signal'[s] = "pause"
      BY <1>1 DEF OutcomeInv, Holds, Ended, Settled, Ending
    <2> QED BY <1>1, <2>1 DEF ControlInv, SaidAmong
  <1> QED BY <1>1 DEF ControlInv

LEMMA WhyKept ==
  ASSUME ListInv, [Next]_vars, OutcomeInv', ControlInv'
  PROVE  WhyInv'
  <1>g. /\ FailedAmong(Step) => FailedAmong(Step)'
        /\ SaidAmong(Settled, "stop") => SaidAmong(Settled, "stop")'
        /\ SaidAmong(Settled, "pause") => SaidAmong(Settled, "pause")'
        /\ FailFast' = FailFast
    BY Grows DEF Kept, FailFast
  <1>u. ASSUME UNCHANGED <<cancelReason, wd>> PROVE WhyInv'
    BY <1>u, <1>g, ListParts DEF WhyInv
  <1>1. CASE Receive
    <2>1. /\ wd' = wd
          /\ \/ control'.kind = "stop" /\ cancelReason' = "stopped"
             \/ control'.kind = "pause" /\ cancelReason' = "paused"
             \/ control'.kind = "none" /\ draining' /\ FailFast /\ cancelReason' = "failed"
             \/ cancelReason' = cancelReason
      BY <1>1 DEF Receive
    <2>2. CASE control'.kind = "stop" /\ cancelReason' = "stopped"
      BY <2>1, <2>2, <1>g, ListParts DEF WhyInv, ControlInv
    <2>3. CASE control'.kind = "pause" /\ cancelReason' = "paused"
      BY <2>1, <2>3, <1>g, ListParts DEF WhyInv, ControlInv
    <2>4. CASE control'.kind = "none" /\ draining' /\ FailFast /\ cancelReason' = "failed"
      BY <2>1, <2>4, <1>g, ListParts, DrainIsTrueNext DEF WhyInv
    <2> QED BY <2>1, <2>2, <2>3, <2>4, <1>u
  <1>2. CASE Collected
    <2>1. /\ cancelReason' = cancelReason
          /\ \/ wd' = wd \/ wd' = "none"
             \/ wd' = "stopped" /\ control.kind = "stop"
             \/ wd' = "run_failed" /\ control.kind = "none" /\ draining
      BY <1>2 DEF Collected
    <2>2. wd' = "stopped" /\ control.kind = "stop" => SaidAmong(Settled, "stop")'
      BY <1>g, ListParts DEF ControlInv
    <2>3. wd' = "run_failed" /\ control.kind = "none" /\ draining => FailedAmong(Step)'
      BY <1>g, ListParts, DrainIsTrue
    <2> QED BY <2>1, <2>2, <2>3, <1>g, ListParts DEF WhyInv
  <1>3. CASE Quiet /\ ~Receive /\ ~Collected
    BY <1>3, <1>u DEF Quiet, CheckCancelled, Decided, GroupDone, Collect, WindDown, WindDownWait,
       WindDownEnd, WindDownAborted, Abort, RequestCancel, mainVars, vars
  <1>4. ASSUME NEW s \in Step, MainStep(s) PROVE WhyInv'
    BY <1>4, <1>u, ListParts, MainDecides
  <1>5. ASSUME NEW s \in Step, Task(s) PROVE WhyInv'
    BY <1>5, <1>u, ListParts, TaskElsewhere
  <1> QED BY <1>1, <1>2, <1>3, <1>4, <1>5, NextCases

\* Whatever ends a task, the reason it leaves on the record is true by then.
LEMMA TaskReason ==
  ASSUME ListInv, [Next]_vars, NEW s \in Step, Task(s), Ended(s)'
  PROVE  TrueOf(s, out[s].why)'
  <1>t. /\ phase \in [Step -> Phases] /\ out \in [Step -> Rec] /\ signal \in [Step -> Signals]
        /\ Holds(s) /\ out[s] \in Rec /\ cache[s] \in Rec
    BY ListParts, Typed DEF OutcomeInv
  <1>c. ASSUME NEW w, out'[s].why = w, TrueOf(s, w)' PROVE TrueOf(s, out[s].why)'
    BY <1>c DEF TrueOf
  <1>n. ASSUME out'[s].why = "none" PROVE TrueOf(s, out[s].why)'
    BY <1>n DEF TrueOf
  <1>g. ASSUME NEW w, TrueOf(s, w), out'[s].why = w PROVE TrueOf(s, out[s].why)'
    BY <1>g, <1>c, TrueGrows
  <1>e. ASSUME NEW r, NEW sig, End(s, r, sig) PROVE out'[s] = r /\ signal'[s] = sig
    BY <1>e, <1>t DEF End
  <1>m. /\ Failure("machine").why = "none" /\ Failure("rejected").why = "none"
        /\ Failure("persist").why = "none" /\ \A st, why : Outcome(st, why).why = why
    BY DEF Failure, Outcome
  <1>1. CASE Replay(s)
    BY <1>1, <1>e, <1>n, ListParts DEF Replay, CanReuse, CacheInv
  <1>2. CASE Begin(s) \/ LeafAttempt(s)
    BY <1>2, <1>t DEF Begin, LeafAttempt, Ended
  <1>10. CASE Waits(s)
    <2>1. CASE LeafGivesUp(s)
      <3>1. out'[s] = Failure("machine")
        BY <2>1, <1>t DEF LeafGivesUp, Holds
      <3> QED BY <3>1, <1>m, <1>n
    <2>2. CASE ~LeafGivesUp(s)
      <3>1. phase'[s] \notin {"ending", "sent", "settled"}
        BY <1>10, <2>2, <1>t DEF Waits, LeafAsks, LeafAsked, LeafBacksOff, LeafRetries, BodyAsks, taskVars
      <3> QED BY <3>1 DEF Ended
    <2> QED BY <2>1, <2>2
  <1>3. CASE LeafRefused(s)
    <2> DEFINE why == IF budget' THEN "budget_exceeded" ELSE "cancelled"
    <2>1. /\ phase[s] \in {"queued", "asking"} /\ (budget' \/ cancel')
          /\ out'[s] = IF out[s] # NoRec THEN out[s] ELSE Outcome("skipped", why)
      BY <1>3, <1>e DEF LeafRefused, SeeCancel
    <2>2. CASE out[s] # NoRec
      <3>0. phase[s] \in {"queued", "asking"} => out[s] \in {NoRec, Failure("machine")}
        BY <1>t DEF Holds
      <3>1. out[s] = Failure("machine")
        BY <2>1, <2>2, <3>0
      <3>2. out'[s].why = "none"
        BY <2>1, <2>2, <3>1, <1>m
      <3> QED BY <3>2, <1>n
    <2>3. CASE out[s] = NoRec
      <3>1. out'[s].why = why
        BY <2>1, <2>3, <1>m
      <3> QED BY <3>1, <2>1 DEF TrueOf
    <2> QED BY <2>2, <2>3
  <1>4. CASE LeafUnpaid(s)
    <2>1. out'[s].why = "budget_exceeded" /\ budget' = budget /\ budget
      BY <1>4, <1>e, <1>m DEF LeafUnpaid, Unpaid
    <2> QED BY <2>1 DEF TrueOf
  <1>5. CASE LeafSucceeds(s) \/ LeafFails(s)
    <2>1. out'[s] = Outcome("succeeded", "none") \/ out'[s] = Failure("machine")
      BY <1>5, <1>e, <1>t DEF LeafSucceeds, LeafFails
    <2> QED BY <2>1, <1>m, <1>n
  <1>6. CASE GateEnds(s) \/ StopEnds(s)
    BY <1>6, <1>e, <1>m, <1>n DEF GateEnds, StopEnds
  <1>7. CASE CompositeEnds(s)
    <2>1. \/ End(s, Outcome("succeeded", "none"), "none") \/ End(s, Failure("machine"), "none")
          \/ End(s, Outcome("interrupted", "stopped"), "stop")
          \/ End(s, Outcome("paused", "paused"), "pause")
          \/ End(s, Outcome("interrupted", "cancelled"), "none") /\ cancel'
      BY <1>7 DEF CompositeEnds, SeeCancel
    <2>6. \/ out'[s].why = "none"
          \/ out'[s].why = "stopped" /\ signal'[s] = "stop"
          \/ out'[s].why = "paused" /\ signal'[s] = "pause"
          \/ out'[s].why = "cancelled" /\ cancel'
      BY <2>1, <1>e, <1>m
    <2>2. CASE out'[s].why = "none"
      BY <2>2, <1>n
    <2>3. CASE out'[s].why = "stopped" /\ signal'[s] = "stop"
      BY <2>3 DEF TrueOf, SaidAmong
    <2>4. CASE out'[s].why = "paused" /\ signal'[s] = "pause"
      BY <2>4 DEF TrueOf, SaidAmong
    <2>5. CASE out'[s].why = "cancelled" /\ cancel'
      BY <2>5 DEF TrueOf
    <2> QED BY <2>6, <2>2, <2>3, <2>4, <2>5
  <1>8. CASE Cancelled(s)
    <2> DEFINE why == IF cancelReason = "none" THEN "interrupted" ELSE cancelReason
    <2>1. /\ Torn /\ s \notin Settled
          /\ out'[s].why = "none" \/ out'[s].why = why
      BY <1>8, <1>e, <1>m DEF Cancelled, Settled, Active, Interrupted
    <2>2. FailedAmong(Step) => FailedAmong(Step \ {s})
      BY <2>1 DEF FailedAmong
    <2>3. /\ SaidAmong(Settled, "stop") => SaidAmong(Step, "stop")
          /\ SaidAmong(Settled, "pause") => SaidAmong(Step, "pause")
      BY DEF SaidAmong, Settled
    <2>4. TrueOf(s, why)
      <3>1. cancelReason \in {"none", "stopped", "paused", "failed"}
        BY ListParts, TypeParts DEF TypeInv, MainTypeOK
      <3>2. CASE cancelReason = "none"
        <4>1. aborted
          BY <3>2, <2>1, ListParts DEF Torn, PlaceInv
        <4> QED BY <4>1, <3>2 DEF TrueOf
      <3>3. CASE cancelReason # "none"
        BY <3>1, <3>3, <2>2, <2>3, ListParts DEF TrueOf, WhyInv
      <3> QED BY <3>2, <3>3
    <2> HIDE DEF why
    <2>5. PICK w : w = why
      OBVIOUS
    <2>6. TrueOf(s, w) /\ (out'[s].why = "none" \/ out'[s].why = w)
      BY <2>1, <2>4, <2>5
    <2> QED BY <2>6, <1>g, <1>n
  <1>9. CASE Finish(s) \/ FinishFails(s)
    <2>1. /\ phase[s] = "ending"
          /\ out'[s] = Finalized(s, out[s]) \/ out'[s] = Failure("persist")
      BY <1>9, <1>t DEF Finish, FinishFails
    <2>2. PICK w : w = out[s].why
      OBVIOUS
    <2>3. TrueOf(s, w)
      BY <2>1, <2>2, ListParts DEF ReasonInv, Ended
    <2>4. out'[s].why = w \/ out'[s].why = "none"
      BY <2>1, <2>2, <1>t, <1>m, FinalizedStatus
    <2> QED BY <2>3, <2>4, <1>g, <1>n
  <1> QED
    BY <1>1, <1>2, <1>3, <1>4, <1>5, <1>6, <1>7, <1>8, <1>9, <1>10 DEF Task, Waits

LEMMA ReasonKept ==
  ASSUME ListInv, [Next]_vars
  PROVE  ReasonInv'
  <1>h. phase \in [Step -> Phases] /\ out \in [Step -> Rec] /\ stream \in Seq(Step)
    BY ListParts
  <1>u. ASSUME NEW t \in Step, Ended(t), out'[t] = out[t] PROVE TrueOf(t, out[t].why)'
    <2>1. PICK w : w = out[t].why
      OBVIOUS
    <2>2. TrueOf(t, w)
      BY <1>u, <2>1, ListParts DEF ReasonInv
    <2>3. TrueOf(t, w)' /\ out'[t].why = w
      BY <1>u, <2>1, <2>2, TrueGrows
    <2> QED BY <2>3 DEF TrueOf
  <1> SUFFICES ASSUME NEW t \in Step, Ended(t)'
               PROVE  TrueOf(t, out[t].why)'
    BY DEF ReasonInv
  <1>1. CASE Quiet
    <2>1. out' = out /\ Ended(t)
      BY <1>1, <1>h, ListParts, QuietShape DEF Ended
    <2> QED BY <2>1, <1>u
  <1>2. ASSUME NEW s \in Step, MainStep(s) PROVE TrueOf(t, out[t].why)'
    <2>1. StartTask(s) \/ \E r \in Rec : Decide(s, r) /\ TrueOf(s, r.why)
      BY <1>2, ListParts, MainDecides
    <2>2. CASE t # s
      <3>1. out'[t] = out[t] /\ phase'[t] = phase[t]
        BY <2>1, <2>2, <1>h DEF StartTask, Decide
      <3> QED BY <3>1, <1>u DEF Ended
    <2>3. CASE t = s /\ StartTask(s)
      BY <2>3, <1>h DEF StartTask, Ended
    <2>4. ASSUME t = s, NEW r \in Rec, Decide(s, r), TrueOf(s, r.why) PROVE TrueOf(t, out[t].why)'
      <3>1. out'[s].why = r.why
        BY <2>4, <1>h, FinalizedStatus DEF Decide
      <3>2. TrueOf(s, r.why)'
        BY <2>4, TrueGrows
      <3> QED BY <2>4, <3>1, <3>2 DEF TrueOf
    <2> QED BY <2>1, <2>2, <2>3, <2>4
  <1>3. ASSUME NEW s \in Step, Task(s) PROVE TrueOf(t, out[t].why)'
    <2>1. CASE t = s
      BY <1>3, <2>1, TaskReason
    <2>2. CASE t # s
      <3>1. out'[t] = out[t] /\ phase'[t] = phase[t]
        BY <1>3, <2>2, ListParts, TaskElsewhere
      <3> QED BY <3>1, <1>u DEF Ended
    <2> QED BY <2>1, <2>2
  <1> QED BY <1>1, <1>2, <1>3, NextCases

LEMMA ReadyStays ==
  ASSUME UNCHANGED <<plan, out, phase>>
  PROVE  Ready' = Ready /\ Running' = Running /\ NoneActive' = NoneActive
  BY DEF Ready, Pending, Decidable, Settled, Running, NoneActive

LEMMA TaskPlace ==
  ASSUME ListInv, NEW s \in Step, Task(s)
  PROVE  PlaceInv'
  <1>f. /\ phase[s] \in Active /\ Settled' = Settled
        /\ UNCHANGED <<plan, draining, paused, control, pc, wd, cancelReason, aborted>>
        /\ \A t \in Step \ {s} : phase'[t] = phase[t] /\ out'[t] = out[t]
    BY ListParts, TaskElsewhere
  <1>p. PlaceInv /\ phase \in [Step -> Phases]
    BY ListParts
  <1>a. pc \notin {"collect", "winddown"} \union Final
    BY <1>f, <1>p DEF PlaceInv, NoneActive
  <1>r. Ready' = Ready
    <2>1. Pending' = Pending
      <3>1. phase'[s] # "pending" /\ phase[s] # "pending"
        BY <1>f, <1>p, ListParts, TaskShape DEF TaskMoves, Active
      <3> QED BY <3>1, <1>f DEF Pending
    <2>2. \A t \in Step : Decidable(t)' <=> Decidable(t)
      <3>1. \A n \in Settled : out'[n] = out[n]
        BY <1>f DEF Settled, Active
      <3> QED BY <3>1, <1>f DEF Decidable
    <2>3. Pending \subseteq Step
      BY DEF Pending
    <2> QED BY <2>1, <2>2, <2>3 DEF Ready
  <1> QED BY <1>f, <1>p, <1>a, <1>r DEF PlaceInv, FailFast, Final

LEMMA MainStepPlace ==
  ASSUME ListInv, NEW s \in Step, MainStep(s)
  PROVE  PlaceInv'
  <1>1. /\ UNCHANGED <<plan, stream, pc, wd, cancelReason, aborted>>
        /\ StartTask(s) \/ \E r \in Rec : Decide(s, r)
    BY ListParts, MainDecides
  <1>2. pc \in {"decide", "wd_decide"}
    BY DEF MainStep, DecideGated, DecideJoin, DecideWhen, Launch, WindDownSkip, WindDownWhen,
       WindDownLaunch
  <1>3. control' = control
    BY <1>1 DEF StartTask, stateVars, Decide, Settle
  <1> QED BY <1>1, <1>2, <1>3, ListParts DEF PlaceInv, Final

LEMMA QuietPlace ==
  ASSUME ListInv, Quiet
  PROVE  PlaceInv'
  <1>p. PlaceInv /\ TypeInv /\ phase \in [Step -> Phases] /\ stream \in Seq(Step)
    BY ListParts
  <1>k. control.kind \in {"none", "stop", "pause"} /\ draining \in BOOLEAN
    BY <1>p DEF TypeInv, TypeOK, Control, NoControl
  <1> USE DEF taskVars, stateVars, frozenVars, mainVars, FailFast, Final
  <1>1. CASE CheckCancelled
    BY <1>1, <1>p DEF CheckCancelled, PlaceInv
  <1>2. CASE Decided
    <2>1. Ready' = {} /\ pc' = "receive" /\ pc = "decide"
          /\ UNCHANGED <<control, aborted, wd>>
      BY <1>2, ReadyStays DEF Decided
    <2> QED BY <2>1, <1>p DEF PlaceInv
  <1>3. CASE Receive
    <2>1. /\ pc = "receive" /\ UNCHANGED <<plan, wd, aborted>>
          /\ \/ pc' = "check" /\ control'.kind = "none"
             \/ pc' = "teardown" /\ (control'.kind # "none" \/ (draining' /\ FailFast))
      BY <1>3 DEF Receive, SettleHead
    <2>2. control'.kind \in {"none", "stop", "pause"}
      <3>1. signal[Head(stream)] \in Signals
        BY <1>3, <1>p, ListParts DEF Receive, SettleHead
      <3> QED BY <1>3, <3>1, <1>k DEF Receive, SettleHead, Settle, Signals
    <2>3. pc' = "teardown" => cancelReason' # "none"
      BY <1>3, <2>2 DEF Receive
    <2> QED BY <2>1, <2>3, <1>p DEF PlaceInv
  <1>4. CASE GroupDone
    <2>1. UNCHANGED <<plan, phase, out, stream, draining, paused, control, wd, cancelReason, aborted>>
          /\ pc' = "collect"
      BY <1>4 DEF GroupDone
    <2>2. Ready' = Ready /\ Running' = Running /\ NoneActive' = NoneActive
      BY <2>1, ReadyStays
    <2>3. NoneActive
      BY <1>4 DEF GroupDone, Running, NoneActive
    <2>4. wd = "none" /\ ~aborted =>
            control.kind # "none" \/ (draining /\ FailFast) \/ (Ready = {} /\ Running = {})
      BY <1>4, <1>p DEF GroupDone, PlaceInv
    <2> QED BY <2>1, <2>2, <2>3, <2>4 DEF PlaceInv
  <1>5. CASE Collect
    <2>1. PICK s \in Step : /\ phase[s] = "sent" /\ phase' = [phase EXCEPT ![s] = "settled"]
                            /\ Settle(s, out[s], signal[s])
      <3>1. SettleHead
        BY <1>5 DEF Collect
      <3>2. Head(stream) \in Step /\ phase[Head(stream)] = "sent"
        BY <3>1, <1>p, ListParts DEF SettleHead, StreamInv
      <3> QED BY <3>1, <3>2 DEF SettleHead
    <2>2. pc = "collect" /\ UNCHANGED <<plan, pc, wd, aborted, cancelReason>>
      BY <1>5 DEF Collect, SettleHead
    <2>3. NoneActive' /\ Running # {}
      BY <2>1, <2>2, <1>p DEF PlaceInv, NoneActive, Running, Active
    <2>4. (control.kind # "none" => control'.kind # "none") /\ (draining => draining')
      BY <2>1, <1>k DEF Settle
    <2> QED BY <2>2, <2>3, <2>4, <1>p DEF PlaceInv
  <1>6. CASE Collected
    <2>1. /\ pc = "collect" /\ stream = <<>>
          /\ UNCHANGED <<plan, phase, out, stream, draining, paused, control, aborted>>
          /\ \/ pc' = "aborted" /\ aborted
             \/ pc' = "winddown" /\ wd' # "none"
             \/ pc' = "raised" /\ ~aborted /\ control.kind = "pause"
             \/ /\ pc' = "returned" /\ ~aborted /\ wd = "none"
                /\ control.kind \notin {"stop", "pause"}
                /\ ~(control.kind = "none" /\ draining /\ FailFast)
      BY <1>6 DEF Collected
    <2>2. Ready' = Ready /\ NoneActive' = NoneActive
      BY <2>1, ReadyStays
    <2>3. NoneActive
      BY <2>1, <1>p DEF PlaceInv
    <2>4. pc' = "returned" => control.kind = "none" /\ Ready = {}
      BY <2>1, <1>p, <1>k DEF PlaceInv
    <2> QED BY <2>1, <2>2, <2>3, <2>4 DEF PlaceInv
  <1>7. CASE WindDown \/ WindDownWait
    <2>1. /\ pc \in {"winddown", "wd_decide"} /\ pc' \in {"wd_decide", "wd_run"} /\ wd' = wd
      BY <1>7 DEF WindDown, WindDownWait
    <2> QED BY <2>1, <1>p DEF PlaceInv
  <1>8. CASE WindDownEnd
    <2>1. /\ pc = "winddown" /\ (paused \/ Ready = {})
          /\ UNCHANGED <<plan, phase, out, stream, paused, control>>
          /\ pc' = IF control.kind = "none" THEN "returned" ELSE "raised"
      BY <1>8 DEF WindDownEnd
    <2>2. Ready' = Ready /\ NoneActive' = NoneActive
      BY <2>1, ReadyStays
    <2> QED BY <2>1, <2>2, <1>p DEF PlaceInv
  <1>9. CASE WindDownAborted
    <2>1. NoneActive' /\ pc' = "aborted" /\ aborted'
      BY <1>9, ReadyStays DEF WindDownAborted
    <2> QED BY <2>1 DEF PlaceInv
  <1>10. CASE Abort
    <2>1. aborted' /\ wd' = wd /\ pc' = IF wd = "none" THEN "teardown" ELSE "wd_run"
      BY <1>10 DEF Abort
    <2> QED BY <2>1 DEF PlaceInv
  <1>11. CASE RequestCancel \/ UNCHANGED vars
    <2>1. UNCHANGED <<plan, phase, out, stream, draining, paused, control, pc, wd, cancelReason, aborted>>
      BY <1>11 DEF RequestCancel, vars
    <2>2. Ready' = Ready /\ Running' = Running /\ NoneActive' = NoneActive
      BY <2>1, ReadyStays
    <2> QED BY <2>1, <2>2, <1>p DEF PlaceInv
  <1> QED
    BY <1>1, <1>2, <1>3, <1>4, <1>5, <1>6, <1>7, <1>8, <1>9, <1>10, <1>11 DEF Quiet

LEMMA FreshList ==
  ASSUME Fresh, CacheInv
  PROVE  ListInv
  <1>2. \A s \in Step : phase[s] = "pending" /\ out[s] = NoRec /\ signal[s] = "none"
    BY DEF Fresh
  <1>3. OutcomeInv /\ SentInv /\ ReasonInv
    BY <1>2 DEF OutcomeInv, Holds, Ended, SentInv, ReasonInv
  <1>4. Settled = {}
    BY <1>2 DEF Settled
  <1>5. ControlInv /\ WhyInv
    BY <1>4 DEF Fresh, ControlInv, WhyInv, SaidAmong, NoControl
  <1>6. PlaceInv
    BY DEF Fresh, PlaceInv, NoControl, Final
  <1> QED BY <1>3, <1>5, <1>6, FreshJoin DEF ListInv

LEMMA ListKept ==
  ASSUME ListInv, [Next]_vars
  PROVE  ListInv'
  <1>1. JoinInv' /\ CacheInv'
    BY JoinKept, CacheKept DEF ListInv
  <1>2. OutcomeInv' /\ ControlInv'
    BY OutcomeKept, ControlKept
  <1>3. PlaceInv'
    BY TaskPlace, MainStepPlace, QuietPlace, NextCases
  <1> QED BY <1>1, <1>2, <1>3, SentKept, WhyKept, ReasonKept DEF ListInv

\* The list's own account of itself - its flags, its reasons, where it is - is always right.
THEOREM ListInvariant == Spec => []ListInv
  <1>1. Init => CacheInv
    BY ReasonsAssumption DEF Init, CacheInv
  <1>2. Init => ListInv
    BY <1>1, InitFresh, FreshList
  <1>3. ListInv /\ [Next]_vars => ListInv'
    BY ListKept
  <1> QED BY <1>2, <1>3, PTL DEF Spec

\* The plan that runs is one of the plans, whatever happens to it.
LEMMA PlanKept == Spec => [](plan \in Plans)
  <1>1. Init => plan \in Plans
    BY DEF Init
  <1>2. plan \in Plans /\ [Next]_vars => (plan \in Plans)'
    BY FrozenKept DEF frozenVars
  <1> QED BY <1>1, <1>2, PTL DEF Spec

\* A list that returned, or raised a stop, holds no step at all that is still open.
LEMMA NothingIsOpen ==
  ASSUME ListInv, pc \in {"returned", "raised"}, NEW s \in Step
  PROVE  phase[s] \in {"pending", "settled"}
  <1>1. NoneActive /\ stream = <<>>
    BY ListParts DEF PlaceInv, Final
  <1>2. phase[s] # "sent"
    BY <1>1, ListParts DEF SentInv
  <1> QED BY <1>1, <1>2, ListParts DEF NoneActive, Phases

\* Were steps left pending, one of them would need none of the others, and would be ready.
LEMMA NothingIsLeft ==
  ASSUME ListInv, plan \in Plans, pc \in {"returned", "raised"}, ~paused, control.kind # "pause"
  PROVE  Settled = Step
  <1> DEFINE S == Step \ Settled
  <1>1. ASSUME S # {} PROVE FALSE
    <2>1. PICK s \in S : plan.needs[s] \cap S = {}
      BY <1>1, DagAssumption DEF Acyclic
    <2>2. plan.needs[s] \subseteq Settled
      BY <2>1, ListParts, Typed DEF Plan
    <2>3. \A n \in Settled : out[n].status \in Terminal
      BY ListParts DEF OutcomeInv, Holds, Ended, Ending, Settled, ControlInv
    <2>4. phase[s] = "pending"
      BY <2>1, NothingIsOpen DEF Settled
    <2>5. s \in Ready
      BY <2>1, <2>2, <2>3, <2>4 DEF Ready, Pending, Decidable
    <2> QED BY <2>5, ListParts DEF PlaceInv
  <1> QED BY <1>1 DEF Settled

\* No list of any shape ends with a step undecided, unless a pause keeps it open: a wind-down
\* that finds nothing ready has nothing left to decide.
THEOREM ListsAreDecided == Spec => []EveryStepDecided
  <1>1. ListInv /\ plan \in Plans => EveryStepDecided
    BY NothingIsLeft DEF EveryStepDecided
  <1> QED BY <1>1, ListInvariant, PlanKept, PTL

\* The strongest signal any step sent leaves every list, and none is invented.
THEOREM StrongestSignalLeaves == Spec => []SignalBubbles
  <1>1. ASSUME ListInv, pc \in {"returned", "raised"}, NEW kind \in {"stop", "pause"}
        PROVE  (\E s \in Step : signal[s] = kind) <=> SaidAmong(Settled, kind)
    <2>1. \A s \in Step : signal[s] = kind => s \in Settled
      BY <1>1, NothingIsOpen, ListParts DEF OutcomeInv, Holds, Ended, Settled
    <2> QED BY <2>1 DEF SaidAmong, Settled
  <1>2. ASSUME ListInv, pc \in {"returned", "raised"}
        PROVE  /\ control.kind = IF \E s \in Step : signal[s] = "pause" THEN "pause"
                                 ELSE IF \E s \in Step : signal[s] = "stop" THEN "stop" ELSE "none"
               /\ pc = "raised" <=> control.kind # "none"
    <2>1. /\ (\E s \in Step : signal[s] = "pause") <=> SaidAmong(Settled, "pause")
          /\ (\E s \in Step : signal[s] = "stop") <=> SaidAmong(Settled, "stop")
      BY <1>1, <1>2
    <2>2. control.kind \in {"none", "stop", "pause"}
      BY <1>2, ListParts DEF TypeInv, TypeOK, Control, NoControl
    <2>3. ControlInv /\ (pc = "raised" <=> control.kind # "none")
      BY <1>2, ListParts DEF PlaceInv
    <2> QED BY <2>1, <2>2, <2>3 DEF ControlInv
  <1>3. ListInv => SignalBubbles
    BY <1>2 DEF SignalBubbles
  <1> QED BY <1>3, ListInvariant, PTL

\* Whatever the reason a settled record carries, what it names has happened.
THEOREM RecordsTellTheTruth == Spec => []ReasonsAreTrue
  <1>1. ASSUME ListInv, NEW s \in Settled
        PROVE  TrueOf(s, out[s].why) /\ s \in Step
    BY <1>1, ListParts DEF ReasonInv, Ended, Settled
  <1>2. ASSUME ListInv PROVE ReasonsAreTrue
    <2> SUFFICES ASSUME NEW s \in Settled
                 PROVE  LET others     == Step \ {s}
                            failed     == \E t \in others \cap Settled : Untolerated(out[t])
                            told(kind) == \E t \in others : signal[t] = kind IN
      CASE out[s].why = "upstream_failed"  -> \E n \in plan.needs[s] : Untolerated(out[n])
        [] out[s].why = "upstream_skipped" -> \E n \in plan.needs[s] : out[n].status = "skipped"
        [] out[s].why = "run_failed"       -> failed
        [] out[s].why = "failed"           -> failed /\ FailFast
        [] out[s].why = "budget_exceeded"  -> budget
        [] out[s].why = "cancelled"        -> cancel
        [] out[s].why = "interrupted"      -> aborted
        [] out[s].why = "stopped"          -> told("stop") \/ signal[s] = "stop"
        [] out[s].why = "paused"           -> told("pause") \/ signal[s] = "pause"
        [] OTHER                           -> TRUE
      BY DEF ReasonsAreTrue
    <2>1. TrueOf(s, out[s].why)
      BY <1>1, <1>2
    <2> QED BY <2>1 DEF TrueOf, FailedAmong, SaidAmong
  <1> QED BY <1>2, ListInvariant, PTL

------------------------------------------------------------------------------
(* The contract *)

Verdicts == [s \in Step |-> VerdictOf(s)]

LEMMA ClassifyType ==
  ASSUME NEW r PROVE Classify(r) \in Contract!Classes
  BY DEF Classify, Contract!Classes

\* The needs of a decidable step have verdicts the join table knows.
LEMMA KnownVerdicts ==
  ASSUME TypeInv, NEW s \in Step, Decidable(s)
  PROVE  Contract!Known(s) /\ {Verdicts[n] : n \in plan.needs[s]} = ClassesOf(s)
  <1>1. plan.needs[s] \subseteq Step
    BY Typed DEF Plan
  <1>2. \A n \in plan.needs[s] : Verdicts[n] = Classify(out[n])
    BY <1>1 DEF Verdicts, VerdictOf, Decidable, Terminal
  <1> QED BY <1>1, <1>2, ClassifyType DEF Contract!Known, ClassesOf, Verdicts

LEMMA AcceptedByContract ==
  ASSUME TypeInv, NEW s \in Step, Decidable(s)
  PROVE  Contract!Accepts(s) <=> Decision(s, FALSE) = "run"
  <1>1. Contract!Accepts(s)
          <=> JoinDecision(plan.join[s], {Verdicts[n] : n \in plan.needs[s]}, FALSE) = "run"
    BY DEF Contract!Accepts, Verdicts, Contract!JoinDecision, JoinDecision
  <1> QED BY <1>1, KnownVerdicts DEF Decision

\* A step that settles gives its verdict, and disturbs no other one.
LEMMA SettledGives ==
  ASSUME TypeInv, NEW s \in Step, phase[s] # "settled", Decidable(s), UNCHANGED frozenVars,
         phase' = [phase EXCEPT ![s] = "settled"], \A t \in Step \ {s} : out'[t] = out[t]
  PROVE  Contract!Give(s, VerdictOf(s)')
  <1>1. \A t \in Step : CanReuse(t)' <=> CanReuse(t)
    BY DEF CanReuse, frozenVars
  <1>2. \A t \in Step \ {s} : VerdictOf(t)' = VerdictOf(t)
    BY Typed DEF VerdictOf, Settled
  <1>3. Verdicts[s] = "none" /\ Verdicts' = [Verdicts EXCEPT ![s] = VerdictOf(s)']
    BY <1>2 DEF Verdicts, VerdictOf, Settled
  <1> QED BY <1>1, <1>3, KnownVerdicts DEF Contract!Give, Verdicts, frozenVars

LEMMA NothingGiven ==
  ASSUME TypeInv, UNCHANGED frozenVars,
         \A t \in Step : /\ t \in Settled' <=> t \in Settled
                         /\ t \in Settled => out'[t] = out[t]
  PROVE  UNCHANGED Contract!vars
  <1>1. \A t \in Step : CanReuse(t)' <=> CanReuse(t)
    BY DEF CanReuse, frozenVars
  <1>2. \A t \in Step : VerdictOf(t)' = VerdictOf(t)
    BY DEF VerdictOf
  <1> QED BY <1>1, <1>2 DEF Contract!vars, frozenVars

\* The verdict of a step the main task decides without running it.
LEMMA DecideImplements ==
  ASSUME JoinInv, NEW s \in Step, MainStep(s), UNCHANGED frozenVars,
         phase' = [phase EXCEPT ![s] = "settled"]
  PROVE  Contract!Next
  <1>t. /\ TypeInv /\ TaskTypeOK /\ RoundInv /\ phase \in [Step -> Phases] /\ out \in [Step -> Rec]
        /\ cache[s] \in Rec
    BY TypeParts, Typed DEF JoinInv, TypeInv
  <1>m. StepMoves(s)
    BY <1>t, StepShape
  <1>d. Decidable(s) /\ phase[s] # "settled" /\ s \in Settled'
    BY <1>m, <1>t DEF StepMoves, Ready, Pending, Settled
  <1>g. Contract!Give(s, VerdictOf(s)')
    BY <1>d, <1>m, <1>t, SettledGives DEF StepMoves
  <1>s. ASSUME NEW r \in Rec, Decide(s, r)
        PROVE  /\ r.status = "skipped" => VerdictOf(s)' = "skipped"
               /\ r.status = "succeeded" \/ (r.status = "failed" /\ r.tolerated)
                    => VerdictOf(s)' = "succeeded"
               /\ r.status = "failed" => VerdictOf(s)' \in {"succeeded", "failed"}
    <2>1. out'[s] = Finalized(s, r)
      BY <1>s, <1>t DEF Decide
    <2>2. /\ out'[s].status = r.status /\ (r.tolerated => out'[s].tolerated)
          /\ out'[s].tolerated \in BOOLEAN
      BY <2>1, FinalizedStatus DEF Rec
    <2>3. out'[s].status # "paused" => VerdictOf(s)' = Classify(out'[s])
      BY <1>d DEF VerdictOf
    <2> QED BY <2>2, <2>3 DEF Classify
  <1>o. \A w \in Reasons : Outcome("skipped", w) \in Rec /\ Outcome("skipped", w).status = "skipped"
    BY OutcomeType DEF Outcome, Statuses, Terminal
  <1>k. ASSUME plan.join[s] # "always", NEW w \in Reasons, Decide(s, Outcome("skipped", w))
        PROVE  Contract!Skip(s)
    BY <1>k, <1>o, <1>s, <1>g DEF Contract!Skip
  <1>w. ASSUME WhenRefuses(s), Decision(s, FALSE) = "run" PROVE Contract!Skip(s) \/ Contract!Run(s)
    <2>1. CASE Decide(s, Outcome("skipped", "when_false"))
      <3>1. VerdictOf(s)' = "skipped" /\ s \in plan.when \union plan.metered
        BY <2>1, <1>o, <1>s, <1>w DEF Reasons, WhenRefuses
      <3> QED BY <3>1, <1>g DEF Contract!Skip
    <2>2. CASE Decide(s, Failure("machine"))
      <3>1. Failure("machine") \in Rec /\ Failure("machine").status = "failed"
        BY FailureType DEF Failure, Errors
      <3>2. VerdictOf(s)' \in {"succeeded", "failed"}
        BY <2>2, <3>1, <1>s
      <3>3. Contract!Accepts(s)
        BY <1>w, <1>d, <1>t, AcceptedByContract
      <3> QED BY <3>2, <3>3, <1>g DEF Contract!Run, Contract!Verdicts, Contract!Classes
    <2> QED BY <1>w, <2>1, <2>2 DEF WhenRefuses
  <1>a. \A drain : Decision(s, drain) # "run" => plan.join[s] # "always"
    BY DEF Decision, JoinDecision
  <1>1. CASE DecideGated(s)
    <2>1. plan.join[s] # "always"
      BY <1>1 DEF DecideGated, Gated
    <2>2. CASE CanReuse(s)
      <3>1. Decide(s, cache[s])
        BY <1>1, <2>2 DEF DecideGated
      <3>2. VerdictOf(s)' = "succeeded"
        BY <3>1, <2>2, <1>s, <1>t DEF CanReuse
      <3>3. Contract!Replay(s)
        BY <2>1, <2>2, <3>2, <1>g DEF Contract!Replay
      <3> QED BY <3>3 DEF Contract!Next
    <2>3. CASE ~CanReuse(s)
      <3>1. \E w \in Reasons : Decide(s, Outcome("skipped", w))
        BY <1>1, <2>3 DEF DecideGated, Reasons
      <3> QED BY <3>1, <2>1, <1>k DEF Contract!Next
    <2> QED BY <2>2, <2>3
  <1>2. CASE DecideJoin(s)
    <2> DEFINE decision == Decision(s, draining \/ control.kind # "none")
    <2>1. decision # "run" /\ Decide(s, Outcome("skipped", decision))
      BY <1>2 DEF DecideJoin
    <2>2. decision \in Reasons
      BY <2>1, DecisionType DEF Reasons
    <2> HIDE DEF decision
    <2>3. plan.join[s] # "always"
      BY <2>1, <1>a DEF decision
    <2> QED BY <2>1, <2>2, <2>3, <1>k DEF Contract!Next
  <1>3. CASE DecideWhen(s) \/ WindDownWhen(s)
    <2>1. WhenRefuses(s) /\ Decision(s, FALSE) = "run"
      BY <1>3, NeverDrainedStillRuns DEF DecideWhen, WindDownWhen
    <2> QED BY <2>1, <1>w DEF Contract!Next
  <1>4. CASE Launch(s) \/ WindDownLaunch(s)
    BY <1>4, <1>t DEF Launch, WindDownLaunch, StartTask
  <1>5. CASE WindDownSkip(s)
    <2> DEFINE decision == Decision(s, TRUE)
               why == IF wd # "stopped" /\ decision # "run_failed" THEN decision ELSE wd
    <2>1. decision # "run" /\ Decide(s, Outcome("skipped", why))
      BY <1>5 DEF WindDownSkip
    <2>2. decision \in Reasons /\ wd \in Reasons
      BY <2>1, <1>t, DecisionType, TypeParts DEF Reasons, TypeInv, MainTypeOK, SkipReasons
    <2>3. plan.join[s] # "always"
      BY <2>1, <1>a
    <2>4. why \in Reasons
      BY <2>2
    <2> HIDE DEF why, decision
    <2> QED BY <2>1, <2>3, <2>4, <1>k DEF Contract!Next
  <1> QED BY <1>1, <1>2, <1>3, <1>4, <1>5 DEF MainStep

\* The verdict of a step whose own outcome arrives: its join accepted it when it was launched.
LEMMA HeadImplements ==
  ASSUME JoinInv, CleanupInv, HeadMoves, UNCHANGED frozenVars
  PROVE  Contract!Next
  <1>t. /\ TypeInv /\ phase \in [Step -> Phases] /\ out \in [Step -> Rec] /\ stream \in Seq(Step)
    BY Typed DEF JoinInv
  <1>h. Head(stream) \in Step /\ phase[Head(stream)] = "sent"
    BY <1>t DEF HeadMoves, JoinInv, StreamInv
  <1>1. PICK s \in Step : s = Head(stream) /\ phase[s] = "sent"
    BY <1>h
  <1>2. Decidable(s) /\ Decision(s, FALSE) = "run"
    BY <1>1 DEF JoinInv, LaunchedOnJoin, Engaged
  <1>3. phase' = [phase EXCEPT ![s] = "settled"] /\ out' = out
    BY <1>1 DEF HeadMoves
  <1>4. Contract!Give(s, VerdictOf(s)')
    BY <1>t, <1>1, <1>2, <1>3, SettledGives
  <1>5. VerdictOf(s)' \in Contract!Verdicts \ {"none"}
    <2>1. VerdictOf(s)' \in {"paused"} \union Contract!Classes
      BY <1>1, <1>3, <1>t, ClassifyType DEF VerdictOf, Settled
    <2> QED BY <2>1 DEF Contract!Verdicts, Contract!Classes
  <1>6. VerdictOf(s)' = "skipped" => plan.join[s] # "always" \/ s \in plan.metered
    <2>1. VerdictOf(s)' = "skipped" => out[s].status = "skipped"
      BY <1>1, <1>3, <1>t DEF VerdictOf, Settled, Classify
    <2> QED BY <2>1, <1>1 DEF CleanupInv, Excused, Unpaid
  <1>7. Contract!Accepts(s)
    BY <1>t, <1>1, <1>2, AcceptedByContract
  <1>8. Contract!Run(s) \/ Contract!Skip(s)
    BY <1>4, <1>5, <1>6, <1>7 DEF Contract!Run, Contract!Skip
  <1> QED BY <1>1, <1>8 DEF Contract!Next

LEMMA StepImplements ==
  ASSUME JoinInv, CleanupInv, [Next]_vars
  PROVE  [Contract!Next]_(Contract!vars)
  <1>t. TypeInv /\ StreamInv /\ RoundInv /\ TaskTypeOK /\ phase \in [Step -> Phases]
    BY TypeParts, Typed DEF JoinInv, TypeInv
  <1>f. UNCHANGED frozenVars
    BY FrozenKept
  <1>1. CASE MainMoves
    BY <1>1, <1>f, <1>t, NothingGiven DEF MainMoves, Settled
  <1>2. CASE HeadMoves
    BY <1>2, <1>f, HeadImplements
  <1>3. ASSUME NEW s \in Step, MainStep(s) PROVE [Contract!Next]_(Contract!vars)
    <2>1. StepMoves(s)
      BY <1>3, <1>t, StepShape
    <2>2. CASE phase' = [phase EXCEPT ![s] = "settled"]
      BY <1>3, <2>2, <1>f, DecideImplements
    <2>3. CASE phase' = [phase EXCEPT ![s] = "launched"]
      <3>1. \A t \in Step : (t \in Settled' <=> t \in Settled) /\ (t \in Settled => out'[t] = out[t])
        BY <2>1, <2>3, <1>t DEF StepMoves, Settled, Ready, Pending
      <3> QED BY <3>1, <1>f, <1>t, NothingGiven
    <2> QED BY <2>1, <2>2, <2>3 DEF StepMoves
  <1>4. ASSUME NEW s \in Step, TaskMoves(s) PROVE UNCHANGED Contract!vars
    <2>1. \A t \in Step : (t \in Settled' <=> t \in Settled) /\ (t \in Settled => out'[t] = out[t])
      BY <1>4, <1>t DEF TaskMoves, Settled, Active
    <2> QED BY <2>1, <1>f, <1>t, NothingGiven
  <1>5. MainMoves \/ HeadMoves \/ \E s \in Step : MainStep(s) \/ TaskMoves(s)
    <2>1. CASE \E s \in Step : MainStep(s) \/ Task(s)
      BY <2>1, <1>t, TaskShape
    <2>2. CASE Quiet
      BY <2>2, <1>t DEF MainMoves, HeadMoves, RoundInv, frozenVars, taskVars, mainVars, vars, Quiet,
         CheckCancelled, Decided, Receive, GroupDone, Collect, Collected, SettleHead, WindDown,
         WindDownWait, WindDownEnd, WindDownAborted, Abort, RequestCancel
    <2> QED BY <2>1, <2>2, NextCases
  <1> QED BY <1>1, <1>2, <1>3, <1>4, <1>5

LEMMA InitImplements == Init => Contract!Init
  <1> SUFFICES ASSUME Init PROVE Contract!Init
    OBVIOUS
  <1>1. plan \in Plan
    BY PlansAssumption DEF Init
  <1>2. /\ plan.needs \in [Step -> SUBSET Step] /\ plan.join \in [Step -> Joins]
        /\ plan.when \union plan.metered \in SUBSET Step
    BY <1>1 DEF Plan
  <1>3. \A s \in Step : VerdictOf(s) = "none"
    BY DEF Init, VerdictOf, Settled
  <1> QED BY <1>2, <1>3 DEF Contract!Init, Contract!Joins, Joins

\* run_graph implements the sibling list's contract, for every list, cache and failure policy.
THEOREM RunGraphImplementsContract == Spec => ImplementsContract
  <1>1. Init => CleanupInv
    BY DEF Init, CleanupInv, NoRec
  <1>2. JoinInv /\ CleanupInv /\ [Next]_vars => CleanupInv'
    BY CleanupKept
  <1>3. JoinInv /\ CleanupInv /\ [Next]_vars => [Contract!Next]_(Contract!vars)
    BY StepImplements
  <1> QED BY <1>1, <1>2, <1>3, InitImplements, JoinInvariant, PTL DEF Spec, ImplementsContract, Contract!Spec

------------------------------------------------------------------------------
(* A run: what run.json holds of each step, in the process that runs it.                       *)

\* A verdict that ends well or badly carries no reason of its own.
Plain(r) == r.status \in {"succeeded", "failed"} => r.why = "none"

\* The executor of the step was called, and its outcome is not known yet.
Called == Active \ {"launched", "ending"}

\* A step that no executor was called for still has the record the process began with; one
\* whose executor was called is "running", and one whose outcome is told has that outcome,
\* unless its save failed.
Stored(s) ==
  /\ Plain(rec[s]) /\ Plain(out[s])
  /\ phase[s] \in {"pending", "launched"} => rec[s] = cache[s]
  /\ phase[s] \in Called => rec[s].status = "running"
  /\ phase[s] = "ending" => \/ rec[s].status = "running"
                            \/ rec[s] = cache[s] /\ (CanReuse(s) => out[s] = cache[s])
  /\ Told(s) => \/ rec[s] = out[s] \/ rec[s].status = "running" \/ out[s].error = "persist"
                \/ rec[s] = cache[s] /\ ~CanReuse(s)

StoredInv == \A s \in Step : Stored(s)

\* A reusable record is final already.
LEMMA ReusedAsIs ==
  ASSUME TypeInv, NEW s \in Step, CanReuse(s)
  PROVE  Finalized(s, cache[s]) = cache[s]
  <1>1. cache[s] \in Rec
    BY Typed
  <1> QED BY <1>1 DEF CanReuse, Finalized, Rec

LEMMA StoredElsewhere ==
  ASSUME TypeInv, NEW t \in Step, Stored(t), UNCHANGED <<plan, cache>>, out'[t] = out[t],
         phase'[t] = phase[t] \/ (phase[t] = "sent" /\ phase'[t] = "settled"),
         rec'[t] = rec[t] \/ (Told(t) /\ rec'[t] = out[t])
  PROVE  Stored(t)'
  <1>1. CanReuse(t)' <=> CanReuse(t)
    BY DEF CanReuse
  <1>2. Told(t)' <=> Told(t)
    BY DEF Told
  <1>3. Plain(rec[t])' /\ Plain(out[t])'
    BY DEF Stored, Plain
  <1>4. CASE Told(t)
    BY <1>1, <1>2, <1>3, <1>4 DEF Stored, Told, Called, Active
  <1>5. CASE ~Told(t)
    BY <1>1, <1>2, <1>3, <1>5 DEF Stored, Told, Called, Active
  <1> QED BY <1>4, <1>5

\* What an executor, a refusal or a cancellation leaves is stored when the task finishes.
LEMMA EndStored ==
  ASSUME TypeInv, NEW s \in Step, Stored(s), NEW r, NEW sig, End(s, r, sig), Plain(r),
         UNCHANGED <<plan, cache>>, phase[s] \in Active \ {"ending"},
         phase[s] = "launched" /\ CanReuse(s) => r = cache[s]
  PROVE  Stored(s)'
  <1>1. phase'[s] = "ending" /\ out'[s] = r /\ rec' = rec /\ cache' = cache
    BY Typed DEF End
  <1>2. CanReuse(s)' <=> CanReuse(s)
    BY DEF CanReuse
  <1> QED BY <1>1, <1>2 DEF Stored, Plain, Told, Active, Called

LEMMA TaskStored ==
  ASSUME ListInv, NEW s \in Step, Stored(s), Task(s)
  PROVE  Stored(s)'
  <1>t. /\ TypeInv /\ UNCHANGED <<plan, cache>> /\ phase[s] \in Active
        /\ phase \in [Step -> Phases] /\ out \in [Step -> Rec] /\ rec \in [Step -> Rec]
    BY ListParts, Typed, TaskElsewhere
  <1>r. CanReuse(s)' <=> CanReuse(s)
    BY <1>t DEF CanReuse
  <1>p. /\ \A st \in Statuses \ {"succeeded", "failed"}, why \in Reasons : Plain(Outcome(st, why))
        /\ \A error \in Errors : Plain(Failure(error))
        /\ Plain(Outcome("succeeded", "none")) /\ Plain(out[s])
    BY DEF Plain, Outcome, Failure, Stored
  <1>s. /\ {"skipped", "rejected", "paused", "interrupted", "running"}
             \subseteq Statuses \ {"succeeded", "failed"}
        /\ {"budget_exceeded", "cancelled", "stopped", "paused", "none"} \subseteq Reasons
        /\ {"machine", "rejected", "persist"} \subseteq Errors
    BY DEF Statuses, Terminal, Reasons, Errors
  <1>i. Plain(Interrupted)
    BY DEF Plain, Interrupted, Outcome
  <1>1. CASE Replay(s)
    <2>1. phase[s] = "launched" /\ End(s, cache[s], "none")
      BY <1>1 DEF Replay
    <2>2. Plain(cache[s])
      BY ListParts DEF CacheInv, Plain
    <2> QED BY <2>1, <2>2, <1>t, EndStored DEF Active
  <1>2. CASE Begin(s)
    <2>1. /\ rec'[s] = Outcome("running", "none") /\ phase'[s] \in {"queued", "attempt"}
          /\ out' = out
      BY <1>2, <1>t, SaveRecords DEF Begin
    <2>2. Plain(rec'[s]) /\ rec'[s].status = "running"
      BY <2>1 DEF Plain, Outcome
    <2> QED BY <2>1, <2>2, <1>p DEF Stored, Told, Plain, Called, Active
  <1>3. CASE LeafAttempt(s) \/ LeafFails(s) \/ Waits(s)
    <2>1. /\ phase[s] \in Called /\ phase'[s] \in Called \union {"ending"} /\ rec' = rec
          /\ out'[s] \in {out[s], Failure("machine")}
      <3>1. CASE LeafAttempt(s) \/ LeafFails(s)
        BY <3>1, <1>t DEF LeafAttempt, Cleared, LeafFails, Called, Active
      <3>2. CASE Waits(s)
        <4>1. phase[s] \in Called /\ phase'[s] \in Called \union {"ending"}
          BY <3>2, <1>t DEF Waits, LeafAsks, LeafAsked, LeafGivesUp, LeafBacksOff, LeafRetries,
                            BodyAsks, taskVars, Called, Active
        <4> QED BY <3>2, <4>1, ListParts, WaitsGoOn DEF GoesOn
      <3> QED BY <1>3, <3>1, <3>2
    <2>2. Plain(out'[s])
      BY <2>1, <1>p, <1>s
    <2> QED BY <2>1, <2>2 DEF Stored, Told, Plain, Called, Active
  <1>4. ASSUME NEW r, NEW sig, End(s, r, sig), Plain(r), phase[s] \in Called
        PROVE  Stored(s)'
    BY <1>4, <1>t, EndStored DEF Called
  <1>5. CASE LeafRefused(s) \/ LeafUnpaid(s)
    <2>1. phase[s] \in Called
      BY <1>5 DEF LeafRefused, LeafUnpaid, Cleared, Called, Active
    <2> QED BY <1>5, <2>1, <1>4, <1>p, <1>s DEF LeafRefused, LeafUnpaid
  <1>u. phase[s] = "attempt" => phase[s] \in Called
    BY DEF Called, Active
  <1>6. CASE LeafSucceeds(s) \/ StopEnds(s)
    BY <1>6, <1>4, <1>u, <1>p, <1>s DEF LeafSucceeds, StopEnds
  <1>7. CASE GateEnds(s)
    BY <1>7, <1>4, <1>u, <1>p, <1>s DEF GateEnds
  <1>8. CASE CompositeEnds(s)
    BY <1>8, <1>4, <1>u, <1>p, <1>s DEF CompositeEnds
  <1>9. CASE Cancelled(s)
    <2>1. PICK r, sig : End(s, r, sig) /\ r \in {Interrupted, Outcome("paused", "none")}
      BY <1>9 DEF Cancelled
    <2>2. Plain(r)
      BY <2>1, <1>p, <1>s, <1>i
    <2>3. phase[s] \in Active \ {"ending"} /\ ~(phase[s] = "launched" /\ CanReuse(s))
      BY <1>9 DEF Cancelled
    <2> QED BY <2>1, <2>2, <2>3, <1>t, EndStored
  <1>10. CASE Finish(s)
    <2>1. phase'[s] = "sent" /\ out'[s] = Finalized(s, out[s]) /\ rec'[s] = Finalized(s, out[s])
      BY <1>10, <1>t, SaveRecords DEF Finish
    <2>2. Plain(Finalized(s, out[s]))
      BY <1>p, <1>t DEF Plain, Finalized, Rec
    <2> QED BY <2>1, <2>2 DEF Stored, Told, Plain, Called, Active
  <1>12. CASE FinishFails(s) /\ Save(s, Finalized(s, out[s]))
    <2>1. /\ phase'[s] = "sent" /\ rec'[s] = Finalized(s, out[s])
          /\ out'[s] = IF Torn THEN Finalized(s, out[s]) ELSE Failure("persist")
      BY <1>12, <1>t, SaveRecords DEF FinishFails
    <2>2. Plain(Finalized(s, out[s])) /\ Plain(Failure("persist"))
      BY <1>p, <1>s, <1>t DEF Plain, Finalized, Rec
    <2>3. Plain(out'[s]) /\ Plain(rec'[s]) /\ Failure("persist").error = "persist"
      BY <2>1, <2>2 DEF Failure
    <2> QED BY <2>1, <2>3 DEF Stored, Told, Plain, Called, Active
  <1>11. CASE FinishFails(s) /\ ~Save(s, Finalized(s, out[s]))
    <2>1. /\ phase[s] = "ending" /\ phase'[s] = "sent" /\ rec' = rec
          /\ out'[s] = IF Torn THEN Finalized(s, out[s]) ELSE Failure("persist")
      BY <1>11, <1>t DEF FinishFails
    <2>2. Plain(Finalized(s, out[s])) /\ Plain(Failure("persist"))
      BY <1>p, <1>s, <1>t DEF Plain, Finalized, Rec
    <2>3. Plain(out'[s]) /\ Plain(rec'[s])
      BY <2>1, <2>2 DEF Stored
    <2>4. Failure("persist").error = "persist"
      BY DEF Failure
    <2>5. CASE rec[s].status = "running"
      BY <2>1, <2>3, <2>5 DEF Stored, Told, Plain, Called, Active
    <2>6. CASE ~Torn
      BY <2>1, <2>3, <2>4, <2>6 DEF Stored, Told, Plain, Called, Active
    <2>7. CASE Torn /\ rec[s] = cache[s] /\ ~CanReuse(s)
      BY <2>1, <2>3, <2>7, <1>t, <1>r DEF Stored, Told, Plain, Called, Active
    <2>8. CASE Torn /\ rec[s] = cache[s] /\ CanReuse(s) /\ out[s] = cache[s]
      <3>1. out'[s] = rec'[s]
        BY <2>1, <2>8, <1>t, ReusedAsIs
      <3> QED BY <2>1, <2>3, <3>1 DEF Stored, Told, Plain, Called, Active
    <2> QED BY <2>1, <2>5, <2>6, <2>7, <2>8 DEF Stored
  <1> QED
    BY <1>1, <1>2, <1>3, <1>5, <1>6, <1>7, <1>8, <1>9, <1>10, <1>11, <1>12 DEF Task, Waits

LEMMA MainStepStored ==
  ASSUME ListInv, NEW s \in Step, MainStep(s), Stored(s)
  PROVE  Stored(s)'
  <1>t. /\ TypeInv /\ s \in Ready /\ UNCHANGED <<plan, cache>> /\ phase[s] = "pending"
        /\ phase \in [Step -> Phases] /\ out \in [Step -> Rec] /\ rec \in [Step -> Rec]
    BY ListParts, Typed, MainDecides DEF Ready, Pending
  <1>1. ASSUME StartTask(s) PROVE Stored(s)'
    <2>1. phase'[s] = "launched" /\ rec' = rec /\ out' = out
      BY <1>1, <1>t DEF StartTask
    <2> QED BY <2>1, <1>t DEF Stored, Told, Plain, Called, Active
  <1>2. ASSUME NEW r \in Rec, Decide(s, r), Plain(r) PROVE Stored(s)'
    <2>1. phase'[s] = "settled" /\ out'[s] = Finalized(s, r) /\ rec'[s] = Finalized(s, r)
      BY <1>2, <1>t, SaveRecords DEF Decide
    <2>2. Plain(Finalized(s, r))
      BY <1>2 DEF Plain, Finalized, Rec
    <2> QED BY <2>1, <2>2 DEF Stored, Told, Plain, Called, Active
  <1>3. cache[s] \in Rec /\ Plain(cache[s])
    BY ListParts, Typed DEF CacheInv, Plain
  <1>4. \A why : Plain(Outcome("skipped", why))
    BY DEF Plain, Outcome
  <1>5. Failure("machine") \in Rec /\ Plain(Failure("machine"))
    BY FailureType DEF Plain, Failure, Errors
  <1>6. \A why \in SkipReasons \union {"budget_exceeded", "cancelled", "when_false", wd} :
          Outcome("skipped", why) \in Rec
    <2>1. SkipReasons \union {"budget_exceeded", "cancelled", "when_false", wd} \subseteq Reasons
      BY <1>t, TypeParts DEF TypeInv, Reasons, MainTypeOK, SkipReasons
    <2> QED BY <2>1, OutcomeType DEF Statuses, Terminal
  <1>7. CASE DecideGated(s)
    BY <1>7, <1>2, <1>3, <1>4, <1>6 DEF DecideGated
  <1>8. CASE DecideJoin(s)
    <2> DEFINE decision == Decision(s, draining \/ control.kind # "none")
    <2>1. decision \in SkipReasons /\ Decide(s, Outcome("skipped", decision))
      BY <1>8, DecisionType DEF DecideJoin
    <2> HIDE DEF decision
    <2> QED BY <2>1, <1>2, <1>4, <1>6
  <1>9. CASE WindDownSkip(s)
    <2> DEFINE decision  == Decision(s, TRUE)
               explained == wd # "stopped" /\ decision # "run_failed"
               why       == IF explained THEN decision ELSE wd
    <2>1. decision \in SkipReasons /\ Decide(s, Outcome("skipped", why))
      BY <1>9, DecisionType DEF WindDownSkip
    <2>2. why \in SkipReasons \union {wd}
      BY <2>1
    <2> HIDE DEF why
    <2> QED BY <2>1, <2>2, <1>2, <1>4, <1>6
  <1>10. CASE DecideWhen(s) \/ WindDownWhen(s)
    BY <1>10, <1>2, <1>4, <1>5, <1>6 DEF DecideWhen, WindDownWhen, WhenRefuses
  <1>11. CASE Launch(s) \/ WindDownLaunch(s)
    BY <1>11, <1>1 DEF Launch, WindDownLaunch
  <1> QED BY <1>7, <1>8, <1>9, <1>10, <1>11 DEF MainStep

\* No record but that of the step that acts changes, except to the outcome it stands for.
LEMMA RecElsewhere ==
  ASSUME ListInv, NEW s \in Step, MainStep(s) \/ Task(s), NEW t \in Step \ {s}
  PROVE  rec'[t] = rec[t] \/ (Told(t) /\ rec'[t] = out[t])
  <1>1. ASSUME NEW r, Save(s, r) PROVE rec'[t] = rec[t] \/ (Told(t) /\ rec'[t] = out[t])
    BY <1>1, ListParts, SaveRecords
  <1>2. CASE MainStep(s)
    BY <1>1, <1>2 DEF MainStep, DecideGated, DecideJoin, DecideWhen, Launch, WindDownSkip,
       WindDownWhen, WindDownLaunch, WhenRefuses, Decide, StartTask
  <1>3. CASE Task(s)
    BY <1>1, <1>3, TaskFrames
  <1> QED BY <1>2, <1>3

LEMMA QuietKeepsRecords ==
  ASSUME Quiet
  PROVE  rec' = rec
  BY DEF Quiet, CheckCancelled, Decided, Receive, GroupDone, Collect, Collected, SettleHead, WindDown,
     WindDownWait, WindDownEnd, WindDownAborted, Abort, RequestCancel, vars, taskVars

LEMMA StoredKept ==
  ASSUME ListInv, StoredInv, [Next]_vars
  PROVE  StoredInv'
  <1>t. /\ TypeInv /\ StreamInv /\ UNCHANGED <<plan, cache>>
        /\ phase \in [Step -> Phases] /\ out \in [Step -> Rec]
    BY ListParts, FrozenKept DEF frozenVars
  <1> SUFFICES ASSUME NEW t \in Step PROVE Stored(t)'
    BY DEF StoredInv
  <1>s. Stored(t)
    BY DEF StoredInv
  <1>1. CASE Quiet
    <2>1. out' = out /\ (phase'[t] = phase[t] \/ (phase[t] = "sent" /\ phase'[t] = "settled"))
      BY <1>1, <1>t, QuietShape
    <2> QED BY <1>1, <1>s, <1>t, <2>1, QuietKeepsRecords, StoredElsewhere
  <1>2. ASSUME NEW s \in Step, MainStep(s) \/ Task(s) PROVE Stored(t)'
    <2>1. CASE t = s
      BY <1>2, <1>s, <2>1, MainStepStored, TaskStored
    <2>2. CASE t # s
      <3>1. rec'[t] = rec[t] \/ (Told(t) /\ rec'[t] = out[t])
        BY <1>2, <2>2, RecElsewhere
      <3>2. CASE MainStep(s)
        <4>1. StartTask(s) \/ \E r \in Rec : Decide(s, r)
          BY <3>2, ListParts, MainDecides
        <4>2. phase'[t] = phase[t] /\ out'[t] = out[t]
          BY <4>1, <2>2, <1>t DEF StartTask, Decide
        <4> QED BY <3>1, <4>2, <1>s, <1>t, StoredElsewhere
      <3>3. CASE Task(s)
        <4>1. phase'[t] = phase[t] /\ out'[t] = out[t]
          BY <3>3, <2>2, <1>t, TaskElsewhere
        <4> QED BY <3>1, <4>1, <1>s, <1>t, StoredElsewhere
      <3> QED BY <1>2, <3>2, <3>3
    <2> QED BY <2>1, <2>2
  <1> QED BY <1>1, <1>2, NextCases

------------------------------------------------------------------------------
(* The run around the list: nothing it does to run.json, to the process or to a resumed list  *)
(* disturbs what the list says of itself.                                                      *)

RunTypes == status \in RunStatuses /\ alive \in BOOLEAN /\ resumes \in 0..MaxResumes

RunInv == /\ ListInv /\ StoredInv /\ plan \in Plans /\ RunTypes
          /\ alive => status = "running"
          /\ VerdictIsTrue

\* The list does not depend on what run.json holds.
LEMMA ListIgnoresRecords ==
  ASSUME ListInv, rec' \in [Step -> Rec], flag' \in BOOLEAN,
         UNCHANGED <<frozenVars, phase, out, signal, attempts, stream, stateVars, budget, cancel,
                     mainVars>>
  PROVE  ListInv'
  <1> USE DEF frozenVars, stateVars, mainVars
  <1>1. TypeInv'
    BY DEF ListInv, JoinInv, TypeInv, TypeOK, AttemptsInv
  <1>2. /\ Ready' = Ready /\ Settled' = Settled /\ Running' = Running /\ NoneActive' = NoneActive
        /\ Pending' = Pending
    BY DEF Ready, Pending, Decidable, Settled, Running, NoneActive
  <1>3. StreamInv' /\ RoundInv' /\ LaunchedOnJoin'
    <2>1. StreamInv' /\ RoundInv'
      BY <1>2 DEF ListInv, JoinInv, StreamInv, RoundInv
    <2>2. ASSUME NEW s \in Step, Engaged(s)' PROVE Decidable(s)' /\ Decision(s, FALSE)' = "run"
      <3>1. Engaged(s)
        BY <2>2 DEF Engaged
      <3>2. Decidable(s) /\ Decision(s, FALSE) = "run"
        BY <3>1 DEF ListInv, JoinInv, LaunchedOnJoin
      <3>3. ClassesOf(s)' = ClassesOf(s)
        BY DEF ClassesOf
      <3>4. Decision(s, FALSE)' = Decision(s, FALSE)
        BY <3>3 DEF Decision
      <3> QED BY <3>2, <3>4, <1>2 DEF Decidable
    <2> QED BY <2>1, <2>2 DEF LaunchedOnJoin
  <1>4. CacheInv' /\ OutcomeInv' /\ SentInv'
    BY DEF ListInv, CacheInv, OutcomeInv, Holds, Ended, SentInv
  <1>5. ControlInv' /\ WhyInv'
    BY <1>2 DEF ListInv, ControlInv, WhyInv, SaidAmong, FailedAmong, FailFast
  <1>6. ReasonInv'
    BY <1>2 DEF ListInv, ReasonInv, TrueOf, Ended, SaidAmong, FailedAmong, FailFast
  <1>7. PlaceInv'
    BY <1>2 DEF ListInv, PlaceInv, FailFast
  <1> QED BY <1>1, <1>3, <1>4, <1>5, <1>6, <1>7 DEF ListInv, JoinInv

LEMMA FreshStart == Fresh /\ CacheInv => ListInv
  BY FreshList

\* FreshStart, of the next state.
LEMMA FreshStartNext == Fresh' /\ CacheInv' => ListInv'
  BY FreshStart, PTL

LEMMA MemStored ==
  ASSUME ListInv, StoredInv, Finalize
  PROVE  ListInv' /\ StoredInv'
  <1>t. /\ TypeInv /\ out \in [Step -> Rec] /\ rec \in [Step -> Rec] /\ flag \in BOOLEAN
    BY ListParts, Typed, TypeParts DEF TypeInv, GateTypeOK
  <1>1. \A s \in Step : rec'[s] = IF Told(s) THEN out[s] ELSE rec[s]
    BY DEF Finalize, Mem, Told
  <1>2. rec' \in [Step -> Rec] /\ flag' \in BOOLEAN
    BY <1>t DEF Finalize, Mem
  <1>3. ListInv'
    BY <1>2, ListIgnoresRecords DEF Finalize
  <1>4. ASSUME NEW s \in Step PROVE Stored(s)'
    BY <1>1, <1>t, <1>4, StoredElsewhere DEF Finalize, StoredInv, frozenVars
  <1> QED BY <1>3, <1>4 DEF StoredInv

LEMMA ResumeStored ==
  ASSUME ListInv, StoredInv, plan \in Plans, Resume
  PROVE  ListInv' /\ StoredInv'
  <1>t. plan \in Plan /\ rec \in [Step -> Rec]
    BY ListParts, Typed
  <1>1. Fresh'
    BY <1>t DEF Resume, Fresh
  <1>2. CacheInv'
    BY DEF Resume, CacheInv, StoredInv, Stored, Plain
  <1>3. ListInv'
    BY <1>1, <1>2, FreshStartNext
  <1>4. ASSUME NEW s \in Step PROVE Stored(s)'
    <2>1. rec'[s] = rec[s] /\ cache'[s] = rec[s] /\ phase'[s] = "pending" /\ out'[s] = NoRec
      BY DEF Resume
    <2>2. Plain(rec[s]) /\ Plain(NoRec)
      BY DEF StoredInv, Stored, Plain, NoRec
    <2> QED BY <2>1, <2>2 DEF Stored, Told, Plain, Called, Active
  <1> QED BY <1>3, <1>4 DEF StoredInv

\* Only a run with nothing to hide is called succeeded or cancelled.
LEMMA LadderIsStrict ==
  ASSUME NEW bug \in BOOLEAN, NEW bad \in BOOLEAN, NEW nested \in BOOLEAN,
         NEW stopped \in {"succeeded", "failed", "cancelled"}, GateTypeOK, aborted \in BOOLEAN,
         Verdict(bug, bad, nested, stopped) \in {"succeeded", "cancelled"}
  PROVE  /\ ~budget /\ ~aborted /\ Failures = {} /\ \A s \in Step : signal[s] # "pause"
         /\ Verdict(bug, bad, nested, stopped) = "succeeded" => ~cancel
  <1> DEFINE pausing == \E s \in Step : signal[s] = "pause"
             clean   == Failures = {}
             byStop  == pc = "raised" /\ control.kind = "stop"
  <1>t. budget \in BOOLEAN /\ cancel \in BOOLEAN
    BY DEF GateTypeOK
  <1>1. Verdict(bug, bad, nested, stopped) =
          CASE bug                                                      -> "failed"
            [] ~bug /\ (nested \/ pausing)                              -> "paused"
            [] ~bug /\ ~(nested \/ pausing) /\ aborted                  -> "interrupted"
            [] ~bug /\ ~(nested \/ pausing) /\ ~aborted /\ budget       -> "failed"
            [] ~bug /\ ~(nested \/ pausing) /\ ~aborted /\ ~budget /\ cancel ->
                 IF ~clean THEN "failed" ELSE "cancelled"
            [] OTHER ->
                 IF ~clean THEN "failed"
                 ELSE IF byStop /\ stopped # "succeeded" THEN stopped
                 ELSE IF bad THEN "failed" ELSE "succeeded"
    BY DEF Verdict
  <1> HIDE DEF pausing, clean, byStop
  <1>2. /\ ~bug /\ ~(nested \/ pausing) /\ ~aborted /\ ~budget /\ clean
        /\ Verdict(bug, bad, nested, stopped) = "succeeded" => ~cancel
    BY <1>1, <1>t
  <1> QED BY <1>2 DEF pausing, clean

LEMMA VerdictTrueNext ==
  ASSUME ListInv, plan \in Plans, Finalize
  PROVE  VerdictIsTrue'
  <1> SUFFICES ASSUME status' \in {"succeeded", "cancelled"} PROVE VerdictIsTrue'
    BY DEF VerdictIsTrue, FailureNotLaundered, SuccessIsComplete
  <1>t. GateTypeOK /\ aborted \in BOOLEAN
    BY ListParts, TypeParts DEF TypeInv, MainTypeOK
  <1>1. /\ ~budget /\ ~aborted /\ Failures = {} /\ \A s \in Step : signal[s] # "pause"
        /\ status' = "succeeded" => ~cancel
    BY <1>t, LadderIsStrict DEF Finalize
  <1>2. rec' = Mem /\ UNCHANGED <<out, control, budget, cancel>> /\ pc \in Final
    BY DEF Finalize, stateVars
  <1>3. \A s \in Step : rec'[s].status = "failed" /\ ~rec'[s].tolerated
                           => control = [kind |-> "stop", by |-> s]
    BY <1>1, <1>2 DEF Failures, Untolerated, FailedLike, StopCollateral, CancelCollateral
  <1>4. FailureNotLaundered'
    BY <1>1, <1>2, <1>3 DEF FailureNotLaundered
  <1>5. pc \in {"returned", "raised"}
    BY <1>1, <1>2, ListParts DEF PlaceInv, Final
  <1>6. \A s \in Settled : s \in Step /\ out[s].status \in Terminal
    BY <1>1, ListParts DEF OutcomeInv, Holds, Ended, Ending, Settled
  <1>7. ~paused /\ control.kind # "pause"
    BY <1>1, <1>6, ListParts DEF ControlInv, SaidAmong, Terminal
  <1>8. Settled = Step
    BY <1>5, <1>7, NothingIsLeft
  <1>9. \A s \in Step : rec'[s] = out'[s] /\ rec'[s].status \in Terminal
    BY <1>2, <1>6, <1>8 DEF Mem, Settled
  <1>10. SuccessIsComplete'
    BY <1>1, <1>2, <1>9 DEF SuccessIsComplete
  <1> QED BY <1>4, <1>10 DEF VerdictIsTrue

LEMMA RunInitInv == RunInit => RunInv
  <1> SUFFICES ASSUME RunInit PROVE RunInv
    OBVIOUS
  <1>1. CacheInv
    BY ReasonsAssumption DEF RunInit, Init, CacheInv
  <1>2. ListInv
    BY <1>1, InitFresh, FreshList DEF RunInit
  <1>3. StoredInv
    BY <1>1 DEF RunInit, Init, CacheInv, StoredInv, Stored, Told, Plain, NoRec, Called, Active
  <1>4. RunTypes /\ VerdictIsTrue
    BY ResumesAssumption DEF RunInit, RunTypes, RunStatuses, VerdictIsTrue, FailureNotLaundered,
                             SuccessIsComplete
  <1> QED BY <1>2, <1>3, <1>4 DEF RunInit, Init, RunInv

LEMMA GraphIsNext == Graph => [Next]_vars /\ UNCHANGED runVars
  BY DEF Graph, Next

LEMMA RunInvKept ==
  ASSUME RunInv, [RunNext]_allVars
  PROVE  RunInv'
  <1>h. /\ ListInv /\ StoredInv /\ plan \in Plans /\ RunTypes /\ VerdictIsTrue
        /\ alive => status = "running"
    BY DEF RunInv
  <1>p. ASSUME [Next]_vars PROVE ListInv' /\ StoredInv' /\ plan' \in Plans
    BY <1>h, <1>p, ListKept, StoredKept, FrozenKept DEF frozenVars
  <1>v. ASSUME status' = "running" PROVE VerdictIsTrue'
    BY <1>v DEF VerdictIsTrue, FailureNotLaundered, SuccessIsComplete
  <1>1. CASE Graph
    <2>1. [Next]_vars /\ status' = status /\ alive' = alive /\ resumes' = resumes /\ alive
      BY <1>1, GraphIsNext DEF Graph, runVars
    <2>2. VerdictIsTrue' /\ RunTypes'
      BY <2>1, <1>h, <1>v DEF RunTypes
    <2> QED BY <2>1, <2>2, <1>h, <1>p DEF RunInv
  <1>2. CASE Finalize
    <2>1. PICK bug, bad, nested \in BOOLEAN, stopped \in {"succeeded", "failed", "cancelled"} :
            status' = Verdict(bug, bad, nested, stopped)
      BY <1>2 DEF Finalize
    <2>2. status' \in RunStatuses
      BY <2>1, Zenon DEF Verdict, RunStatuses
    <2>3. alive' = FALSE /\ resumes' = resumes /\ plan' = plan
      BY <1>2 DEF Finalize, frozenVars
    <2>4. RunTypes'
      BY <2>2, <2>3, <1>h DEF RunTypes
    <2> QED BY <1>2, <1>h, <2>3, <2>4, MemStored, VerdictTrueNext DEF RunInv
  <1>3. CASE Crash
    <2>1. UNCHANGED vars /\ alive' = FALSE /\ alive /\ status' = status /\ resumes' = resumes
      BY <1>3 DEF Crash
    <2>2. VerdictIsTrue' /\ RunTypes'
      BY <2>1, <1>h, <1>v DEF RunTypes
    <2> QED BY <2>1, <2>2, <1>p DEF RunInv
  <1>4. CASE Resume
    <2>1. status' = "running" /\ alive' = TRUE /\ resumes' = resumes + 1 /\ plan' = plan
          /\ resumes < MaxResumes
      BY <1>4 DEF Resume
    <2>2. RunTypes' /\ VerdictIsTrue'
      BY <2>1, <1>h, <1>v, ResumesAssumption DEF RunTypes, RunStatuses
    <2> QED BY <1>4, <1>h, <2>1, <2>2, ResumeStored DEF RunInv
  <1>5. CASE RunOver \/ UNCHANGED allVars
    <2>1. UNCHANGED vars /\ UNCHANGED <<status, alive, resumes>>
      BY <1>5 DEF RunOver, allVars, runVars
    <2>2. RunTypes' /\ (alive' => status' = "running")
      BY <2>1, <1>h DEF RunTypes
    <2>3. VerdictIsTrue'
      BY <2>1, <1>h DEF VerdictIsTrue, FailureNotLaundered, SuccessIsComplete, vars, frozenVars,
                        taskVars, stateVars, gateVars
    <2> QED BY <2>1, <2>2, <2>3, <1>p DEF RunInv
  <1> QED BY <1>1, <1>2, <1>3, <1>4, <1>5 DEF RunNext

\* Every state of a run, with its crashes and resumes, satisfies the inductive invariant the theorems
\* below follow from.
THEOREM RunInvariant == RunSpec => []RunInv
  BY RunInitInv, RunInvKept, PTL DEF RunSpec

\* What run.json says of a run that ended is true of its steps, whatever its plan, after any
\* number of crashes and resumes.
THEOREM VerdictsAreTrue == RunSpec => []VerdictIsTrue
  <1>1. RunInv => VerdictIsTrue
    BY DEF RunInv
  <1> QED BY <1>1, RunInvariant, PTL

\* What may replace the record of a step that succeeded.
Replaced(s, r) ==
  \/ r.status = "skipped" /\ r.why \in SkipReasons \union {"stopped"}
  \/ s \in plan.when /\ r \in {Outcome("skipped", "when_false"), Finalized(s, Failure("machine"))}
  \/ r.error = "persist"

\* The record of a step that succeeded answers for it until the step is told again.
LEMMA SuccessStands ==
  ASSUME NEW s \in Step, Stored(s), Replayable(s)
  PROVE  /\ phase[s] \notin Called
         /\ phase[s] \in {"pending", "launched"} => rec[s] = cache[s] /\ CanReuse(s)
         /\ phase[s] = "ending" => rec[s] = cache[s] /\ out[s] = cache[s] /\ CanReuse(s)
         /\ Told(s) => out[s] = rec[s] \/ Replaced(s, out[s])
  BY DEF Stored, Replayable, CanReuse, Replaced, Told

\* Its own task replays the record, or leaves it as it is.
LEMMA TaskKeepsSuccess ==
  ASSUME ListInv, NEW s \in Step, Stored(s), Replayable(s), Task(s)
  PROVE  rec'[s] = rec[s]
  <1>t. TypeInv /\ phase[s] \in Active
    BY ListParts, TaskElsewhere
  <1>1. phase[s] \in {"launched", "ending"} /\ rec[s] = cache[s] /\ CanReuse(s)
    BY <1>t, SuccessStands DEF Called
  <1>2. CASE Finish(s)
    <2>1. rec'[s] = Finalized(s, out[s]) /\ phase[s] = "ending"
      BY <1>2, <1>t, SaveRecords DEF Finish
    <2> QED BY <2>1, <1>1, <1>t, SuccessStands, ReusedAsIs
  <1>3. CASE FinishFails(s)
    <2>1. phase[s] = "ending" /\ (rec' = rec \/ Save(s, Finalized(s, out[s])))
      BY <1>3 DEF FinishFails
    <2>2. CASE Save(s, Finalized(s, out[s]))
      <3>1. rec'[s] = Finalized(s, out[s])
        BY <2>2, <1>t, SaveRecords
      <3> QED BY <3>1, <2>1, <1>1, <1>t, SuccessStands, ReusedAsIs
    <2> QED BY <2>1, <2>2
  <1>4. CASE Replay(s) \/ Cancelled(s)
    BY <1>4 DEF Replay, Cancelled, End
  <1>5. CASE Waits(s)
    BY <1>5, ListParts, WaitsGoOn DEF GoesOn
  <1> QED BY <1>1, <1>2, <1>3, <1>4, <1>5 DEF Task, Waits, Begin, LeafAttempt, Cleared, LeafRefused,
       LeafUnpaid, LeafSucceeds, LeafFails, GateEnds, StopEnds, CompositeEnds

\* The main task replays the record too, unless the join, a wind-down or the step's own when:
\* decides otherwise.
LEMMA MainStepKeepsSuccess ==
  ASSUME ListInv, NEW s \in Step, Stored(s), Replayable(s), MainStep(s)
  PROVE  rec'[s] = rec[s] \/ Replaced(s, rec'[s])
  <1>t. TypeInv /\ s \in Ready /\ phase[s] = "pending" /\ PlaceInv
    BY ListParts, MainDecides DEF Ready, Pending
  <1>1. rec[s] = cache[s] /\ CanReuse(s)
    BY <1>t, SuccessStands
  <1>2. ASSUME NEW r, Decide(s, r) PROVE rec'[s] = Finalized(s, r)
    BY <1>2, <1>t, SaveRecords DEF Decide
  <1>3. ASSUME NEW why, Decide(s, Outcome("skipped", why))
        PROVE  rec'[s] = Outcome("skipped", why)
    BY <1>2, <1>3 DEF Finalized, Outcome
  <1>4. \A why \in SkipReasons \union {"stopped"} : Replaced(s, Outcome("skipped", why))
    BY DEF Replaced, Outcome
  <1>5. CASE DecideGated(s)
    BY <1>1, <1>2, <1>5, <1>t, ReusedAsIs DEF DecideGated
  <1>6. CASE DecideJoin(s)
    <2> DEFINE decision == Decision(s, draining \/ control.kind # "none")
    <2>1. decision \in SkipReasons /\ Decide(s, Outcome("skipped", decision))
      BY <1>6, DecisionType DEF DecideJoin
    <2> HIDE DEF decision
    <2> QED BY <2>1, <1>3, <1>4
  <1>7. CASE WindDownSkip(s)
    <2> DEFINE decision  == Decision(s, TRUE)
               explained == wd # "stopped" /\ decision # "run_failed"
               why       == IF explained THEN decision ELSE wd
    <2>1. decision \in SkipReasons /\ Decide(s, Outcome("skipped", why)) /\ pc = "wd_decide"
      BY <1>7, DecisionType DEF WindDownSkip
    <2>2. wd \in {"stopped", "run_failed"}
      BY <2>1, <1>t, TypeParts DEF TypeInv, MainTypeOK, PlaceInv
    <2>3. why \in SkipReasons \union {"stopped"}
      BY <2>1, <2>2 DEF SkipReasons
    <2> HIDE DEF why
    <2> QED BY <2>1, <2>3, <1>3, <1>4
  <1>8. CASE DecideWhen(s) \/ WindDownWhen(s)
    <2>1. /\ s \in plan.when
          /\ Decide(s, Outcome("skipped", "when_false")) \/ Decide(s, Failure("machine"))
      BY <1>8 DEF DecideWhen, WindDownWhen, WhenRefuses
    <2>2. rec'[s] \in {Outcome("skipped", "when_false"), Finalized(s, Failure("machine"))}
      BY <2>1, <1>2, <1>3
    <2> QED BY <2>1, <2>2 DEF Replaced
  <1>9. CASE Launch(s) \/ WindDownLaunch(s)
    BY <1>9 DEF Launch, WindDownLaunch, StartTask
  <1> QED BY <1>5, <1>6, <1>7, <1>8, <1>9 DEF MainStep

LEMMA RunKeepsSuccess ==
  ASSUME RunInv, [RunNext]_allVars, NEW s \in Step, Replayable(s), rec'[s] # rec[s]
  PROVE  Replaced(s, rec'[s])
  <1>h. ListInv /\ Stored(s)
    BY DEF RunInv, StoredInv
  <1>k. Told(s) /\ rec'[s] = out[s] => Replaced(s, rec'[s])
    BY <1>h, SuccessStands
  <1>1. CASE Graph
    <2>1. [Next]_vars
      BY <1>1, GraphIsNext
    <2>2. ASSUME Quiet PROVE FALSE
      BY <2>2, QuietKeepsRecords
    <2>3. ASSUME NEW t \in Step, t # s, MainStep(t) \/ Task(t) PROVE Replaced(s, rec'[s])
      BY <2>3, <1>h, <1>k, RecElsewhere
    <2>4. CASE MainStep(s) \/ Task(s)
      BY <2>4, <1>h, MainStepKeepsSuccess, TaskKeepsSuccess
    <2> QED BY <2>1, <2>2, <2>3, <2>4, NextCases
  <1>2. CASE Finalize
    <2>1. rec'[s] = IF Told(s) THEN out[s] ELSE rec[s]
      BY <1>2 DEF Finalize, Mem, Told
    <2> QED BY <2>1, <1>k
  <1>3. CASE Crash \/ Resume \/ RunOver \/ UNCHANGED allVars
    BY <1>3 DEF Crash, Resume, RunOver, allVars, vars, taskVars
  <1> QED BY <1>1, <1>2, <1>3 DEF RunNext

\* In a run of any steps, crashed and resumed any number of times, the record of a step that
\* succeeded is replaced by nothing but what SuccessLostOnlyToFailure names.
THEOREM RunsKeepSuccess == RunSpec => SuccessLostOnlyToFailure
  <1>1. RunInv /\ [RunNext]_allVars =>
          [\A s \in Step : Replayable(s) /\ rec'[s] # rec[s] =>
             \/ rec'[s].status = "skipped" /\ rec'[s].why \in SkipReasons \union {"stopped"}
             \/ s \in plan.when /\ rec'[s] \in {Outcome("skipped", "when_false"),
                                              Finalized(s, Failure("machine"))}
             \/ rec'[s].error = "persist"]_allVars
    BY RunKeepsSuccess DEF Replaced
  <1> QED BY <1>1, RunInvariant, PTL DEF RunSpec, SuccessLostOnlyToFailure
==============================================================================
