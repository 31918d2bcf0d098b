------------------------------- MODULE Limits -------------------------------
(***************************************************************************)
(* A run under the operator's limits (cli/commands/run.py,                 *)
(* cli/_runs_common.py resume_run): it takes its slots, executes against   *)
(* the spend ledger and gives the slots back, however it ends.             *)
(***************************************************************************)
EXTENDS RunSlots, SpendLedger

CONSTANT Policies \* the demands and envelopes that go together

VARIABLE deaths   \* history: runs killed so far

ASSUME PolicyAssumption == Policies \subseteq Demands \X Caps

vars == <<slotVars, ledgerVars, deaths>>

Init == SlotInit /\ LedgerInit /\ <<demand, caps>> \in Policies /\ deaths = 0

\* Before and after the block only the slots change; a resume comes back for them.
Queue(r) ==
  /\ \/ Enter(r) /\ Resumable(r)
     \/ Acquiring(r) \/ SlotError(r) \/ GiveBack(r)
  /\ UNCHANGED <<ledgerVars, deaths>>

\* A run without any ceiling has no envelope.
Governed == Spends \/ caps.streak # Uncapped

\* Inside the block the runner starts once and works.
Execute(r) ==
  /\ stage[r] = "inside" /\ Governed
  /\ Begin(r) \/ LedgerStep(r)
  /\ UNCHANGED <<slotVars, deaths>>

\* The end of the block: the run's record is saved, or the engine refused it, and the slots go.
EndOfBlock(r) ==
  /\ LeaveBlock(r) /\ UNCHANGED deaths
  /\ Finish(r) \/ (act[r][0] = "none" /\ status[r] # "live" /\ UNCHANGED ledgerVars)

Crash(r) ==
  /\ SlotCrash(r)
  /\ IF status[r] = "live" \/ act[r][0] # "none"
       THEN LedgerCrash(r) /\ deaths' = deaths + 1
       ELSE UNCHANGED <<ledgerVars, deaths>>

Tomorrow == Midnight /\ UNCHANGED <<slotVars, deaths>>

Next == Tomorrow \/ \E r \in Run : Queue(r) \/ Execute(r) \/ EndOfBlock(r) \/ Crash(r)

Spec == Init /\ [][Next]_vars

------------------------------------------------------------------------------

TypeOK == SlotTypeOK /\ LedgerTypeOK /\ deaths \in Nat

\* Every run is limited to w slots of provider p.
Shared(p, w) == \A r \in Run : p \in Capped(r) /\ demand[r].limit[p] <= w

\* Runs of one provider that race past a daily ceiling overshoot it by no more than the leaves they
\* had under way: as many runs as there are slots, and what killed runs had spent and not booked.
\* On top of that comes only what their checks could not see: what a total that landed late took
\* back, earlier attempts while a step is tried again, and leaves that start without a check, or
\* on one of the day before.  A ceiling of zero is never passed.  Unless somebody approved a run
\* that had stopped on money.
OvershootIsBounded ==
  (caps.day # Uncapped /\ ~excused) =>
    \A p \in Provider, w \in 0..MaxSlot : Shared(p, w) =>
      book.day[today] <= IF caps.day = 0 THEN 0
                         ELSE caps.day + (w + deaths) * (Parallel * MaxCost) + SumFunction(extra)
==============================================================================
