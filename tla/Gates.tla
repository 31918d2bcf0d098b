-------------------------------- MODULE Gates --------------------------------
(***************************************************************************)
(* The approve: gates of one run and its one decision slot, run.pause,     *)
(* across the processes that run it: start, pause, rayspec approve or      *)
(* reject, resume, crash (executors/approve.py, Runner._prepare_record,    *)
(* _consume_envelope_decision and _finalize, cli/commands/approve.py).     *)
(*                                                                         *)
(* run is the RunRecord in memory and file is run.json: every save writes  *)
(* all of it.  The other steps of the run are the environment: they fail,  *)
(* they save, they spend what trips an operator's ceiling.                 *)
(***************************************************************************)
EXTENDS Naturals

CONSTANTS
  Gate,       \* the gates of the run
  TtyOnly,    \* those whose approval class requires a terminal
  MaxAttempts \* the bound on the attempts of one gate over all processes

Nil     == "nil"
Ceiling == "ceiling"

ASSUME GatesAssumption    == TtyOnly \subseteq Gate /\ Gate \intersect {Nil, Ceiling} = {}
ASSUME AttemptsAssumption == MaxAttempts \in Nat \ {0}

VARIABLES
  run,      \* the run's record in memory
  file,     \* run.json
  live,     \* a process runs it
  mode,     \* "tty": it may prompt; "yes": --yes; "headless": neither
  pc,       \* where each gate's run_approve is
  got,      \* the stored answer run_approve has read, before it acts on it
  lock,     \* the holder of the approval lock
  pausedAt, \* ctx.paused: the gate whose pause was recorded first
  signals,  \* the gates whose outcome carries a pause or the stop of a rejection
  ceiling,  \* ctx.envelope_pause: an operator's ceiling was reached
  failed,   \* some step of the run failed
  cut,      \* the process was interrupted
  stopping, \* running steps are being cancelled
  answered  \* history: the <<gate, attempt>> pairs somebody, or --yes, answered

procVars == <<mode, pc, got, lock, pausedAt, signals, ceiling, failed, cut, stopping>>
vars     == <<run, file, live, procVars, answered>>

Answers == {"none", "yes", "no"}

\* "open": no record yet, or one that is running, skipped or interrupted.  kept: it was saved
\* together with its output, which is what makes it reusable.
GateRec  == [status: {"open", "paused", "succeeded", "rejected", "failed"},
             attempts: 0..MaxAttempts, kept: BOOLEAN]
Slot     == [gate: Gate \union {Nil, Ceiling}, attempt: 0..MaxAttempts, answer: Answers]
RunRec   == [status: {"new", "running", "paused", "succeeded", "failed", "cancelled",
                      "interrupted"},
             reason: {"none", "gate", "ceiling"}, gates: [Gate -> GateRec], pause: Slot]

NoPause      == [gate |-> Nil, attempt |-> 0, answer |-> "none"]
CeilingPause == [NoPause EXCEPT !.gate = Ceiling]

Pcs == {"idle", "begun", "read", "locking", "asking", "ending", "settled"}

TypeOK ==
  /\ run \in RunRec /\ file \in RunRec /\ live \in BOOLEAN
  /\ mode \in {"tty", "yes", "headless"}
  /\ pc \in [Gate -> Pcs] /\ got \in [Gate -> Answers]
  /\ lock \in Gate \union {Nil} /\ pausedAt \in Gate \union {Nil}
  /\ signals \subseteq Gate /\ ceiling \in BOOLEAN /\ failed \in BOOLEAN
  /\ cut \in BOOLEAN /\ stopping \in BOOLEAN
  /\ answered \subseteq Gate \X (1..MaxAttempts)

Init ==
  /\ run = [status |-> "new", reason |-> "none", pause |-> NoPause,
            gates |-> [g \in Gate |-> [status |-> "open", attempts |-> 0, kept |-> FALSE]]]
  /\ file = run /\ live = FALSE /\ mode = "headless"
  /\ pc = [g \in Gate |-> "idle"] /\ got = [g \in Gate |-> "none"]
  /\ lock = Nil /\ pausedAt = Nil /\ signals = {}
  /\ ceiling = FALSE /\ failed = FALSE /\ cut = FALSE /\ stopping = FALSE
  /\ answered = {}

------------------------------------------------------------------------------
(* The commands *)

\* What a new process knows; of a process that has ended nothing is left.
Memory(m) ==
  /\ mode' = m /\ pc' = [g \in Gate |-> "idle"] /\ got' = [g \in Gate |-> "none"]
  /\ lock' = Nil /\ pausedAt' = Nil /\ signals' = {}
  /\ ceiling' = FALSE /\ failed' = FALSE /\ cut' = FALSE /\ stopping' = FALSE

\* run, resume, and the resume inside approve and reject: a ceiling's pause is consumed once the
\* record is saved, a gate's pause stays in the slot.  resume without a terminal exits at an undecided gate.
Start(m) ==
  LET pause == file.pause IN
    /\ ~live /\ file.status \in {"new", "running", "paused", "failed", "interrupted"}
    /\ ~(m = "headless" /\ file.status = "paused" /\ pause.gate \in Gate
           /\ pause.answer = "none")
    /\ live' = TRUE /\ Memory(m)
    /\ file' = [file EXCEPT !.status = "running", !.reason = "none"]
    /\ run' = [file' EXCEPT !.pause = IF @.gate = Ceiling THEN NoPause ELSE @]
    /\ UNCHANGED answered

\* record_decision: only a paused run takes one.
Answer(answer) ==
  /\ ~live /\ file.status = "paused" /\ file.pause # NoPause
  /\ file' = [file EXCEPT !.pause.answer = answer]
  /\ answered' = IF file.pause.gate \in Gate
                 THEN answered \union {<<file.pause.gate, file.pause.attempt>>} ELSE answered
  /\ UNCHANGED <<run, live, procVars>>

------------------------------------------------------------------------------
(* The scheduler, as a gate sees it *)

frame(g) == UNCHANGED <<live, mode, ceiling, cut>>

Goto(g, to)   == pc' = [pc EXCEPT ![g] = to]
Reusable(g)   == run.gates[g].status = "succeeded" /\ run.gates[g].kept
Become(r, g, status) == [r EXCEPT !.gates[g].status = status, !.gates[g].kept = FALSE]

\* try_reuse: an answered gate of an earlier process is replayed, also under a ceiling.
Replay(g) ==
  /\ ~stopping /\ pc[g] = "idle" /\ Reusable(g)
  /\ Goto(g, "settled")
  /\ UNCHANGED <<run, file, got, lock, pausedAt, signals, failed, stopping, answered>> /\ frame(g)

Launch(g) ==
  /\ ~stopping /\ pc[g] = "idle" /\ ~Reusable(g) /\ ~ceiling
  /\ run' = Become(run, g, "open") /\ file' = run'
  /\ Goto(g, "begun")
  /\ UNCHANGED <<got, lock, pausedAt, signals, failed, stopping, answered>> /\ frame(g)

\* A failed need or a drain, a ceiling, or the wind-down of a rejected run.
Skip(g) ==
  /\ pc[g] = "idle"
  /\ \/ failed /\ ~stopping
     \/ ceiling /\ ~stopping /\ ~Reusable(g)
     \/ stopping /\ ~cut /\ pausedAt = Nil
  /\ run' = Become(run, g, "open") /\ file' = run'
  /\ Goto(g, "settled")
  /\ UNCHANGED <<got, lock, pausedAt, signals, failed, stopping, answered>> /\ frame(g)

\* finish: the record and its output are persisted, or they cannot be; the failure of the gate
\* that stops or pauses the run is not held against the run.
Persist(g) ==
  /\ pc[g] = "ending" /\ Goto(g, "settled")
  /\ \/ /\ run' = [run EXCEPT !.gates[g].kept = run.gates[g].status = "succeeded"]
        /\ file' = run' /\ UNCHANGED failed
     \/ /\ run' = Become(run, g, "failed")
        /\ failed' = (failed \/ g \notin signals) /\ UNCHANGED file
  /\ UNCHANGED <<got, lock, pausedAt, signals, stopping, answered>> /\ frame(g)

\* The main task receives a pause or a rejection and cancels what still runs.
Teardown ==
  /\ live /\ ~stopping
  /\ \E g \in signals : pc[g] = "settled"
  /\ stopping' = TRUE
  /\ UNCHANGED <<run, file, live, mode, pc, got, lock, pausedAt, signals, ceiling, failed,
                 cut, answered>>

------------------------------------------------------------------------------
(* run_approve *)

Unlocked(g) == IF lock = g THEN Nil ELSE lock

Unrenderable(g) ==
  /\ pc[g] = "begun" /\ run.gates[g].attempts < MaxAttempts
  /\ run' = [Become(run, g, "failed") EXCEPT !.gates[g].attempts = @ + 1]
  /\ failed' = TRUE /\ Goto(g, "ending")
  /\ UNCHANGED <<file, got, lock, pausedAt, signals, stopping, answered>> /\ frame(g)

\* Mutant: a decision is matched by its gate alone, not by its attempt.
StoredForAny(g) ==
  IF run.pause.gate = g /\ ~(run.pause.answer = "yes" /\ g \in TtyOnly)
  THEN run.pause.answer ELSE "none"

\* stored_decision: the answer in the slot, if it is for this gate and this attempt; a class
\* that requires a terminal drops an approval, never a rejection.
Stored(g) ==
  IF /\ run.pause.gate = g /\ run.pause.attempt = run.gates[g].attempts
     /\ ~(run.pause.answer = "yes" /\ g \in TtyOnly)
  THEN run.pause.answer ELSE "none"

\* The answer is read, then the acting identity is looked up on another thread.
Read(g) ==
  /\ pc[g] = "begun"
  /\ got' = [got EXCEPT ![g] = Stored(g)]
  /\ Goto(g, "read")
  /\ UNCHANGED <<run, file, lock, pausedAt, signals, failed, stopping, answered>> /\ frame(g)

\* Mutant: any decision clears the slot, whoever owns it.
DecidedClearing(r, g, status) == [Become(r, g, status) EXCEPT !.pause = NoPause]

\* A decision clears the slot if this gate owns it.
Decided(r, g, status) ==
  [Become(r, g, status) EXCEPT !.pause = IF r.pause.gate = g THEN NoPause ELSE r.pause]

\* on_reject is cancel, continue or fail.
Outcomes(answer) == IF answer = "yes" THEN {"succeeded"} ELSE {"rejected", "succeeded", "failed"}

Decide(g, answer) ==
  \E status \in Outcomes(answer) :
    /\ run' = Decided(run, g, status) /\ failed' = (failed \/ status = "failed")
    /\ signals' = IF status = "rejected" THEN signals \union {g} ELSE signals

Consume(g) ==
  /\ pc[g] = "read" /\ got[g] # "none" /\ Decide(g, got[g])
  /\ got' = [got EXCEPT ![g] = "none"]
  /\ Goto(g, "ending")
  /\ UNCHANGED <<file, lock, pausedAt, stopping, answered>> /\ frame(g)

\* No stored answer: a new attempt, which --yes answers unless the class forbids it.
NewAttempt(g) ==
  /\ pc[g] = "read" /\ got[g] = "none" /\ run.gates[g].attempts < MaxAttempts
  /\ LET next == [run EXCEPT !.gates[g].attempts = @ + 1] IN
       IF mode = "yes" /\ g \notin TtyOnly
       THEN /\ run' = Decided(next, g, "succeeded") /\ Goto(g, "ending")
            /\ answered' = answered \union {<<g, next.gates[g].attempts>>}
       ELSE run' = next /\ Goto(g, "locking") /\ UNCHANGED answered
  /\ UNCHANGED <<file, got, lock, pausedAt, signals, failed, stopping>> /\ frame(g)

Lock(g) ==
  /\ pc[g] = "locking" /\ lock = Nil
  /\ lock' = g /\ Goto(g, "asking")
  /\ UNCHANGED <<run, file, got, pausedAt, signals, failed, stopping, answered>> /\ frame(g)

\* The operator answers the prompt.
Prompt(g) ==
  /\ pc[g] = "asking" /\ mode = "tty"
  /\ \E answer \in {"yes", "no"} : Decide(g, answer)
  /\ answered' = answered \union {<<g, run.gates[g].attempts>>}
  /\ lock' = Nil /\ Goto(g, "ending")
  /\ UNCHANGED <<file, got, pausedAt, stopping>> /\ frame(g)

PauseOf(r, g) == [gate |-> g, attempt |-> r.gates[g].attempts, answer |-> "none"]

\* The first pause of a process owns the slot.
SlotPaused(r, g) == [r EXCEPT !.pause = IF pausedAt # Nil THEN @ ELSE PauseOf(r, g)]

\* _pause: nobody to ask, or the operator pauses.  The save can be cut short, or fail: the gate
\* is then a failed step without a signal, and the run is still pausing.
Pause(g) ==
  /\ pc[g] = "asking"
  /\ pausedAt' = IF pausedAt = Nil THEN g ELSE pausedAt
  /\ \/ /\ run' = SlotPaused(Become(run, g, "paused"), g) /\ file' \in {file, run'}
        /\ signals' = signals \union {g} /\ UNCHANGED failed
     \/ /\ run' = SlotPaused(Become(run, g, "failed"), g) /\ UNCHANGED file
        /\ failed' = TRUE /\ UNCHANGED signals
  /\ lock' = Nil /\ Goto(g, "ending")
  /\ UNCHANGED <<got, stopping, answered>> /\ frame(g)

Cut(g) ==
  /\ stopping /\ pc[g] \in {"begun", "read", "locking", "asking"}
  /\ run' = Become(run, g, "open")
  /\ lock' = Unlocked(g) /\ Goto(g, "ending") /\ got' = [got EXCEPT ![g] = "none"]
  /\ UNCHANGED <<file, pausedAt, signals, failed, stopping, answered>> /\ frame(g)

------------------------------------------------------------------------------
(* The rest of the run *)

World ==
  /\ live
  /\ \/ file # run /\ file' = run /\ UNCHANGED <<ceiling, failed, cut, stopping>>
     \/ ~ceiling /\ ceiling' = TRUE /\ UNCHANGED <<file, failed, cut, stopping>>
     \/ ~failed /\ failed' = TRUE /\ UNCHANGED <<file, ceiling, cut, stopping>>
     \/ ~cut /\ cut' = TRUE /\ stopping' = TRUE /\ UNCHANGED <<file, ceiling, failed>>
  /\ UNCHANGED <<run, live, mode, pc, got, lock, pausedAt, signals, answered>>

\* The status ladder of _finalize.
FinalStatus ==
  IF pausedAt # Nil THEN "paused"
  ELSE IF cut THEN "interrupted"
  ELSE IF ceiling THEN "paused"
  ELSE IF failed THEN "failed"
  ELSE IF signals # {} THEN "cancelled" ELSE "succeeded"

FinalReason == IF pausedAt # Nil THEN "gate"
               ELSE IF FinalStatus = "paused" THEN "ceiling" ELSE "none"

\* The run ends when every gate has ended, or was never decided because the run was cut or
\* paused.  The slot goes to the ceiling if nothing is in it.
Finalize ==
  /\ live
  /\ \A g \in Gate : \/ pc[g] = "settled"
                     \/ pc[g] = "idle" /\ stopping /\ (cut \/ pausedAt # Nil)
  /\ run' = [run EXCEPT !.status = FinalStatus, !.reason = FinalReason,
                        !.pause = IF ceiling /\ @ = NoPause THEN CeilingPause ELSE @]
  /\ file' = run' /\ live' = FALSE /\ Memory("headless")
  /\ UNCHANGED answered

Crash ==
  /\ live /\ live' = FALSE /\ run' = file /\ Memory("headless")
  /\ UNCHANGED <<file, answered>>

GateStep(g) ==
  /\ live
  /\ \/ Replay(g) \/ Launch(g) \/ Skip(g) \/ Persist(g) \/ Unrenderable(g) \/ Read(g)
     \/ Consume(g) \/ NewAttempt(g) \/ Lock(g) \/ Prompt(g) \/ Pause(g) \/ Cut(g)

Next == \/ \E m \in {"tty", "yes", "headless"} : Start(m)
        \/ \E answer \in {"yes", "no"} : Answer(answer)
        \/ \E g \in Gate : GateStep(g)
        \/ Teardown \/ World \/ Finalize \/ Crash

Spec == Init /\ [][Next]_vars

------------------------------------------------------------------------------

\* Nobody passes a gate unasked: a gate that run.json says succeeded was answered at the very
\* attempt the record carries - an answer meant for an earlier attempt never opens it.
NoGateOpensUnanswered ==
  \A g \in Gate : file.gates[g].status = "succeeded"
                    => <<g, file.gates[g].attempts>> \in answered

\* A run that says it awaits approval can be answered: the slot names a gate, at the attempt
\* its record carries, so the resumed gate will take the answer.
PausedRunIsAnswerable ==
  ~live /\ file.status = "paused" /\ file.reason = "gate"
    => file.pause.gate \in Gate /\ file.pause.attempt = file.gates[file.pause.gate].attempts

==============================================================================
