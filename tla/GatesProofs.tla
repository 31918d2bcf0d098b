----------------------------- MODULE GatesProofs -----------------------------
(***************************************************************************)
(* For any set of gates, of terminal-only gates and of attempts, over any  *)
(* number of processes, crashes and lost saves: nobody passes a gate that  *)
(* was not answered at the attempt on record, and a run that pauses for a  *)
(* gate can be answered.  For any policy files, agents and blocks: an      *)
(* option widens nothing a control narrowed, and a file only restricts.    *)
(***************************************************************************)
EXTENDS GovernedRun, TLAPS

\* A record tells the truth: what it lets pass, and what its slot holds, was answered.
Honest(r) ==
  /\ \A g \in Gate : r.gates[g].status = "succeeded" => <<g, r.gates[g].attempts>> \in answered
  /\ r.pause.gate \in Gate =>
       /\ r.pause.attempt >= 1
       /\ r.pause.answer # "none" => <<r.pause.gate, r.pause.attempt>> \in answered

\* A gate at work has an open record, and asks at an attempt of its own; the answer it has read
\* is the answer to the attempt it is at.
WorkInv ==
  \A g \in Gate :
    /\ pc[g] \in {"begun", "read", "locking", "asking"} => run.gates[g].status = "open"
    /\ pc[g] \in {"locking", "asking"} => run.gates[g].attempts >= 1
    /\ got[g] # "none" => pc[g] = "read" /\ <<g, run.gates[g].attempts>> \in answered

\* The slot stays with the gate that paused first, which has stopped working.
PauseInv ==
  pausedAt # Nil =>
    /\ pc[pausedAt] \in {"ending", "settled"}
    /\ run.pause.gate = pausedAt
    /\ run.pause.attempt = run.gates[pausedAt].attempts

\* While a process runs, no record says that the run has paused.
LiveInv == live => run.status = "running" /\ file.status = "running"

GatesInv ==
  /\ TypeOK /\ Honest(run) /\ Honest(file) /\ WorkInv /\ PauseInv /\ LiveInv
  /\ PausedRunIsAnswerable

LEMMA GatesInit == Init => GatesInv
<1> SUFFICES ASSUME Init PROVE GatesInv
  OBVIOUS
<1>1. Nil \notin Gate
  BY GatesAssumption
<1>2. NoPause \in Slot /\ NoPause.gate = Nil
  BY AttemptsAssumption DEF NoPause, Slot, Answers
<1>3. /\ run \in RunRec /\ run.status = "new" /\ run.pause = NoPause
      /\ \A g \in Gate : run.gates[g].status = "open"
  BY <1>2, AttemptsAssumption DEF Init, RunRec, GateRec
<1>4. TypeOK
  BY <1>3 DEF Init, TypeOK, Pcs, Answers
<1>5. QED
  BY <1>1, <1>2, <1>3, <1>4
     DEF Init, GatesInv, Honest, WorkInv, PauseInv, LiveInv, PausedRunIsAnswerable

(***************************************************************************)
(* What the operators on a record leave of it.                             *)
(***************************************************************************)
Statuses == {"open", "paused", "succeeded", "rejected", "failed"}

LEMMA BecomeFields ==
  ASSUME NEW r \in RunRec, NEW g \in Gate, NEW s \in Statuses
  PROVE  /\ Become(r, g, s) \in RunRec
         /\ Become(r, g, s).status = r.status /\ Become(r, g, s).reason = r.reason
         /\ Become(r, g, s).pause = r.pause
         /\ Become(r, g, s).gates[g].status = s
         /\ Become(r, g, s).gates[g].attempts = r.gates[g].attempts
         /\ \A h \in Gate \ {g} : Become(r, g, s).gates[h] = r.gates[h]
<1> DEFINE rec   == [status |-> s, attempts |-> r.gates[g].attempts, kept |-> FALSE]
           gates == [r.gates EXCEPT ![g] = rec]
<1>1. r.gates \in [Gate -> GateRec] /\ r.gates[g] \in GateRec
  BY DEF RunRec
<1>2. rec \in GateRec
  BY <1>1 DEF GateRec, Statuses
<1> DEFINE once  == [r.gates EXCEPT ![g] = [@ EXCEPT !.status = s]]
           first == [r EXCEPT !.gates = once]
<1>3. once \in [Gate -> GateRec] /\ gates = [once EXCEPT ![g] = [@ EXCEPT !.kept = FALSE]]
  BY <1>1 DEF GateRec, Statuses
<1>4. Become(r, g, s) = [r EXCEPT !.gates = gates]
  <2>1. Become(r, g, s) = [first EXCEPT !.gates[g].kept = FALSE]
    BY DEF Become, RunRec
  <2>2. first.gates = once
    BY DEF RunRec
  <2>3. [first EXCEPT !.gates[g].kept = FALSE]
          = [first EXCEPT !.gates = [once EXCEPT ![g] = [@ EXCEPT !.kept = FALSE]]]
    BY <2>2
  <2> HIDE DEF once, gates
  <2>4. QED
    BY <1>3, <2>1, <2>3 DEF RunRec
<1>5. gates \in [Gate -> GateRec] /\ gates[g] = rec /\ \A h \in Gate \ {g} : gates[h] = r.gates[h]
  BY <1>1, <1>2
<1> HIDE DEF gates
<1>6. [r EXCEPT !.gates = gates] \in RunRec
  BY <1>5 DEF RunRec
<1>7. /\ [r EXCEPT !.gates = gates].gates = gates /\ [r EXCEPT !.gates = gates].status = r.status
      /\ [r EXCEPT !.gates = gates].reason = r.reason /\ [r EXCEPT !.gates = gates].pause = r.pause
  BY DEF RunRec
<1>8. QED
  BY <1>4, <1>5, <1>6, <1>7

LEMMA PauseFields ==
  ASSUME NEW r \in RunRec, NEW p \in Slot
  PROVE  LET q == [r EXCEPT !.pause = p] IN
           /\ q \in RunRec /\ q.status = r.status /\ q.reason = r.reason
           /\ q.gates = r.gates /\ q.pause = p
BY DEF RunRec

LEMMA NoPauseType == NoPause \in Slot /\ NoPause.gate = Nil /\ Nil \notin Gate /\ Ceiling \notin Gate
                     /\ CeilingPause \in Slot /\ CeilingPause.gate = Ceiling /\ Nil # Ceiling
BY GatesAssumption, AttemptsAssumption DEF NoPause, CeilingPause, Slot, Answers, Nil, Ceiling

LEMMA DecidedFields ==
  ASSUME NEW r \in RunRec, NEW g \in Gate, NEW s \in Statuses
  PROVE  /\ Decided(r, g, s) \in RunRec
         /\ Decided(r, g, s).status = r.status /\ Decided(r, g, s).reason = r.reason
         /\ Decided(r, g, s).gates = Become(r, g, s).gates
         /\ Decided(r, g, s).pause = IF r.pause.gate = g THEN NoPause ELSE r.pause
<1>1. /\ Become(r, g, s) \in RunRec /\ r.pause \in Slot
      /\ Become(r, g, s).status = r.status /\ Become(r, g, s).reason = r.reason
  BY BecomeFields DEF RunRec
<1>2. (IF r.pause.gate = g THEN NoPause ELSE r.pause) \in Slot
  BY <1>1, NoPauseType
<1>3. QED
  BY <1>1, <1>2, PauseFields, Zenon DEF Decided

LEMMA AttemptFields ==
  ASSUME NEW r \in RunRec, NEW g \in Gate, r.gates[g].attempts < MaxAttempts
  PROVE  LET q == [r EXCEPT !.gates[g].attempts = @ + 1] IN
           /\ q \in RunRec /\ q.status = r.status /\ q.reason = r.reason /\ q.pause = r.pause
           /\ q.gates[g].status = r.gates[g].status
           /\ q.gates[g].attempts = r.gates[g].attempts + 1 /\ q.gates[g].attempts \in 1..MaxAttempts
           /\ \A h \in Gate \ {g} : q.gates[h] = r.gates[h]
<1> DEFINE rec   == [r.gates[g] EXCEPT !.attempts = @ + 1]
           gates == [r.gates EXCEPT ![g] = rec]
           q     == [r EXCEPT !.gates = gates]
<1>1. r.gates \in [Gate -> GateRec] /\ r.gates[g] \in GateRec
  BY DEF RunRec
<1>2. r.gates[g].attempts + 1 \in 1..MaxAttempts
  BY <1>1, AttemptsAssumption DEF GateRec
<1>3. /\ rec \in GateRec /\ rec.status = r.gates[g].status
      /\ rec.attempts = r.gates[g].attempts + 1
  BY <1>1, <1>2 DEF GateRec
<1> HIDE DEF rec
<1>4. gates \in [Gate -> GateRec] /\ gates[g] = rec /\ \A h \in Gate \ {g} : gates[h] = r.gates[h]
  BY <1>1, <1>3
<1>5. [r EXCEPT !.gates[g].attempts = @ + 1] = q
  BY DEF rec
<1> HIDE DEF gates
<1>6. /\ q \in RunRec /\ q.status = r.status /\ q.reason = r.reason /\ q.pause = r.pause
      /\ q.gates = gates
  BY <1>4 DEF RunRec
<1>7. QED
  BY <1>2, <1>3, <1>4, <1>5, <1>6

(***************************************************************************)
(* A step of one gate keeps the invariant when it keeps what it is         *)
(* responsible for: its own record, its answer, and the slot.              *)
(***************************************************************************)
Mine(g) ==
  /\ \A h \in Gate \ {g} : run'.gates[h] = run.gates[h] /\ pc'[h] = pc[h] /\ got'[h] = got[h]
  /\ run'.gates[g].status = "succeeded" => <<g, run'.gates[g].attempts>> \in answered'
  /\ pc'[g] \in {"begun", "read", "locking", "asking"} => run'.gates[g].status = "open"
  /\ pc'[g] \in {"locking", "asking"} => run'.gates[g].attempts >= 1
  /\ got'[g] # "none" => pc'[g] = "read" /\ <<g, run'.gates[g].attempts>> \in answered'

SlotKept(g) ==
  /\ run'.pause.gate \in Gate =>
       /\ run'.pause.attempt >= 1
       /\ run'.pause.answer # "none" => <<run'.pause.gate, run'.pause.attempt>> \in answered'
  /\ PauseInv'

LEMMA GateKeeps ==
  ASSUME GatesInv, live, NEW g \in Gate, frame(g), TypeOK', run'.status = run.status,
         file' \in {file, run'}, answered \subseteq answered', Mine(g), SlotKept(g)
  PROVE  GatesInv'
<1> USE DEF Mine
<1>1. Honest(run)'
  BY DEF GatesInv, Honest, SlotKept
<1>2. Honest(file)'
  <2>1. CASE file' = run'
    BY <1>1, <2>1 DEF Honest
  <2>2. CASE file' = file
    BY <2>2 DEF GatesInv, Honest
  <2>3. QED
    BY <2>1, <2>2
<1>3. WorkInv'
  BY DEF GatesInv, WorkInv
<1>4. LiveInv' /\ PausedRunIsAnswerable'
  BY DEF GatesInv, LiveInv, PausedRunIsAnswerable, frame
<1>5. QED
  BY <1>1, <1>2, <1>3, <1>4 DEF GatesInv, SlotKept

\* A step that leaves the slot and every count of attempts alone cannot disturb the pause, unless it
\* moves the gate that paused.
LEMMA PauseKept ==
  ASSUME GatesInv, NEW g \in Gate, UNCHANGED pausedAt, Mine(g),
         run'.pause = run.pause, answered \subseteq answered',
         \/ pc[g] \notin {"ending", "settled"}
         \/ pc'[g] \in {"ending", "settled"} /\ run'.gates[g].attempts = run.gates[g].attempts
  PROVE  SlotKept(g)
<1>1. pausedAt \in Gate \union {Nil}
  BY DEF GatesInv, TypeOK
<1>2. pausedAt # Nil => pausedAt = g \/ pausedAt \in Gate \ {g}
  BY <1>1
<1>3. QED
  BY <1>2 DEF GatesInv, Mine, SlotKept, PauseInv, Honest

\* Reusing, launching, skipping and persisting a gate.
LEMMA SchedulingKeeps ==
  ASSUME GatesInv, live, NEW g \in Gate, Replay(g) \/ Launch(g) \/ Skip(g) \/ Persist(g)
  PROVE  GatesInv'
<1>1. /\ run \in RunRec /\ "open" \in Statuses /\ "failed" \in Statuses
      /\ run.gates[g] \in GateRec
  BY DEF GatesInv, TypeOK, Statuses, RunRec
<1>2. CASE Replay(g)
  <2>1. TypeOK' /\ Mine(g)
    BY <1>1, <1>2 DEF GatesInv, TypeOK, Pcs, Mine, WorkInv, Honest, Replay, Goto, frame
  <2>2. SlotKept(g)
    BY <1>2, <2>1, PauseKept DEF Replay
  <2>3. QED
    BY <1>2, <2>1, <2>2, GateKeeps DEF Replay
<1>3. CASE Launch(g) \/ Skip(g)
  <2>1. /\ run' = Become(run, g, "open") /\ file' = run' /\ pc[g] = "idle" /\ frame(g)
        /\ \E to \in {"begun", "settled"} : pc' = [pc EXCEPT ![g] = to]
        /\ UNCHANGED <<got, lock, pausedAt, signals, failed, stopping, answered>>
    BY <1>3 DEF Launch, Skip, Goto
  <2>2. /\ run' \in RunRec /\ run'.status = run.status /\ run'.pause = run.pause
        /\ run'.gates[g].status = "open"
        /\ \A h \in Gate \ {g} : run'.gates[h] = run.gates[h]
    BY <1>1, <2>1, BecomeFields
  <2>3. TypeOK'
    BY <2>1, <2>2 DEF GatesInv, TypeOK, Pcs, frame
  <2>4. Mine(g)
    BY <2>1, <2>2 DEF GatesInv, TypeOK, WorkInv, Mine
  <2>5. SlotKept(g)
    BY <2>1, <2>2, <2>4, PauseKept
  <2>6. QED
    BY <2>1, <2>2, <2>3, <2>4, <2>5, GateKeeps
<1>4. CASE Persist(g)
  <2>1. /\ pc[g] = "ending" /\ frame(g) /\ pc' = [pc EXCEPT ![g] = "settled"]
        /\ file' \in {file, run'} /\ failed' \in BOOLEAN
        /\ UNCHANGED <<got, lock, pausedAt, signals, stopping, answered>>
    BY <1>4 DEF Persist, Goto, GatesInv, TypeOK
  <2>2. /\ run' \in RunRec /\ run'.status = run.status /\ run'.pause = run.pause
        /\ run'.gates[g].attempts = run.gates[g].attempts
        /\ \A h \in Gate \ {g} : run'.gates[h] = run.gates[h]
        /\ run'.gates[g].status = "succeeded" => run.gates[g].status = "succeeded"
    <3>1. CASE run' = Become(run, g, "failed")
      BY <1>1, <3>1, BecomeFields
    <3>2. CASE run' = [run EXCEPT !.gates[g].kept = run.gates[g].status = "succeeded"]
      BY <1>1, <3>2 DEF RunRec, GateRec
    <3>3. QED
      BY <1>4, <3>1, <3>2 DEF Persist
  <2>3. TypeOK'
    BY <2>1, <2>2 DEF GatesInv, TypeOK, Pcs, frame
  <2>4. Mine(g)
    BY <2>1, <2>2 DEF GatesInv, TypeOK, WorkInv, Honest, Mine
  <2>5. SlotKept(g)
    BY <2>1, <2>2, <2>4, PauseKept
  <2>6. QED
    BY <2>1, <2>2, <2>3, <2>4, <2>5, GateKeeps
<1>5. QED
  BY <1>2, <1>3, <1>4

\* run_approve up to the answer: rendering, reading the stored answer, a new attempt, the lock.
LEMMA AskingKeeps ==
  ASSUME GatesInv, live, NEW g \in Gate, Unrenderable(g) \/ Read(g) \/ NewAttempt(g) \/ Lock(g)
  PROVE  GatesInv'
<1>1. /\ run \in RunRec /\ run.gates[g] \in GateRec /\ run.pause \in Slot
      /\ "failed" \in Statuses /\ "succeeded" \in Statuses
  BY DEF GatesInv, TypeOK, Statuses, RunRec
<1>2. CASE Unrenderable(g)
  <2> DEFINE failing == Become(run, g, "failed")
  <2>1. /\ failing \in RunRec /\ failing.gates[g].attempts < MaxAttempts
        /\ run' = [failing EXCEPT !.gates[g].attempts = @ + 1]
        /\ failing.status = run.status /\ failing.pause = run.pause
        /\ failing.gates[g].status = "failed"
        /\ \A h \in Gate \ {g} : failing.gates[h] = run.gates[h]
    BY <1>1, <1>2, BecomeFields DEF Unrenderable
  <2> HIDE DEF failing
  <2>2. /\ run' \in RunRec /\ run'.status = run.status /\ run'.pause = run.pause
        /\ run'.gates[g].status = "failed"
        /\ \A h \in Gate \ {g} : run'.gates[h] = run.gates[h]
    BY <2>1, AttemptFields
  <2>3. TypeOK'
    BY <1>2, <2>2 DEF GatesInv, TypeOK, Pcs, frame, Unrenderable, Goto
  <2>4. Mine(g)
    BY <1>2, <2>2 DEF GatesInv, TypeOK, WorkInv, Mine, Unrenderable, Goto
  <2>5. SlotKept(g)
    BY <1>2, <2>2, <2>4, PauseKept DEF Unrenderable
  <2>6. QED
    BY <1>2, <2>2, <2>3, <2>4, <2>5, GateKeeps DEF Unrenderable
<1>3. CASE Read(g)
  <2>1. Stored(g) \in Answers
    BY <1>1 DEF Stored, Answers, Slot
  <2>2. Stored(g) # "none" => <<g, run.gates[g].attempts>> \in answered
    BY DEF Stored, GatesInv, Honest
  <2>3. TypeOK'
    BY <1>3, <2>1 DEF GatesInv, TypeOK, Pcs, frame, Read, Goto
  <2>4. Mine(g)
    BY <1>3, <2>2 DEF GatesInv, TypeOK, WorkInv, Honest, Mine, Read, Goto
  <2>5. SlotKept(g)
    BY <1>3, <2>4, PauseKept DEF Read
  <2>6. QED
    BY <1>3, <2>3, <2>4, <2>5, GateKeeps DEF Read
<1>4. CASE NewAttempt(g)
  <2> DEFINE next == [run EXCEPT !.gates[g].attempts = @ + 1]
  <2>1. /\ next \in RunRec /\ next.status = run.status /\ next.pause = run.pause
        /\ next.gates[g].status = "open" /\ next.gates[g].attempts \in 1..MaxAttempts
        /\ \A h \in Gate \ {g} : next.gates[h] = run.gates[h]
    BY <1>1, <1>4, AttemptFields DEF NewAttempt, GatesInv, WorkInv
  <2>2. /\ pc[g] = "read" /\ got[g] = "none" /\ frame(g)
        /\ UNCHANGED <<file, got, lock, pausedAt, signals, failed, stopping>>
    BY <1>4 DEF NewAttempt
  <2>3. CASE mode = "yes" /\ g \notin TtyOnly
    <3>1. /\ run' = Decided(next, g, "succeeded") /\ pc' = [pc EXCEPT ![g] = "ending"]
          /\ answered' = answered \union {<<g, next.gates[g].attempts>>}
      BY <1>4, <2>3 DEF NewAttempt, Goto
    <3> HIDE DEF next
    <3>2. /\ run' \in RunRec /\ run'.status = run.status
          /\ run'.pause = (IF run.pause.gate = g THEN NoPause ELSE run.pause)
          /\ run'.gates[g].attempts = next.gates[g].attempts
          /\ \A h \in Gate \ {g} : run'.gates[h] = run.gates[h]
      <4>1. /\ Become(next, g, "succeeded").gates[g].attempts = next.gates[g].attempts
            /\ \A h \in Gate \ {g} : Become(next, g, "succeeded").gates[h] = next.gates[h]
        BY <1>1, <2>1, BecomeFields
      <4>2. /\ run' \in RunRec /\ run'.status = next.status
            /\ run'.gates = Become(next, g, "succeeded").gates
            /\ run'.pause = IF next.pause.gate = g THEN NoPause ELSE next.pause
        BY <1>1, <2>1, <3>1, DecidedFields
      <4>3. QED
        BY <2>1, <4>1, <4>2
    <3>3. TypeOK'
      BY <2>1, <2>2, <3>1, <3>2 DEF GatesInv, TypeOK, Pcs, frame
    <3>4. Mine(g)
      BY <2>2, <3>1, <3>2 DEF GatesInv, TypeOK, WorkInv, Mine
    <3>5. SlotKept(g)
      BY <2>2, <3>1, <3>2, NoPauseType DEF GatesInv, TypeOK, SlotKept, PauseInv, Honest
    <3>6. QED
      BY <2>2, <3>1, <3>2, <3>3, <3>4, <3>5, GateKeeps
  <2>4. CASE ~(mode = "yes" /\ g \notin TtyOnly)
    <3>1. run' = next /\ pc' = [pc EXCEPT ![g] = "locking"] /\ answered' = answered
      BY <1>4, <2>4 DEF NewAttempt, Goto
    <3> HIDE DEF next
    <3>2. TypeOK'
      BY <2>1, <2>2, <3>1 DEF GatesInv, TypeOK, Pcs, frame
    <3>3. Mine(g)
      BY <2>1, <2>2, <3>1, AttemptsAssumption DEF GatesInv, TypeOK, WorkInv, Mine
    <3>4. SlotKept(g)
      BY <2>1, <2>2, <3>1, <3>3, PauseKept
    <3>5. QED
      BY <2>1, <2>2, <3>1, <3>2, <3>3, <3>4, GateKeeps
  <2>5. QED
    BY <2>3, <2>4
<1>5. CASE Lock(g)
  <2>1. TypeOK'
    BY <1>5 DEF GatesInv, TypeOK, Pcs, frame, Lock, Goto
  <2>2. Mine(g)
    BY <1>5 DEF GatesInv, TypeOK, WorkInv, Honest, Mine, Lock, Goto
  <2>3. SlotKept(g)
    BY <1>5, <2>2, PauseKept DEF Lock
  <2>4. QED
    BY <1>5, <2>1, <2>2, <2>3, GateKeeps DEF Lock
<1>6. QED
  BY <1>2, <1>3, <1>4, <1>5

\* An answered gate succeeds, fails or rejects the run, and clears the slot only if it owns it.
LEMMA DecisionKeeps ==
  ASSUME GatesInv, NEW g \in Gate, NEW answer \in Answers, Decide(g, answer),
         pc[g] \in {"read", "asking"}, pc' = [pc EXCEPT ![g] = "ending"],
         got' = [got EXCEPT ![g] = "none"], UNCHANGED pausedAt,
         answered \subseteq answered', <<g, run.gates[g].attempts>> \in answered'
  PROVE  /\ run' \in RunRec /\ run'.status = run.status
         /\ failed' \in BOOLEAN /\ signals' \subseteq Gate
         /\ Mine(g) /\ SlotKept(g)
<1>1. run \in RunRec /\ run.gates[g] \in GateRec /\ run.pause \in Slot
  BY DEF GatesInv, TypeOK, RunRec
<1>2. PICK s \in Outcomes(answer) :
        /\ run' = Decided(run, g, s) /\ failed' = (failed \/ s = "failed")
        /\ signals' = IF s = "rejected" THEN signals \union {g} ELSE signals
  BY DEF Decide
<1>3. s \in Statuses
  BY DEF Outcomes, Statuses
<1>4. /\ Become(run, g, s).gates[g].attempts = run.gates[g].attempts
      /\ \A h \in Gate \ {g} : Become(run, g, s).gates[h] = run.gates[h]
  BY <1>1, <1>3, BecomeFields
<1>5. /\ run' \in RunRec /\ run'.status = run.status
      /\ run'.gates = Become(run, g, s).gates
      /\ run'.pause = IF run.pause.gate = g THEN NoPause ELSE run.pause
  BY <1>1, <1>2, <1>3, DecidedFields
<1>6. failed' \in BOOLEAN /\ signals' \subseteq Gate
  BY <1>2 DEF GatesInv, TypeOK
<1>7. Mine(g)
  BY <1>4, <1>5 DEF GatesInv, TypeOK, Mine
<1>8. SlotKept(g)
  BY <1>4, <1>5, NoPauseType DEF GatesInv, TypeOK, SlotKept, PauseInv, Honest
<1>9. QED
  BY <1>5, <1>6, <1>7, <1>8

\* The answer: stored or given at the prompt; a pause of the run; a gate that is cancelled.
LEMMA AnsweringKeeps ==
  ASSUME GatesInv, live, NEW g \in Gate, Consume(g) \/ Prompt(g) \/ Pause(g) \/ Cut(g)
  PROVE  GatesInv'
<1>1. /\ run \in RunRec /\ run.gates[g] \in GateRec /\ run.pause \in Slot
      /\ "failed" \in Statuses /\ "paused" \in Statuses /\ "open" \in Statuses
  BY DEF GatesInv, TypeOK, Statuses, RunRec
<1>2. CASE Consume(g)
  <2>1. /\ pc[g] = "read" /\ got[g] # "none" /\ Decide(g, got[g]) /\ got[g] \in Answers
        /\ pc' = [pc EXCEPT ![g] = "ending"] /\ got' = [got EXCEPT ![g] = "none"]
        /\ frame(g) /\ UNCHANGED <<file, lock, pausedAt, stopping, answered>>
    BY <1>2 DEF Consume, Goto, GatesInv, TypeOK
  <2>2. <<g, run.gates[g].attempts>> \in answered
    BY <2>1 DEF GatesInv, WorkInv
  <2>3. /\ run' \in RunRec /\ run'.status = run.status
        /\ failed' \in BOOLEAN /\ signals' \subseteq Gate
        /\ Mine(g) /\ SlotKept(g)
    BY <2>1, <2>2, DecisionKeeps
  <2>4. TypeOK'
    BY <2>1, <2>3 DEF GatesInv, TypeOK, Pcs, Answers, frame
  <2>5. QED
    BY <2>1, <2>3, <2>4, GateKeeps
<1>3. CASE Prompt(g)
  <2>1. PICK answer \in {"yes", "no"} : Decide(g, answer)
    BY <1>3 DEF Prompt
  <2>2. /\ pc[g] = "asking" /\ pc' = [pc EXCEPT ![g] = "ending"] /\ lock' = Nil /\ frame(g)
        /\ answered' = answered \union {<<g, run.gates[g].attempts>>}
        /\ UNCHANGED <<file, got, pausedAt, stopping>>
    BY <1>3 DEF Prompt, Goto
  <2>3. got' = [got EXCEPT ![g] = "none"] /\ run.gates[g].attempts \in 1..MaxAttempts
    <3>1. got[g] = "none" /\ run.gates[g].attempts >= 1
      BY <2>2 DEF GatesInv, WorkInv
    <3>2. got' = [got EXCEPT ![g] = "none"]
      BY <2>2, <3>1 DEF GatesInv, TypeOK
    <3>3. run.gates[g].attempts \in 0..MaxAttempts
      BY <1>1 DEF GateRec
    <3>4. QED
      BY <3>1, <3>2, <3>3, AttemptsAssumption
  <2>4. /\ run' \in RunRec /\ run'.status = run.status
        /\ failed' \in BOOLEAN /\ signals' \subseteq Gate
        /\ Mine(g) /\ SlotKept(g)
    BY <2>1, <2>2, <2>3, DecisionKeeps DEF Answers
  <2>5. TypeOK'
    BY <2>2, <2>3, <2>4 DEF GatesInv, TypeOK, Pcs, frame
  <2>6. QED
    BY <2>2, <2>4, <2>5, GateKeeps
<1>4. CASE Pause(g)
  <2>1. /\ pc[g] = "asking" /\ pc' = [pc EXCEPT ![g] = "ending"] /\ lock' = Nil /\ frame(g)
        /\ pausedAt' = (IF pausedAt = Nil THEN g ELSE pausedAt)
        /\ file' \in {file, run'} /\ failed' \in BOOLEAN /\ signals' \subseteq Gate
        /\ UNCHANGED <<got, stopping, answered>>
    BY <1>4 DEF Pause, Goto, GatesInv, TypeOK
  <2>2. PICK s \in {"paused", "failed"} : run' = SlotPaused(Become(run, g, s), g)
    BY <1>4 DEF Pause
  <2> DEFINE b == Become(run, g, s)
  <2>3. /\ b \in RunRec /\ b.status = run.status /\ b.pause = run.pause
        /\ b.gates[g].status = s /\ b.gates[g].attempts = run.gates[g].attempts
        /\ \A h \in Gate \ {g} : b.gates[h] = run.gates[h]
    <3>1. s \in Statuses
      BY DEF Statuses
    <3>2. QED
      BY <1>1, <3>1, BecomeFields
  <2>4. run.gates[g].attempts \in 1..MaxAttempts /\ got[g] = "none"
    <3>1. got[g] = "none" /\ run.gates[g].attempts >= 1
      BY <2>1 DEF GatesInv, WorkInv
    <3>2. run.gates[g].attempts \in 0..MaxAttempts
      BY <1>1 DEF GateRec
    <3>3. QED
      BY <3>1, <3>2, AttemptsAssumption
  <2> HIDE DEF b
  <2>5. PauseOf(b, g) \in Slot
    BY <2>3, <2>4 DEF PauseOf, Slot, Answers
  <2> DEFINE p == IF pausedAt # Nil THEN run.pause ELSE PauseOf(b, g)
  <2>6. run' = [b EXCEPT !.pause = p] /\ p \in Slot
    BY <1>1, <2>2, <2>3, <2>5 DEF SlotPaused, b
  <2> HIDE DEF p
  <2>7. /\ run' \in RunRec /\ run'.status = run.status /\ run'.gates = b.gates /\ run'.pause = p
    BY <2>3, <2>6, PauseFields
  <2>8. TypeOK'
    BY <2>1, <2>7 DEF GatesInv, TypeOK, Pcs, frame
  <2>9. Mine(g)
    BY <2>1, <2>3, <2>4, <2>7 DEF GatesInv, TypeOK, Mine
  <2>10. SlotKept(g)
    BY <2>1, <2>3, <2>4, <2>7, NoPauseType
       DEF GatesInv, TypeOK, SlotKept, PauseInv, Honest, p, PauseOf
  <2>11. QED
    BY <2>1, <2>7, <2>8, <2>9, <2>10, GateKeeps
<1>5. CASE Cut(g)
  <2>1. /\ pc[g] \in {"begun", "read", "locking", "asking"} /\ frame(g)
        /\ run' = Become(run, g, "open") /\ lock' \in Gate \union {Nil}
        /\ pc' = [pc EXCEPT ![g] = "ending"] /\ got' = [got EXCEPT ![g] = "none"]
        /\ UNCHANGED <<file, pausedAt, signals, failed, stopping, answered>>
    BY <1>5 DEF Cut, Goto, Unlocked, GatesInv, TypeOK
  <2>2. /\ run' \in RunRec /\ run'.status = run.status /\ run'.pause = run.pause
        /\ run'.gates[g].status = "open"
        /\ \A h \in Gate \ {g} : run'.gates[h] = run.gates[h]
    <3>1. run' = Become(run, g, "open")
      BY <2>1
    <3>2. run \in RunRec /\ "open" \in Statuses
      BY <1>1
    <3>3. QED
      BY <3>1, <3>2, BecomeFields
  <2>3. TypeOK'
    BY <2>1, <2>2 DEF GatesInv, TypeOK, Pcs, Answers, frame
  <2>4. Mine(g)
    BY <2>1, <2>2 DEF GatesInv, TypeOK, Mine
  <2>5. SlotKept(g)
    BY <2>1, <2>2, <2>4, PauseKept
  <2>6. QED
    BY <2>1, <2>2, <2>3, <2>4, <2>5, GateKeeps
<1>6. QED
  BY <1>2, <1>3, <1>4, <1>5

LEMMA GateStepKeeps == ASSUME GatesInv, NEW g \in Gate, GateStep(g) PROVE GatesInv'
BY SchedulingKeeps, AskingKeeps, AnsweringKeeps DEF GateStep

(***************************************************************************)
(* The processes of the run.                                               *)
(***************************************************************************)
\* A process that has ended, or has not begun, has no gate at work.
LEMMA MemoryForgets ==
  ASSUME NEW m \in {"tty", "yes", "headless"}, Memory(m)
  PROVE  WorkInv' /\ PauseInv'
BY DEF Memory, WorkInv, PauseInv

LEMMA StartKeeps ==
  ASSUME GatesInv, NEW m \in {"tty", "yes", "headless"}, Start(m) PROVE GatesInv'
<1>1. file \in RunRec /\ file.pause \in Slot
  BY DEF GatesInv, TypeOK, RunRec
<1> DEFINE started == [[file EXCEPT !.status = "running"] EXCEPT !.reason = "none"]
           p == IF file.pause.gate = Ceiling THEN NoPause ELSE file.pause
<1>2. /\ started \in RunRec /\ started.status = "running"
      /\ started.gates = file.gates /\ started.pause = file.pause
  BY <1>1 DEF RunRec
<1>3. p \in Slot /\ (p = file.pause \/ p = NoPause)
  BY <1>1, NoPauseType
<1>4. file' = started
  BY <1>1 DEF Start, RunRec
<1>5. run' = [file' EXCEPT !.pause = p]
  BY <1>2, <1>4 DEF Start, RunRec
<1> HIDE DEF started, p
<1>6. run' \in RunRec /\ run'.status = "running" /\ run'.gates = file.gates /\ run'.pause = p
  BY <1>2, <1>3, <1>4, <1>5, PauseFields
<1>7. answered' = answered /\ live' = TRUE /\ Memory(m)
  BY DEF Start
<1>8. TypeOK'
  BY <1>2, <1>4, <1>6, <1>7 DEF GatesInv, TypeOK, Memory, Pcs, Answers
<1>9. Honest(run)' /\ Honest(file)'
  BY <1>2, <1>3, <1>4, <1>6, <1>7, NoPauseType DEF GatesInv, Honest
<1>10. LiveInv' /\ PausedRunIsAnswerable'
  BY <1>2, <1>4, <1>6, <1>7 DEF LiveInv, PausedRunIsAnswerable
<1>11. QED
  BY <1>7, <1>8, <1>9, <1>10, MemoryForgets DEF GatesInv

LEMMA AnswerKeeps ==
  ASSUME GatesInv, NEW answer \in {"yes", "no"}, Answer(answer) PROVE GatesInv'
<1>1. file \in RunRec /\ file.pause \in Slot
  BY DEF GatesInv, TypeOK, RunRec
<1> DEFINE p == [file.pause EXCEPT !.answer = answer]
<1>2. /\ p \in Slot /\ p.gate = file.pause.gate /\ p.attempt = file.pause.attempt
  BY <1>1 DEF Slot, Answers
<1>3. file' = [file EXCEPT !.pause = p]
  BY <1>1 DEF Answer, RunRec
<1> HIDE DEF p
<1>4. /\ file' \in RunRec /\ file'.status = file.status /\ file'.reason = file.reason
      /\ file'.gates = file.gates /\ file'.pause = p
  BY <1>1, <1>2, <1>3, PauseFields
<1>5. /\ answered' = IF file.pause.gate \in Gate
                     THEN answered \union {<<file.pause.gate, file.pause.attempt>>} ELSE answered
      /\ ~live /\ UNCHANGED <<run, live, procVars>>
  BY DEF Answer
<1>6. file.pause.gate \in Gate => file.pause.attempt \in 1..MaxAttempts
  BY <1>1, AttemptsAssumption DEF GatesInv, Honest, Slot
<1>7. TypeOK'
  BY <1>4, <1>5, <1>6 DEF GatesInv, TypeOK, procVars
<1>8. Honest(run)' /\ Honest(file)'
  BY <1>2, <1>4, <1>5 DEF GatesInv, Honest
<1>9. WorkInv' /\ PauseInv'
  BY <1>5 DEF GatesInv, WorkInv, PauseInv, procVars
<1>10. LiveInv' /\ PausedRunIsAnswerable'
  BY <1>2, <1>4, <1>5 DEF GatesInv, LiveInv, PausedRunIsAnswerable
<1>11. QED
  BY <1>7, <1>8, <1>9, <1>10 DEF GatesInv

LEMMA FinalizeKeeps == ASSUME GatesInv, Finalize PROVE GatesInv'
<1>1. run \in RunRec /\ run.pause \in Slot
  BY DEF GatesInv, TypeOK, RunRec
<1> DEFINE p == IF ceiling /\ run.pause = NoPause THEN CeilingPause ELSE run.pause
<1>2. /\ p \in Slot
      /\ \/ p = run.pause
         \/ p = CeilingPause /\ run.pause = NoPause
  BY <1>1, NoPauseType
<1>3. /\ FinalStatus \in {"paused", "interrupted", "failed", "cancelled", "succeeded"}
      /\ FinalReason \in {"none", "gate", "ceiling"}
      /\ FinalReason = "gate" => pausedAt # Nil
  BY DEF FinalStatus, FinalReason
<1>4. /\ run' \in RunRec /\ run'.gates = run.gates /\ run'.pause = p
      /\ run'.status = FinalStatus /\ run'.reason = FinalReason
  <2>1. run' = [run EXCEPT !.status = FinalStatus, !.reason = FinalReason, !.pause = p]
    BY <1>1 DEF Finalize, RunRec
  <2> HIDE DEF p
  <2>2. QED
    BY <1>1, <1>2, <1>3, <2>1 DEF RunRec
<1> HIDE DEF p
<1>5. file' = run' /\ live' = FALSE /\ Memory("headless") /\ answered' = answered
  BY DEF Finalize
<1>6. TypeOK'
  BY <1>4, <1>5 DEF GatesInv, TypeOK, Memory, Pcs, Answers
<1>7. Honest(run)' /\ Honest(file)'
  BY <1>2, <1>4, <1>5, NoPauseType DEF GatesInv, Honest
<1>8. PausedRunIsAnswerable'
  <2>1. pausedAt # Nil => pausedAt \in Gate /\ run.pause.gate = pausedAt /\ p = run.pause
    BY <1>2, NoPauseType DEF GatesInv, TypeOK, PauseInv
  <2>2. QED
    BY <1>3, <1>4, <1>5, <2>1 DEF GatesInv, PauseInv, PausedRunIsAnswerable
<1>9. LiveInv'
  BY <1>5 DEF LiveInv
<1>10. QED
  BY <1>5, <1>6, <1>7, <1>8, <1>9, MemoryForgets DEF GatesInv

LEMMA CrashKeeps == ASSUME GatesInv, Crash PROVE GatesInv'
<1>1. /\ live /\ live' = FALSE /\ run' = file /\ file' = file /\ answered' = answered
      /\ Memory("headless")
  BY DEF Crash
<1>2. TypeOK'
  BY <1>1 DEF GatesInv, TypeOK, Memory, Pcs, Answers
<1>3. Honest(run)' /\ Honest(file)' /\ LiveInv' /\ PausedRunIsAnswerable'
  BY <1>1 DEF GatesInv, Honest, LiveInv, PausedRunIsAnswerable
<1>4. QED
  BY <1>1, <1>2, <1>3, MemoryForgets DEF GatesInv

\* The other steps of the run: they save, they fail, they trip a ceiling, they are torn down.
LEMMA WorldKeeps == ASSUME GatesInv, World \/ Teardown PROVE GatesInv'
<1>1. /\ file' \in {file, run} /\ live
      /\ ceiling' \in BOOLEAN /\ failed' \in BOOLEAN /\ cut' \in BOOLEAN /\ stopping' \in BOOLEAN
      /\ UNCHANGED <<run, live, mode, pc, got, lock, pausedAt, signals, answered>>
  BY DEF World, Teardown, GatesInv, TypeOK
<1>2. TypeOK'
  BY <1>1 DEF GatesInv, TypeOK
<1>3. Honest(run)' /\ Honest(file)'
  BY <1>1 DEF GatesInv, Honest
<1>4. WorkInv' /\ PauseInv' /\ LiveInv' /\ PausedRunIsAnswerable'
  BY <1>1 DEF GatesInv, WorkInv, PauseInv, LiveInv, PausedRunIsAnswerable
<1>5. QED
  BY <1>2, <1>3, <1>4 DEF GatesInv

LEMMA GatesStep == ASSUME GatesInv, [Next]_vars PROVE GatesInv'
<1>1. CASE UNCHANGED vars
  BY <1>1 DEF GatesInv, TypeOK, Honest, WorkInv, PauseInv, LiveInv, PausedRunIsAnswerable, vars,
              procVars
<1>2. QED
  BY <1>1, StartKeeps, AnswerKeeps, GateStepKeeps, WorldKeeps, FinalizeKeeps, CrashKeeps DEF Next

\* Over every process of the run, its crashes and the saves they cut short: the records tell the
\* truth about what was answered, and the slot is that of the gate that paused.
THEOREM GatesAreSound == Spec => []GatesInv
<1>1. QED
  BY GatesInit, GatesStep, PTL DEF Spec

\* A gate that run.json lets pass was answered at the attempt the record carries.
THEOREM GatesAskFirst == Spec => []NoGateOpensUnanswered
<1>1. GatesInv => NoGateOpensUnanswered
  BY DEF GatesInv, Honest, NoGateOpensUnanswered
<1>2. QED
  BY <1>1, GatesAreSound, PTL

\* The slot of a run that awaits an approval names a gate, at the attempt the gate's record carries.
THEOREM PausesAreAnswerable == Spec => []PausedRunIsAnswerable
<1>1. GatesInv => PausedRunIsAnswerable
  BY DEF GatesInv
<1>2. QED
  BY <1>1, GatesAreSound, PTL

------------------------------------------------------------------------------
(* What a block and a layer can change *)

LEMMA IfIn == ASSUME NEW b, NEW c, NEW x PROVE x \in If(b, c) <=> b /\ x = c
BY DEF If

\* What each kind of control says.
LEMMA Opinions ==
  /\ NoOpinion.admits = {} /\ NoOpinion.defines = {} /\ NoOpinion.denies = {} /\ ~NoOpinion.all
  /\ \A e : /\ Denying(e).admits = {} /\ Denying(e).defines = {}
            /\ Denying(e).denies = ServersOf(e) /\ Denying(e).all = (AllMcp \in e)
  /\ \A e : /\ Allowing(e).admits = If(AllMcp \notin e, ServersOf(e)) /\ Allowing(e).defines = {}
            /\ Allowing(e).denies = {} /\ ~Allowing(e).all
  /\ \A m : /\ Declaring(m).admits = {m} /\ Declaring(m).defines = m
            /\ Declaring(m).denies = {} /\ ~Declaring(m).all
BY DEF NoOpinion, Denying, Allowing, Declaring

\* What the policy files say under a key.
LEMMA PolicyOpinions ==
  ASSUME NEW layers
  PROVE  /\ PolicyControls(layers) = {Opinion(layers, key) : key \in ControlKeys(layers)}
         /\ \A key : LET c == Opinion(layers, key) IN
              /\ c.admits = If(key = "servers", Named(layers)) /\ c.defines = {}
              /\ c.denies = IF key = "tools" THEN ServersOf(Said(layers, "tools")) ELSE {}
              /\ c.all = (key = "tools" /\ AllMcp \in Said(layers, "tools"))
<1>1. PolicyControls(layers) = {Opinion(layers, key) : key \in ControlKeys(layers)}
  BY DEF PolicyControls
<1>2. ASSUME NEW key, key = "servers"
      PROVE  Opinion(layers, key) = [NoOpinion EXCEPT !.admits = {Named(layers)}]
  BY <1>2 DEF Opinion
<1>3. LET c == [NoOpinion EXCEPT !.admits = {Named(layers)}] IN
        c.admits = {Named(layers)} /\ c.defines = {} /\ c.denies = {} /\ ~c.all
  BY DEF NoOpinion
<1>4. \A key : key = "tools" => Opinion(layers, key) = Denying(Said(layers, "tools"))
  BY DEF Opinion
<1>5. \A key : key \notin {"servers", "tools"} => Opinion(layers, key) = NoOpinion
  BY DEF Opinion
<1>6. ASSUME NEW key
      PROVE  LET c == Opinion(layers, key) IN
              /\ c.admits = If(key = "servers", Named(layers)) /\ c.defines = {}
              /\ c.denies = IF key = "tools" THEN ServersOf(Said(layers, "tools")) ELSE {}
              /\ c.all = (key = "tools" /\ AllMcp \in Said(layers, "tools"))
  <2>1. CASE key = "servers"
    <3>1. /\ Opinion(layers, key).admits = {Named(layers)}
          /\ If(key = "servers", Named(layers)) = {Named(layers)}
      BY <2>1, <1>2, <1>3 DEF If
    <3>2. /\ Opinion(layers, key).defines = {} /\ Opinion(layers, key).denies = {}
          /\ Opinion(layers, key).all = FALSE
      BY <2>1, <1>2 DEF NoOpinion
    <3>3. QED
      BY <2>1, <3>1, <3>2
  <2>2. CASE key = "tools"
    BY <2>2, <1>4, Opinions DEF If
  <2>3. CASE key \notin {"servers", "tools"}
    <3>1. NoOpinion.all = FALSE
      BY DEF NoOpinion
    <3>2. QED
      BY <2>3, <3>1, <1>5, Opinions DEF If
  <2>4. QED
    BY <2>1, <2>2, <2>3
<1>7. QED
  BY <1>1, <1>6

\* Only the agent's own mcp: says what a server is, and it names the servers it says it of.
LEMMA DefinesOnlyOwn ==
  ASSUME NEW layers, NEW agent, NEW workflow, NEW machine, NEW s
  PROVE  LET controls == ControlsOf(layers, agent, workflow, machine)
         IN  /\ Defining(controls, s) <=> s \in agent.mcp
             /\ s \in agent.mcp => \E c \in controls : agent.mcp \in c.admits
<1> DEFINE controls == ControlsOf(layers, agent, workflow, machine)
<1>1. ASSUME NEW c \in controls, s \in c.defines PROVE s \in agent.mcp
  <2>1. CASE c \in PolicyControls(layers)
    BY <1>1, <2>1, PolicyOpinions
  <2>2. CASE c \in WorkflowControls(workflow) \/ c \in StepControls(workflow)
             \/ c \in ExternalControls(machine, agent.provider)
    <3>1. c = NoOpinion
      BY <2>2, IfIn DEF WorkflowControls, StepControls, ExternalControls
    <3>2. QED
      BY <1>1, <3>1, Opinions
  <2>3. CASE c \in AgentControls(agent)
    <3>1. c \in {NoOpinion, Denying(agent.deny), Allowing(agent.allow), Declaring(agent.mcp)}
      BY <2>3, IfIn DEF AgentControls
    <3>2. QED
      BY <1>1, <3>1, Opinions
  <2>4. QED
    BY <1>1, <2>1, <2>2, <2>3 DEF ControlsOf
<1>2. ASSUME s \in agent.mcp PROVE \E c \in controls : s \in c.defines /\ agent.mcp \in c.admits
  <2>1. Declaring(agent.mcp) \in AgentControls(agent)
    BY <1>2, IfIn DEF AgentControls
  <2>2. Declaring(agent.mcp) \in controls
    BY <2>1 DEF ControlsOf
  <2>3. s \in Declaring(agent.mcp).defines /\ agent.mcp \in Declaring(agent.mcp).admits
    BY <1>2, Opinions
  <2>4. QED
    BY <2>2, <2>3
<1>3. QED
  BY <1>1, <1>2 DEF Defining

\* check_provider_options: what it lets through names no server but the agent's own, and no key an
\* adapter would act on.
LEMMA LetThrough ==
  ASSUME NEW layers, NEW agent, NEW workflow, NEW machine, NEW block \in Blocks,
         Governed(layers, agent, workflow, machine),
         ~OptionsRefused(layers, agent, workflow, machine, block)
  PROVE  block.servers \subseteq agent.mcp /\ block.keys \subseteq {"mcp_servers", "inert"}
<1> DEFINE controls == ControlsOf(layers, agent, workflow, machine)
<1>1. \A key \in block.keys : ~OptionRefused(controls, agent.provider, block, key)
  BY DEF OptionsRefused
<1>2. \A key \in block.keys : key \in AllowedOptions(agent.provider)
        /\ key \notin {"env", "user", "approval_mode", "usage_baseline"}
  BY <1>1 DEF OptionRefused
<1>3. block.keys \subseteq {"mcp_servers", "inert"}
  BY <1>2 DEF AllowedOptions
<1>4. ASSUME NEW s \in block.servers PROVE s \in agent.mcp
  <2>1. "mcp_servers" \in block.keys
    BY BlocksAssumption
  <2>2. Defining(controls, s)
    BY <1>1, <2>1 DEF OptionRefused
  <2>3. QED
    BY <2>2, DefinesOnlyOwn
<1>5. QED
  BY <1>3, <1>4

LEMMA WidenNothing == OptionsWidenNothing
<1> SUFFICES ASSUME NEW layers \in Policies, NEW agent \in Agents, NEW workflow \in Workflows,
                    NEW machine \in Machines, NEW block \in Blocks,
                    ControlsOf(layers, agent, workflow, machine) # {},
                    Accepted(layers, agent, workflow, machine, block)
             PROVE  /\ Reached(layers, agent, machine, block)
                         \subseteq Reached(layers, agent, machine, NoBlock)
                    /\ Applied(agent.provider, block) = {}
  BY DEF OptionsWidenNothing
<1> DEFINE folded == Folded(layers, agent)
<1>1. block.servers \subseteq agent.mcp /\ block.keys \subseteq {"mcp_servers", "inert"}
  BY LetThrough DEF Governed, Accepted
<1>2. Applied(agent.provider, block) = {}
  BY <1>1 DEF Applied
<1>3. folded.mcp = agent.mcp
  BY AgentsAssumption DEF Folded
<1>4. ClaudeServers(folded, block) = ClaudeServers(folded, NoBlock)
  BY <1>1, <1>3 DEF ClaudeServers, From, NoBlock
<1>5. CodexServers(folded, machine, block) \subseteq CodexServers(folded, machine, NoBlock)
  BY <1>1, <1>3 DEF CodexServers, From, NoBlock
<1>6. Reached(layers, agent, machine, block) \subseteq Reached(layers, agent, machine, NoBlock)
  BY <1>4, <1>5 DEF Reached
<1>7. QED
  BY <1>2, <1>6

------------------------------------------------------------------------------

LEMMA SaidGrows ==
  ASSUME NEW layers, NEW more, layers \subseteq more
  PROVE  \A key, x : x \in Said(layers, key) => x \in Said(more, key)
BY DEF Said

LEMMA ControlKeysGrow ==
  ASSUME NEW layers, NEW more, layers \subseteq more
  PROVE  ControlKeys(layers) \subseteq ControlKeys(more)
<1>1. \A key : Said(layers, key) \subseteq Said(more, key)
  BY SaidGrows
<1>2. \A key : Said(layers, key) # {} => Said(more, key) # {}
  <2>1. TAKE key
  <2>2. QED
    BY <1>1
<1>3. \A l \in layers : l \in more
  OBVIOUS
<1>4. ASSUME NEW key \in ControlKeys(layers) PROVE key \in ControlKeys(more)
  <2>1. CASE /\ Said(layers, key) # {}
             /\ key \in {"providers", "models", "access", "tools", "servers", "ceilings", "slots"}
    BY <2>1, <1>2 DEF ControlKeys
  <2>2. CASE key = "trust" /\ \E l \in layers : l.trust
    BY <2>2, <1>3 DEF ControlKeys
  <2>3. CASE key = "classes" /\ \E l \in layers : Held(l) # {}
    BY <2>3, <1>3 DEF ControlKeys
  <2>4. QED
    BY <1>4, <2>1, <2>2, <2>3 DEF ControlKeys
<1>5. QED
  BY <1>4


\* Whatever a layer is added to, the servers a control refuses of the agent's own stay refused.
LEMMA RefusingGrows ==
  ASSUME NEW layers, NEW more, layers \subseteq more, NEW agent, NEW workflow, NEW machine,
         NEW server \in agent.mcp,
         Refusing(ControlsOf(layers, agent, workflow, machine), server)
  PROVE  Refusing(ControlsOf(more, agent, workflow, machine), server)
<1> DEFINE other == WorkflowControls(workflow) \union StepControls(workflow)
                      \union AgentControls(agent) \union ExternalControls(machine, agent.provider)
           C == ControlsOf(layers, agent, workflow, machine)
           D == ControlsOf(more, agent, workflow, machine)
<1>1. C = PolicyControls(layers) \union other /\ D = PolicyControls(more) \union other
  BY DEF ControlsOf
<1>2. \A key \in ControlKeys(layers) : Opinion(more, key) \in D
  BY <1>1, PolicyOpinions, ControlKeysGrow
<1>3. ASSUME NEW c \in PolicyControls(layers)
      PROVE  \E key \in ControlKeys(layers) : c = Opinion(layers, key)
  BY <1>3, PolicyOpinions
<1>4. ASSUME NEW c \in C, c.all \/ server \in c.denies PROVE Refusing(D, server)
  <2>1. CASE c \in other
    BY <1>1, <1>4, <2>1 DEF Refusing
  <2>2. CASE c \in PolicyControls(layers)
    <3>1. PICK key \in ControlKeys(layers) : c = Opinion(layers, key)
      BY <1>3, <2>2
    <3>2. /\ key = "tools"
          /\ \/ AllMcp \in Said(layers, "tools")
             \/ server \in ServersOf(Said(layers, "tools"))
      BY <1>4, <3>1, PolicyOpinions
    <3>3. AllMcp \in Said(more, "tools") \/ server \in ServersOf(Said(more, "tools"))
      BY <3>2, SaidGrows DEF ServersOf
    <3>4. Opinion(more, key).all \/ server \in Opinion(more, key).denies
      BY <3>2, <3>3, PolicyOpinions
    <3>5. QED
      BY <1>2, <3>4 DEF Refusing
  <2>3. QED
    BY <1>1, <2>1, <2>2
<1>5. ASSUME NEW c \in C, NEW list \in c.admits, server \notin list PROVE Refusing(D, server)
  <2>1. CASE c \in other
    BY <1>1, <1>5, <2>1 DEF Refusing, InAll
  <2>2. CASE c \in PolicyControls(layers)
    <3>1. PICK key \in ControlKeys(layers) : c = Opinion(layers, key)
      BY <1>3, <2>2
    <3>2. key = "servers" /\ list = Named(layers)
      <4>1. list \in If(key = "servers", Named(layers))
        BY <1>5, <3>1, PolicyOpinions
      <4>2. QED
        BY <4>1 DEF If
    <3>3. Said(layers, "servers") # {}
      BY <3>1, <3>2 DEF ControlKeys
    <3>4. PICK l \in Said(layers, "servers") : server \notin l
      BY <1>5, <3>2, <3>3 DEF Named, InAll
    <3>5. server \notin Named(more)
      BY <3>4, SaidGrows DEF Named, InAll
    <3>6. Named(more) \in Opinion(more, key).admits
      <4>1. Named(more) \in If(key = "servers", Named(more))
        BY <3>2, IfIn
      <4>2. QED
        BY <4>1, PolicyOpinions
    <3>7. QED
      BY <1>2, <3>5, <3>6 DEF Refusing, InAll
  <2>3. QED
    BY <1>1, <2>1, <2>2
<1>6. UNION {c.admits : c \in C} # {}
  <2>1. \E c \in C : agent.mcp \in c.admits
    BY DefinesOnlyOwn
  <2>2. QED
    BY <2>1
<1>7. QED
  BY <1>4, <1>5, <1>6 DEF Refusing, InAll

LEMMA OptionsStayRefused ==
  ASSUME NEW layers, NEW more, layers \subseteq more,
         NEW agent, NEW workflow, NEW machine, NEW block,
         OptionsRefused(layers, agent, workflow, machine, block)
  PROVE  OptionsRefused(more, agent, workflow, machine, block)
<1> DEFINE C == ControlsOf(layers, agent, workflow, machine)
           D == ControlsOf(more, agent, workflow, machine)
<1>1. D # {}
  <2>1. CASE PolicyControls(layers) = {}
    BY <2>1 DEF OptionsRefused, Governed, ControlsOf
  <2>2. CASE PolicyControls(layers) # {}
    <3>1. ControlKeys(more) # {}
      BY <2>2, PolicyOpinions, ControlKeysGrow
    <3>2. QED
      BY <3>1, PolicyOpinions DEF ControlsOf
  <2>3. QED
    BY <2>1, <2>2
<1>2. PICK key \in block.keys : OptionRefused(C, agent.provider, block, key)
  BY DEF OptionsRefused
<1>3. ASSUME NEW s, Refusing(C, s) \/ ~Defining(C, s) PROVE Refusing(D, s) \/ ~Defining(D, s)
  <2>1. Defining(C, s) <=> Defining(D, s)
    BY DefinesOnlyOwn
  <2>2. CASE s \in agent.mcp
    BY <1>3, <2>1, <2>2, RefusingGrows
  <2>3. CASE s \notin agent.mcp
    BY <2>3, DefinesOnlyOwn
  <2>4. QED
    BY <2>2, <2>3
<1>4. OptionRefused(D, agent.provider, block, key)
  BY <1>2, <1>3 DEF OptionRefused
<1>5. QED
  BY <1>1, <1>4 DEF OptionsRefused, Governed

LEMMA PolicyStillRefuses ==
  ASSUME NEW layers, NEW more, layers \subseteq more,
         NEW agent, NEW workflow, PolicyRefuses(layers, agent, workflow)
  PROVE  PolicyRefuses(more, agent, workflow)
<1>1. \A key, x : x \in Said(layers, key) => x \in Said(more, key)
  BY SaidGrows
<1>2. \A key, x : ~InAll(x, Said(layers, key)) => ~InAll(x, Said(more, key))
  BY <1>1 DEF InAll
<1>3. AccessExceeded(layers, agent.access) => AccessExceeded(more, agent.access)
  BY <1>1 DEF AccessExceeded
<1>4. ASSUME agent.allow \intersect Said(layers, "tools") # {}
      PROVE  agent.allow \intersect Said(more, "tools") # {}
  BY <1>1, <1>4
<1>5. (\E l \in layers : l.trust) => (\E l \in more : l.trust)
  OBVIOUS
<1>6. QED
  BY <1>1, <1>2, <1>3, <1>4, <1>5 DEF PolicyRefuses

\* _fold and the adapters: the more is denied, the less is reached.
LEMMA ReachShrinks ==
  ASSUME NEW layers, NEW more, layers \subseteq more, NEW agent \in Agents, NEW machine, NEW block
  PROVE  Reached(more, agent, machine, block)
           \subseteq Reached(layers, agent, machine, block)
<1> DEFINE a == Folded(layers, agent)
           b == Folded(more, agent)
<1>1. a.mcp = b.mcp /\ a.allow = b.allow /\ a.deny \subseteq b.deny
  <2>1. /\ a.mcp = agent.mcp /\ a.allow = agent.allow /\ b.mcp = agent.mcp /\ b.allow = agent.allow
        /\ a.deny = agent.deny \union If(agent.network = "off", Web)
                      \union Enforceable(agent.provider, Said(layers, "tools"))
        /\ b.deny = agent.deny \union If(agent.network = "off", Web)
                      \union Enforceable(agent.provider, Said(more, "tools"))
    BY AgentsAssumption DEF Folded
  <2>2. Enforceable(agent.provider, Said(layers, "tools"))
          \subseteq Enforceable(agent.provider, Said(more, "tools"))
    BY SaidGrows DEF Enforceable
  <2>3. QED
    BY <2>1, <2>2
<1> HIDE DEF a, b
<1>2. ServersOf(a.deny) \subseteq ServersOf(b.deny)
  BY <1>1 DEF ServersOf
<1>3. ClaudeServers(b, block) \subseteq ClaudeServers(a, block)
  BY <1>1, <1>2 DEF ClaudeServers
<1>4. CodexServers(b, machine, block) \subseteq CodexServers(a, machine, block)
  BY <1>1 DEF CodexServers
<1>5. QED
  BY <1>3, <1>4 DEF Reached, a, b

LEMMA ApprovalsHarden ==
  ASSUME NEW layers, NEW more, layers \subseteq more, NEW class
  PROVE
         /\ MayApproveAutomatically(more, class) => MayApproveAutomatically(layers, class)
         /\ MayDecideOutOfBand(more, class) => MayDecideOutOfBand(layers, class)
BY SaidGrows DEF MayApproveAutomatically, MayDecideOutOfBand, RulesFor

LEMMA OnlyRestrict == LayersOnlyRestrict
<1> SUFFICES ASSUME NEW layers \in Policies, NEW layer \in Layers,
                    NEW more, more = layers \union {layer}
             PROVE
    /\ \A agent \in Agents, workflow \in Workflows, machine \in Machines, block \in Blocks :
         Accepted(more, agent, workflow, machine, block) =>
           /\ Accepted(layers, agent, workflow, machine, block)
           /\ Reached(more, agent, machine, block) \subseteq Reached(layers, agent, machine, block)
    /\ \A class \in {c[1] : c \in Said(more, "classes")} :
         /\ MayApproveAutomatically(more, class) => MayApproveAutomatically(layers, class)
         /\ MayDecideOutOfBand(more, class) => MayDecideOutOfBand(layers, class)
  BY DEF LayersOnlyRestrict
<1>1. layers \subseteq more
  OBVIOUS
<1>2. ASSUME NEW agent \in Agents, NEW workflow, NEW machine, NEW block,
             Accepted(more, agent, workflow, machine, block)
      PROVE  Accepted(layers, agent, workflow, machine, block)
  BY <1>1, <1>2, OptionsStayRefused, PolicyStillRefuses DEF Accepted
<1>3. QED
  BY <1>1, <1>2, ReachShrinks, ApprovalsHarden

\* policy/apply.py, check_provider_options: for any policy files, agents, workflows, machines and
\* blocks, what passes under a control is no freer than without its provider_options.
THEOREM OptionsNeverWiden == Spec => []NothingWidened
<1>1. NothingWidened
  BY WidenNothing DEF NothingWidened
<1>2. QED
  BY <1>1, PTL

\* policy/layers.py: for any files, adding one refuses what was refused, reaches no more servers and
\* makes no approval easier.
THEOREM LayersNeverLoosen == Spec => []RestrictionsOnlyAdd
<1>1. RestrictionsOnlyAdd
  BY OnlyRestrict DEF RestrictionsOnlyAdd
<1>2. QED
  BY <1>1, PTL
==============================================================================
