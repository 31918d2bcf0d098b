--------------------------- MODULE StepStoreProofs ---------------------------
(***************************************************************************)
(* For any needles, characters and number of processes, whatever is cut    *)
(* short and whatever saves beside the step: a record in run.json names    *)
(* the output it was saved with, an announced success is on record, what   *)
(* makes the engine execute it again is named, and its stream is the       *)
(* redaction of its text, however that was cut into deltas.                *)
(***************************************************************************)
EXTENDS StepStore, FiniteSetTheorems, SequenceTheorems, WellFoundedInduction, TLAPS

------------------------------------------------------------------------------
(* What the run directory says of the step *)

Records == [status: {"none", "running", "succeeded", "failed", "skipped"}, ref: Kinds \union {"none"},
            sha: Nat, by: Nat, print: Prints \union {0}]

StoreType ==
  /\ pc \in Stages /\ lock \in {"free", "step", "beat"}
  /\ mem \in Records /\ disk \in Records /\ cache \in Records /\ beat \in Records \union {NoBeat}
  /\ file \in [Kinds -> Nat] /\ kind \in Kinds /\ print \in Prints
  /\ gen \in Nat /\ announced \in 0..gen /\ demoted \in Nat

\* The lock of the records, and whoever holds it.
LockInv ==
  /\ lock = "beat" <=> beat # NoBeat
  /\ lock = "step" <=> pc \in {"unlinked", "written"}
  /\ pc = "dead" => lock = "free"

\* Whatever a record names was written by the execution it is about.
Good(r) == r.ref # "none" => file[r.ref] = r.sha /\ r.sha = r.by

Executing == pc \in {"run", "done", "unlinked", "written"}
Early     == pc \in {"reuse", "replay", "start"}

\* Before the step runs, memory, cache and disk agree.  From its start to its output no record
\* names an output; from then on they name this one.  What is announced as a success is saved,
\* anything else is of a record begun in this process.
PhaseInv ==
  /\ Early => mem = disk /\ cache = disk
  /\ pc = "replay" => Reusable(cache)
  /\ pc \in {"run", "done", "unlinked"} => mem.ref = "none"
  /\ pc \in {"run", "done", "unlinked", "written"} => disk.ref = "none"
  /\ pc = "written" => mem.ref = kind
  /\ pc \in {"done", "unlinked", "written"} => mem.status = "succeeded"
  /\ pc = "announce" /\ mem.status = "succeeded" => mem.ref # "none" /\ mem = disk
  /\ Executing \/ (pc = "announce" /\ mem.status # "succeeded") => mem.by = gen /\ announced < gen
  /\ mem.by <= gen /\ disk.by <= gen

\* A payload that another save has serialised is the record of memory, up to the verdict.
BeatInv ==
  beat # NoBeat =>
    /\ beat.ref = mem.ref /\ beat.sha = mem.sha /\ beat.by = mem.by
    /\ Early \/ (pc = "announce" /\ mem.status = "succeeded") => beat = mem

\* The record of an announced success: only its status may have been taken back.
OnRecord(r) ==
  /\ r.by = gen /\ r.ref # "none" /\ file[r.ref] = gen
  /\ r.status = "succeeded" \/ (r.status = "failed" /\ demoted = gen)

\* An announced success is the last word of memory, of disk and of a save under way.
AnnouncedInv ==
  AnnouncedLast =>
    /\ OnRecord(disk)
    /\ pc # "dead" => OnRecord(mem)
    /\ beat # NoBeat => OnRecord(beat)

PendingInv ==
  /\ pc \in {"dead", "reuse", "replay", "start"} => pending = <<>>
  /\ pc \in {"announce", "over"} /\ announced = gen => pending = <<>>

\* Everything but the text of the stream, and with it.
RecordInv ==
  StoreType /\ LockInv /\ Good(mem) /\ Good(disk) /\ PhaseInv /\ BeatInv /\ AnnouncedInv

StoreInv == RecordInv /\ PendingInv

LEMMA RecordTypes ==
  /\ NoRec \in Records /\ NoRec.ref = "none" /\ NoBeat \notin Records
  /\ NoRec.by = 0
  /\ \A n \in Nat : Rec("running", "none", 0, n) \in Records /\ Rec("skipped", "none", 0, n) \in Records
BY DEF NoRec, NoBeat, Rec, Records

LEMMA RecordNumbers == \A r \in Records : r.by \in Nat
BY DEF Records

\* Marking a record failed changes nothing else of it.
LEMMA FailedKeeps ==
  ASSUME NEW r \in Records
  PROVE  /\ Failed(r) \in Records /\ Failed(r).status = "failed" /\ Failed(r).ref = r.ref
         /\ Failed(r).sha = r.sha /\ Failed(r).by = r.by
BY DEF Failed, Records

LEMMA StoreInit == Init => StoreInv
<1> SUFFICES ASSUME Init PROVE StoreInv
  OBVIOUS
<1> USE RecordTypes DEF Init
<1>1. StoreType /\ LockInv
  BY DEF StoreType, LockInv, Stages, Kinds, Prints
<1>2. Good(mem) /\ Good(disk) /\ BeatInv /\ AnnouncedInv /\ PendingInv
  BY DEF Good, BeatInv, AnnouncedInv, AnnouncedLast, PendingInv
<1>3. PhaseInv
  BY DEF PhaseInv, Executing, Early
<1>4. QED
  BY <1>1, <1>2, <1>3 DEF StoreInv, RecordInv

\* The step's task, from a cached record or from scratch, up to the verdict.
LEMMA TaskKeeps ==
  ASSUME RecordInv, TryReuse \/ Skip \/ Replay \/ Start \/ Delta \/ EndAttempt PROVE RecordInv'
<1> USE DEF RecordInv, StoreType, LockInv, Good, PhaseInv, BeatInv, AnnouncedInv, AnnouncedLast,
            OnRecord, Executing, Early, Stages
<1>1. CASE TryReuse
  BY <1>1 DEF TryReuse, Replayable, fixed, texts, ghosts
<1>2. CASE Replay
  <2>1. /\ pc = "replay" /\ lock = "free" /\ beat = NoBeat /\ cache = disk /\ mem = disk
        /\ cache.status = "succeeded" /\ cache.ref # "none"
        /\ UNCHANGED <<cache, file, lock, beat, fixed, gen, announced>>
    BY <1>2 DEF Replay, Reusable
  <2>2. CASE mem' = cache /\ disk' \in {cache, disk} /\ pc' \in {"announce", "over"} /\ demoted' = demoted
    BY <2>1, <2>2 DEF fixed
  <2>3. CASE mem' = Failed(cache) /\ disk' = disk /\ pc' = "over" /\ demoted' = cache.by
    <3> DEFINE marked == Failed(cache)
    <3>1. /\ marked \in Records /\ marked.status = "failed" /\ marked.ref = cache.ref
          /\ marked.sha = cache.sha /\ marked.by = cache.by
      BY FailedKeeps
    <3> HIDE DEF marked
    <3>2. mem' = marked
      BY <2>3 DEF marked
    <3>3. QED
      <4>1. StoreType'
        BY RecordNumbers, <2>1, <2>3, <3>1, <3>2 DEF fixed
      <4>2. LockInv'
        BY <2>1, <2>3, <3>1, <3>2 DEF fixed
      <4>3. (Good(mem) /\ Good(disk))'
        BY <2>1, <2>3, <3>1, <3>2 DEF fixed
      <4>4. PhaseInv'
        BY <2>1, <2>3, <3>1, <3>2 DEF fixed
      <4>5. BeatInv'
        BY <2>1, <2>3, <3>1, <3>2 DEF fixed
      <4>6. AnnouncedInv'
        BY <2>1, <2>3, <3>1, <3>2 DEF fixed
      <4>7. QED
        BY <4>1, <4>2, <4>3, <4>4, <4>5, <4>6
  <2>4. QED
    BY <1>2, <2>2, <2>3 DEF Replay
<1>3. CASE Start \/ Skip
  <2> DEFINE new == Rec("running", "none", 0, gen + 1)
             failing == Failed(new)
             skipped == Rec("skipped", "none", 0, gen + 1)
  <2>1. /\ new \in Records /\ new.ref = "none" /\ new.by = gen + 1 /\ new.status = "running"
        /\ skipped \in Records /\ skipped.ref = "none" /\ skipped.by = gen + 1
        /\ skipped.status = "skipped"
    BY RecordTypes DEF Rec
  <2>2. /\ failing \in Records /\ failing.ref = "none" /\ failing.by = gen + 1
        /\ failing.status = "failed"
    <3> HIDE DEF new
    <3>1. QED
      BY <2>1, FailedKeeps
  <2>3. /\ \/ mem' = new /\ disk' = new /\ pc' = "run"
           \/ mem' = failing /\ disk' = disk /\ pc' = "announce"
           \/ mem' = skipped /\ disk' = skipped /\ pc' = "announce"
           \/ mem' = skipped /\ disk' = disk /\ pc' = "over"
        /\ pc \in {"start", "reuse"} /\ lock = "free" /\ beat = NoBeat /\ gen' = gen + 1
        /\ UNCHANGED <<cache, file, lock, beat, fixed, announced, demoted>>
    BY <1>3 DEF Start, Skip
  <2> HIDE DEF new, failing, skipped
  <2>4. QED
    <3>1. StoreType'
      <4>1. mem' \in Records /\ disk' \in Records /\ pc' \in Stages
        BY <2>1, <2>2, <2>3
      <4>2. gen' \in Nat /\ announced' \in 0..gen'
        BY <2>3
      <4>3. QED
        BY <2>3, <4>1, <4>2 DEF fixed
    <3>2. LockInv'
      BY <2>1, <2>2, <2>3 DEF fixed
    <3>3. (Good(mem) /\ Good(disk))'
      BY <2>1, <2>2, <2>3 DEF fixed
    <3>4. PhaseInv'
      <4>1. mem.by \in Nat /\ disk.by \in Nat /\ disk.by <= gen + 1 /\ announced < gen + 1
        BY RecordNumbers
      <4>2. CASE mem' = new /\ disk' = new /\ pc' = "run"
        BY <2>1, <2>3, <4>1, <4>2 DEF fixed
      <4>3. CASE mem' = failing /\ disk' = disk /\ pc' = "announce"
        BY <2>2, <2>3, <4>1, <4>3 DEF fixed
      <4>4. CASE mem' = skipped /\ disk' \in {disk, skipped} /\ pc' \in {"announce", "over"}
        BY <2>1, <2>3, <4>1, <4>4 DEF fixed
      <4>5. QED
        BY <2>3, <4>2, <4>3, <4>4
    <3>5. BeatInv'
      BY <2>1, <2>2, <2>3 DEF fixed
    <3>6. AnnouncedInv'
      BY <2>1, <2>2, <2>3 DEF fixed
    <3>7. QED
      BY <3>1, <3>2, <3>3, <3>4, <3>5, <3>6
<1>4. CASE Delta
  BY <1>4 DEF Delta, task, fixed, ghosts
<1>5. CASE EndAttempt
  <2> DEFINE ended(s) == [mem EXCEPT !.status = s, !.print = print]
  <2>a. \A s \in {"succeeded", "failed"} :
          /\ ended(s) \in Records /\ ended(s).status = s
          /\ ended(s).ref = mem.ref /\ ended(s).sha = mem.sha /\ ended(s).by = mem.by
    BY DEF Records
  <2>b. /\ pc = "run"
        /\ \/ pc' = "done" /\ mem' = ended("succeeded")
           \/ pc' = "announce" /\ mem' = ended("failed")
        /\ UNCHANGED <<disk, cache, file, lock, beat, fixed, ghosts>>
    BY <1>5 DEF EndAttempt
  <2> HIDE DEF ended
  <2>1. /\ pc = "run" /\ mem' \in Records
        /\ mem'.ref = mem.ref /\ mem'.sha = mem.sha /\ mem'.by = mem.by
        /\ \/ pc' = "done" /\ mem'.status = "succeeded"
           \/ pc' = "announce" /\ mem'.status = "failed"
        /\ UNCHANGED <<disk, cache, file, lock, beat, fixed, ghosts>>
    BY <2>a, <2>b
  <2>2. StoreType'
    BY <2>1 DEF fixed, ghosts
  <2>3. LockInv'
    BY <2>1 DEF fixed, ghosts
  <2>4. Good(mem)' /\ Good(disk)'
    BY <2>1 DEF fixed, ghosts
  <2>5. PhaseInv' /\ AnnouncedInv'
    BY <2>1 DEF fixed, ghosts
  <2>6. BeatInv'
    BY <2>1 DEF fixed, ghosts
  <2>7. QED
    BY <2>2, <2>3, <2>4, <2>5, <2>6
<1>6. QED
  BY <1>1, <1>2, <1>3, <1>4, <1>5

\* The step's task, once it has a verdict: its output, its record, its event.
LEMMA PersistKeeps ==
  ASSUME RecordInv,
         \/ Unlink \/ WriteOutput \/ SaveOutcome \/ SaveFailure \/ PersistFails
         \/ Announce \/ AnnounceFails
  PROVE  RecordInv'
<1> USE DEF RecordInv, StoreType, LockInv, Good, PhaseInv, BeatInv, AnnouncedInv, AnnouncedLast,
            OnRecord, Executing, Early, Stages
<1>1. CASE Unlink
  BY <1>1 DEF Unlink, fixed, texts, ghosts
<1>2. CASE WriteOutput
  <2>1. /\ pc = "unlinked" /\ pc' = "written" /\ mem' \in Records
        /\ mem'.ref = kind /\ mem'.sha = gen /\ mem'.by = mem.by /\ mem'.status = mem.status
        /\ file' = [file EXCEPT ![kind] = gen] /\ kind # "none"
        /\ UNCHANGED <<disk, cache, lock, beat, fixed, ghosts>>
    BY <1>2 DEF WriteOutput, Records, Kinds
  <2>2. lock = "step" /\ beat = NoBeat
    BY <2>1
  <2>3. StoreType' /\ LockInv' /\ Good(mem)' /\ Good(disk)' /\ BeatInv'
    BY <2>1, <2>2 DEF fixed, ghosts
  <2>4. PhaseInv' /\ AnnouncedInv'
    BY <2>1 DEF fixed, ghosts
  <2>5. QED
    BY <2>3, <2>4
<1>3. CASE SaveOutcome
  <2>1. /\ pc = "written" /\ pc' = "announce" /\ lock' = "free" /\ disk' = mem
        /\ lock = "step" /\ beat = NoBeat /\ kind # "none"
        /\ UNCHANGED <<mem, cache, file, beat, fixed, ghosts>>
    BY <1>3 DEF SaveOutcome, Kinds
  <2>2. StoreType' /\ LockInv' /\ Good(mem)' /\ Good(disk)' /\ BeatInv'
    BY <2>1 DEF fixed, ghosts
  <2>3. PhaseInv' /\ AnnouncedInv'
    BY <2>1 DEF fixed, ghosts
  <2>4. QED
    BY <2>2, <2>3
<1>4. CASE SaveFailure
  BY <1>4 DEF SaveFailure, fixed, texts, ghosts
<1>5. CASE PersistFails
  <2> DEFINE marked == Failed(mem)
  <2>1. /\ marked \in Records /\ marked.status = "failed" /\ marked.ref = mem.ref
        /\ marked.sha = mem.sha /\ marked.by = mem.by
    BY FailedKeeps
  <2>2. /\ pc \in {"done", "unlinked", "written"} /\ lock # "beat"
        /\ pc' = "over" /\ lock' = "free" /\ mem' = marked
        /\ UNCHANGED <<disk, cache, file, beat, fixed, ghosts>>
    BY <1>5 DEF PersistFails
  <2> HIDE DEF marked
  <2>3. QED
    BY <2>1, <2>2 DEF fixed, ghosts
<1>6. CASE Announce
  <2>1. CASE mem.status = "succeeded"
    <3>1. announced' = mem.by /\ Good(mem) /\ disk = mem /\ mem.ref # "none"
          /\ pc = "announce" /\ pc' = "over" /\ (beat # NoBeat => beat = mem)
          /\ UNCHANGED <<mem, disk, cache, file, lock, beat, fixed, gen, demoted>>
      BY <1>6, <2>1 DEF Announce
    <3>2. QED
      <4>1. StoreType'
        BY RecordNumbers, <2>1, <3>1 DEF fixed
      <4>2. LockInv'
        BY <2>1, <3>1 DEF fixed
      <4>3. (Good(mem) /\ Good(disk))'
        BY <2>1, <3>1 DEF fixed
      <4>4. PhaseInv'
        BY <2>1, <3>1 DEF fixed
      <4>5. BeatInv'
        BY <2>1, <3>1 DEF fixed
      <4>6. AnnouncedInv'
        BY <2>1, <3>1 DEF fixed
      <4>7. QED
        BY <4>1, <4>2, <4>3, <4>4, <4>5, <4>6
  <2>2. CASE mem.status # "succeeded"
    BY <1>6, <2>2 DEF Announce, fixed
  <2>3. QED
    BY <2>1, <2>2
<1>7. CASE AnnounceFails
  <2> DEFINE marked == Failed(mem)
  <2>1. /\ marked \in Records /\ marked.status = "failed" /\ marked.ref = mem.ref
        /\ marked.sha = mem.sha /\ marked.by = mem.by
    BY FailedKeeps
  <2>2. /\ pc = "announce" /\ mem.status = "succeeded" /\ mem.ref # "none" /\ disk = mem
        /\ (beat # NoBeat => beat = mem)
        /\ pc' = "over" /\ mem' = marked /\ demoted' = mem.by /\ announced' \in {announced, mem.by}
        /\ UNCHANGED <<disk, cache, file, lock, beat, fixed, gen>>
    BY <1>7 DEF AnnounceFails
  <2> HIDE DEF marked
  <2>3. QED
    <3>1. StoreType'
      BY RecordNumbers, <2>1, <2>2 DEF fixed
    <3>2. LockInv'
      BY <2>1, <2>2 DEF fixed
    <3>3. (Good(mem) /\ Good(disk))'
      BY <2>1, <2>2 DEF fixed
    <3>4. PhaseInv'
      BY <2>1, <2>2 DEF fixed
    <3>5. BeatInv'
      BY <2>1, <2>2 DEF fixed
    <3>6. AnnouncedInv'
      BY <2>1, <2>2 DEF fixed
    <3>7. QED
      BY <3>1, <3>2, <3>3, <3>4, <3>5, <3>6
<1>8. QED
  BY <1>1, <1>2, <1>3, <1>4, <1>5, <1>6, <1>7

\* The heartbeat and the other saves, a crash, a resume.
LEMMA OthersKeep == ASSUME RecordInv, Beat \/ BeatSaves \/ Crash \/ Resume PROVE RecordInv'
<1> USE RecordTypes
    DEF RecordInv, StoreType, LockInv, Good, PhaseInv, BeatInv, AnnouncedInv, AnnouncedLast,
        OnRecord, Executing, Early, Stages
<1>1. CASE Beat
  BY <1>1 DEF Beat, fixed, texts, ghosts
<1>2. CASE BeatSaves
  <2>1. /\ beat # NoBeat /\ beat \in Records /\ lock = "beat" /\ disk' \in {disk, beat}
        /\ beat' = NoBeat /\ lock' = "free" /\ pc \notin {"unlinked", "written"}
        /\ UNCHANGED <<pc, mem, cache, file, fixed, ghosts>>
    BY <1>2 DEF BeatSaves
  <2>2. StoreType' /\ LockInv' /\ BeatInv' /\ PhaseInv' /\ Good(mem)'
    BY <2>1 DEF fixed, ghosts
  <2>3. Good(disk)'
    BY <2>1 DEF fixed, ghosts
  <2>4. AnnouncedInv'
    BY <2>1 DEF ghosts
  <2>5. QED
    BY <2>2, <2>3, <2>4
<1>3. CASE Crash
  BY <1>3 DEF Crash, fixed, ghosts
<1>4. CASE Resume
  <2>1. /\ pc = "dead" /\ pc' = "reuse" /\ cache' = disk /\ mem' = disk
        /\ print' \in Prints /\ kind' \in Kinds
        /\ UNCHANGED <<disk, file, lock, beat, ghosts>>
    BY <1>4 DEF Resume
  <2>2. StoreType' /\ LockInv' /\ Good(mem)' /\ Good(disk)' /\ PhaseInv'
    BY <2>1 DEF ghosts
  <2>3. AnnouncedInv' /\ BeatInv'
    BY <2>1 DEF ghosts
  <2>4. QED
    BY <2>2, <2>3
<1>5. QED
  BY <1>1, <1>2, <1>3, <1>4

LEMMA RecordStep == ASSUME RecordInv, [Next]_vars PROVE RecordInv'
<1>1. CASE UNCHANGED vars
  BY <1>1 DEF vars, task, fixed, ghosts, RecordInv, StoreType, LockInv, Good, PhaseInv, BeatInv,
              AnnouncedInv, AnnouncedLast, OnRecord, Executing, Early
<1>2. QED
  BY <1>1, TaskKeeps, PersistKeeps, OthersKeep DEF Next

\* A stream is empty until its step runs, and flushed by the event that announces the step.
LEMMA PendingStep == ASSUME RecordInv, PendingInv, [Next]_vars PROVE PendingInv'
<1> USE DEF PendingInv
<1>1. CASE TryReuse \/ Skip \/ Replay
  <2>1. pc \in {"reuse", "replay"} /\ pending' = pending
    BY <1>1 DEF TryReuse, Skip, Replay, texts
  <2>2. QED
    BY <2>1
<1>2. CASE Start
  BY <1>2 DEF Start
<1>3. CASE Delta \/ EndAttempt \/ Unlink \/ WriteOutput \/ SaveOutcome
  <2>1. pc \in {"run", "done", "unlinked", "written"} /\ UNCHANGED ghosts
        /\ pc' \in {"run", "done", "unlinked", "written", "announce"}
    BY <1>3 DEF Delta, EndAttempt, Unlink, WriteOutput, SaveOutcome, task
  <2>2. announced < gen /\ announced \in Nat /\ gen \in Nat
    BY <2>1 DEF RecordInv, StoreType, PhaseInv, Executing
  <2>3. QED
    BY <2>1, <2>2 DEF ghosts
<1>4. CASE SaveFailure \/ PersistFails
  <2>1. /\ UNCHANGED ghosts /\ pc' \in {"announce", "over"}
        /\ \/ pc \in {"done", "unlinked", "written"}
           \/ pc = "announce" /\ mem.status # "succeeded"
    BY <1>4 DEF SaveFailure, PersistFails
  <2>2. announced < gen /\ announced \in Nat /\ gen \in Nat
    BY <2>1 DEF RecordInv, StoreType, PhaseInv, Executing
  <2>3. QED
    BY <2>1, <2>2 DEF ghosts
<1>5. CASE Announce \/ AnnounceFails
  BY <1>5 DEF Announce, AnnounceFails
<1>6. CASE Beat \/ BeatSaves
  BY <1>6 DEF Beat, BeatSaves, texts, ghosts
<1>7. CASE Crash
  BY <1>7 DEF Crash
<1>8. CASE Resume
  BY <1>8 DEF Resume, texts
<1>9. CASE UNCHANGED vars
  BY <1>9 DEF vars, task, texts, ghosts
<1>10. QED
  BY <1>1, <1>2, <1>3, <1>4, <1>5, <1>6, <1>7, <1>8, <1>9 DEF Next

\* Over the crashes, failed writes and other saves of any number of processes: memory, disk, output
\* file and event log never contradict each other.
THEOREM RecordsAreSound == Spec => []StoreInv
<1>1. StoreInv /\ [Next]_vars => StoreInv'
  BY RecordStep, PendingStep DEF StoreInv
<1>2. QED
  BY <1>1, StoreInit, PTL DEF Spec

\* A record in run.json that names an output names the one its own execution wrote.
THEOREM RefsAreGood == Spec => []RefIsGood
<1>1. StoreInv => RefIsGood
  BY DEF StoreInv, RecordInv, Good, RefIsGood
<1>2. QED
  BY <1>1, RecordsAreSound, PTL

\* What events.jsonl calls a success last is on record, with its output in place, and no longer a
\* success only if an error after its verdict made it a failure.
THEOREM EventsFollowRecords == Spec => []EventAfterRecord
<1>1. StoreInv => EventAfterRecord
  BY DEF StoreInv, RecordInv, AnnouncedInv, OnRecord, EventAfterRecord
<1>2. QED
  BY <1>1, RecordsAreSound, PTL

\* What makes a resumed process execute again a step whose success was announced last: an edit,
\* the wish of its author or operator, or such an error in run.json.
THEOREM SuccessIsReplayed == Spec => NotExecutedTwice
<1> DEFINE Again == pc = "reuse" /\ pc' = "start" /\ AnnouncedLast
           Why   == /\ disk.by = gen
                    /\ disk.print # print \/ rerun \/ (disk.status = "failed" /\ demoted = gen)
<1>1. ASSUME StoreInv, [Next]_vars, Again PROVE Why
  <2>1. TryReuse
    BY <1>1 DEF Next, vars, task, TryReuse, Skip, Replay, Start, Delta, EndAttempt, Unlink,
                WriteOutput, SaveOutcome, SaveFailure, PersistFails, Announce, AnnounceFails,
                Beat, BeatSaves, Crash, Resume
  <2>2. cache = disk /\ ~Replayable
    BY <1>1, <2>1 DEF StoreInv, RecordInv, PhaseInv, Early, TryReuse
  <2>3. OnRecord(disk) /\ gen # 0
    BY <1>1 DEF StoreInv, RecordInv, AnnouncedInv, AnnouncedLast
  <2>4. QED
    BY <2>2, <2>3 DEF Replayable, Reusable, OnRecord
<1>2. StoreInv /\ [Next]_vars => [Again => Why]_vars
  BY <1>1
<1>3. QED
  BY <1>2, RecordsAreSound, PTL DEF Spec, NotExecutedTwice

------------------------------------------------------------------------------
(* Numbers and sets, by the least or the greatest that refutes *)

\* A non-empty set of naturals has a least element.
LEMMA LeastOf ==
  ASSUME NEW T \in SUBSET Nat, T # {}
  PROVE  \E n \in T : \A m \in T : n <= m
<1>1. PICK n \in T : \A m \in T : ~ (<<m, n>> \in OpToRel(<, Nat))
  BY WFMin, NatLessThanWellFounded, Zenon
<1>2. \A m \in T : ~(m < n)
  BY <1>1, Zenon DEF OpToRel
<1>3. QED
  BY <1>2

\* ... and a bounded one a greatest.
LEMMA GreatestOf ==
  ASSUME NEW N \in Nat, NEW T \in SUBSET (0..N), T # {}
  PROVE  \E n \in T : \A m \in T : m <= n
<1> DEFINE gaps == {N - m : m \in T}
<1>a. \A m \in T : N - m \in Nat
  OBVIOUS
<1>1. gaps \in SUBSET Nat /\ gaps # {}
  BY <1>a
<1> HIDE DEF gaps
<1>2. PICK g \in gaps : \A m \in gaps : g <= m
  BY <1>1, LeastOf
<1>3. PICK n \in T : g = N - n
  BY <1>2 DEF gaps
<1>4. ASSUME NEW m \in T PROVE m <= n
  <2>1. N - n <= N - m
    BY <1>2, <1>3 DEF gaps
  <2>2. m \in Int /\ n \in Int
    OBVIOUS
  <2>3. QED
    BY <2>1, <2>2
<1>5. QED
  BY <1>4

\* What fails at an index of a range fails there for the last time.
LEMMA LastOf ==
  ASSUME NEW N \in Nat, NEW T \in SUBSET (1..N), T # {}
  PROVE  \E i \in 1..N : i \in T /\ \A j \in 1..N : j > i => j \notin T
<1>1. T \in SUBSET (0..N)
  OBVIOUS
<1>2. PICK i \in T : \A j \in T : j <= i
  BY <1>1, GreatestOf
<1>3. i \in 1..N /\ \A j \in 1..N : j > i => j \notin T
  BY <1>2
<1>4. QED
  BY <1>2, <1>3

\* Of the subsets of a finite set, any collection has one that is not in it without an element.
LEMMA SmallestOf ==
  ASSUME NEW S, IsFiniteSet(S), NEW T \in SUBSET (SUBSET S), T # {}
  PROVE  \E s \in T : \A x \in s : s \ {x} \notin T
<1> DEFINE sizes == {Cardinality(s) : s \in T}
<1>1. \A s \in T : IsFiniteSet(s) /\ Cardinality(s) \in Nat
  BY FS_Subset, FS_CardinalityType
<1>2. sizes \in SUBSET Nat /\ sizes # {}
  BY <1>1
<1>3. PICK n \in sizes : \A m \in sizes : n <= m
  BY <1>2, LeastOf
<1>4. PICK s \in T : Cardinality(s) = n
  BY <1>3
<1>5. ASSUME NEW x \in s, s \ {x} \in T PROVE FALSE
  <2>1. Cardinality(s \ {x}) = Cardinality(s) - 1
    BY <1>1, FS_RemoveElement
  <2>2. Cardinality(s) <= Cardinality(s \ {x})
    BY <1>3, <1>4, <1>5
  <2>3. QED
    BY <1>1, <2>1, <2>2
<1>6. QED
  BY <1>5

------------------------------------------------------------------------------
(* The redactor: what a replacement keeps of a text *)

Symbols == Chars \union {Mark}
Words   == Seq(Chars) \ {<<>>}

\* An occurrence, entry by entry.
LEMMA FoundAt ==
  ASSUME NEW t \in Seq(Symbols), NEW w \in Words
  PROVE  /\ Found(w, t) \subseteq 1..Len(t)
         /\ \A i \in Nat \ {0} :
              i \in Found(w, t) <=>
                i + Len(w) - 1 <= Len(t) /\ \A k \in 1..Len(w) : t[i + k - 1] = w[k]
<1> DEFINE n == Len(t)
           l == Len(w)
<1>1. n \in Nat /\ l \in Nat \ {0} /\ \A i \in 1..n : t[i] \in Symbols
  BY EmptySeq, LenProperties, ElementOfSeq DEF Words
<1>2. w \in Seq(Symbols)
  BY SeqMonotonic DEF Words, Symbols
<1> HIDE DEF n, l
<1>3. ASSUME NEW i \in Nat \ {0}, i + l - 1 <= n
      PROVE  SubSeq(t, i, i + l - 1) = w <=> \A k \in 1..l : t[i + k - 1] = w[k]
  <2> DEFINE part == SubSeq(t, i, i + l - 1)
  <2>1. \A k \in i..(i + l - 1) : t[k] \in Symbols
    BY <1>1, <1>3
  <2>2. i \in Int /\ i + l - 1 \in Int /\ i <= i + l - 1 /\ (i + l - 1) - i + 1 = l
    BY <1>1
  <2>3. part \in Seq(Symbols) /\ Len(part) = l /\ \A k \in 1..l : part[k] = t[i + k - 1]
    BY <2>1, <2>2, SubSeqProperties
  <2> HIDE DEF part
  <2>4. (\A k \in 1..l : part[k] = w[k]) => part = w
    BY <1>2, <2>3, SeqEqual DEF l
  <2>5. QED
    BY <2>3, <2>4 DEF part
<1>4. Found(w, t) = {i \in 1..(n - l + 1) : SubSeq(t, i, i + l - 1) = w}
  BY DEF Found, n, l
<1>5. \A i \in Nat \ {0} : i \in 1..(n - l + 1) <=> i + l - 1 <= n
  BY <1>1
<1>6. \A i \in 1..(n - l + 1) : i \in 1..n /\ i \in Nat \ {0}
  BY <1>1
<1>7. QED
  BY <1>3, <1>4, <1>5, <1>6 DEF n, l

\* The tails of the replaced text, one entry at a time.
Scans(t, w, first, f) ==
  f = [i \in first..(Len(t) + 1) |->
         IF i > Len(t) THEN <<>>
         ELSE IF i \in Found(w, t) THEN <<Mark>> \o f[i + Len(w)]
         ELSE <<t[i]>> \o f[i + 1]]

Scan(t, w) == CHOOSE f : Scans(t, w, 1, f)

LEMMA ScanExists ==
  ASSUME NEW t \in Seq(Symbols), NEW w \in Words
  PROVE  \E f : Scans(t, w, 1, f)
<1> DEFINE n == Len(t)
           l == Len(w)
           good == {i \in 0..n : \E f : Scans(t, w, n + 1 - i, f)}
<1>1. n \in Nat /\ l \in Nat \ {0}
  BY EmptySeq, LenProperties DEF Words
<1>2. \A i \in Found(w, t) : i + l - 1 <= n
  BY FoundAt
<1>3. 0 \in good
  <2> DEFINE f == [i \in (n+1)..(n+1) |-> <<>>]
  <2> HIDE DEF n
  <2>1. \A i \in (n+1)..(n+1) : i > n
    BY <1>1
  <2>2. f = [i \in (n+1)..(n+1) |-> IF i > n THEN <<>>
                ELSE IF i \in Found(w, t) THEN <<Mark>> \o f[i + Len(w)] ELSE <<t[i]>> \o f[i + 1]]
    BY <2>1
  <2>3. Scans(t, w, n + 1, f)
    BY <2>2 DEF Scans, n
  <2>4. Scans(t, w, n + 1 - 0, f)
    BY <2>3, <1>1
  <2>5. QED
    BY <1>1, <2>4 DEF n
<1>4. ASSUME NEW i \in good, i < n PROVE i + 1 \in good
  <2>1. PICK f : Scans(t, w, n + 1 - i, f)
    BY <1>4
  <2> DEFINE a == n + 1 - i
             b == n - i
             body(g, j) == IF j > n THEN <<>>
                           ELSE IF j \in Found(w, t) THEN <<Mark>> \o g[j + l]
                           ELSE <<t[j]>> \o g[j + 1]
             h == [j \in b..(n + 1) |-> body(f, j)]
  <2>a. i \in Nat /\ a \in Nat /\ b \in Nat /\ a = b + 1 /\ b >= 1 /\ a <= n + 1
    BY <1>1, <1>4
  <2> HIDE DEF good, n, l, a, b
  <2>2. f = [j \in a..(n + 1) |-> body(f, j)]
    BY <2>1 DEF Scans, n, l, a
  <2>3. \A j \in a..(n + 1) : j \in b..(n + 1)
    BY <2>a, <1>1
  <2> HIDE DEF body
  <2>4. \A j \in a..(n + 1) : h[j] = f[j]
    BY <2>2, <2>3
  <2>5. ASSUME NEW j \in b..(n + 1) PROVE body(f, j) = body(h, j)
    <3>1. CASE j > n
      BY <3>1 DEF body
    <3>2. CASE j <= n
      <4>1. j + 1 \in a..(n + 1)
        BY <2>a, <3>2, <1>1
      <4>2. j \in Found(w, t) => j + l \in a..(n + 1)
        BY <2>a, <3>2, <1>1, <1>2
      <4>3. QED
        BY <4>1, <4>2, <2>4 DEF body
    <3>3. QED
      BY <3>1, <3>2, <1>1
  <2>6. h = [j \in b..(n + 1) |-> body(h, j)]
    BY <2>5
  <2>7. Scans(t, w, b, h)
    <3> HIDE DEF h
    <3>1. QED
      BY <2>6 DEF Scans, body, n, l
  <2>8. b = n + 1 - (i + 1) /\ i + 1 \in 0..n
    BY <1>1, <1>4, <2>a DEF b
  <2>9. QED
    BY <2>7, <2>8 DEF good
<1>5. PICK i \in good : \A j \in good : j <= i
  <2>1. good \in SUBSET (0..n) /\ good # {}
    BY <1>3
  <2> HIDE DEF good, n
  <2>2. QED
    BY <2>1, <1>1, GreatestOf
<1>6. i = n
  <2> HIDE DEF good
  <2>1. i \in 0..n
    BY DEF good
  <2>2. QED
    BY <1>1, <1>4, <1>5, <2>1
<1>7. n + 1 - i = 1
  BY <1>1, <1>6
<1>8. QED
  BY <1>5, <1>7

\* One entry at a time.
ScanAt(t, w, i) ==
  IF i > Len(t) THEN Scan(t, w)[i] = <<>>
  ELSE IF i \in Found(w, t) THEN Scan(t, w)[i] = <<Mark>> \o Scan(t, w)[i + Len(w)]
  ELSE Scan(t, w)[i] = <<t[i]>> \o Scan(t, w)[i + 1]

LEMMA ScanStep ==
  ASSUME NEW t \in Seq(Symbols), NEW w \in Words
  PROVE  \A i \in 1..(Len(t) + 1) : ScanAt(t, w, i)
<1> DEFINE f == Scan(t, w)
<1>1. Scans(t, w, 1, f)
  BY ScanExists DEF Scan
<1> HIDE DEF f
<1>2. ASSUME NEW i \in 1..(Len(t) + 1)
      PROVE  f[i] = IF i > Len(t) THEN <<>>
                    ELSE IF i \in Found(w, t) THEN <<Mark>> \o f[i + Len(w)]
                    ELSE <<t[i]>> \o f[i + 1]
  BY <1>1 DEF Scans
<1>3. QED
  BY <1>2, Zenon DEF f, ScanAt

LEMMA ReplaceIsScan == \A t, w : Replace(t, w) = Scan(t, w)[1]
BY DEF Replace, Scan, Scans

\* A tail is empty, or a symbol and a later tail.
LEMMA ScanFrom ==
  ASSUME NEW t \in Seq(Symbols), NEW w \in Words, NEW i \in 1..(Len(t) + 1)
  PROVE  \/ i = Len(t) + 1 /\ Scan(t, w)[i] = <<>>
         \/ i <= Len(t) /\ \E j \in 1..(Len(t) + 1), c \in Symbols :
              /\ Scan(t, w)[i] = <<c>> \o Scan(t, w)[j]
              /\ \/ i \in Found(w, t) /\ c = Mark /\ j = i + Len(w)
                 \/ i \notin Found(w, t) /\ c = t[i] /\ j = i + 1
<1>1. Len(t) \in Nat /\ Len(w) \in Nat \ {0} /\ \A k \in 1..Len(t) : t[k] \in Symbols
  BY EmptySeq, LenProperties, ElementOfSeq DEF Words
<1>2. ScanAt(t, w, i)
  BY ScanStep
<1>3. CASE i > Len(t)
  BY <1>1, <1>2, <1>3 DEF ScanAt
<1>4. CASE i <= Len(t) /\ i \in Found(w, t)
  <2>1. i + Len(w) \in 1..(Len(t) + 1)
    BY <1>1, <1>4, FoundAt
  <2>2. Scan(t, w)[i] = <<Mark>> \o Scan(t, w)[i + Len(w)] /\ Mark \in Symbols
    BY <1>1, <1>2, <1>4 DEF ScanAt, Symbols
  <2>3. QED
    BY <1>4, <2>1, <2>2
<1>5. CASE i <= Len(t) /\ i \notin Found(w, t)
  <2>1. i + 1 \in 1..(Len(t) + 1) /\ t[i] \in Symbols
    BY <1>1, <1>5
  <2>2. Scan(t, w)[i] = <<t[i]>> \o Scan(t, w)[i + 1]
    BY <1>1, <1>2, <1>5 DEF ScanAt
  <2>3. QED
    BY <1>5, <2>1, <2>2
<1>6. i > Len(t) \/ i <= Len(t)
  BY <1>1
<1>7. QED
  BY <1>3, <1>4, <1>5, <1>6, Zenon

LEMMA ScanType ==
  ASSUME NEW t \in Seq(Symbols), NEW w \in Words
  PROVE  \A i \in 1..(Len(t) + 1) : Scan(t, w)[i] \in Seq(Symbols)
<1> DEFINE n == Len(t)
           bad == {i \in 1..(n + 1) : Scan(t, w)[i] \notin Seq(Symbols)}
<1>1. n \in Nat /\ n + 1 \in Nat /\ Len(w) \in Nat \ {0}
  BY EmptySeq, LenProperties DEF Words
<1>2. ASSUME bad # {} PROVE FALSE
  <2>a. bad \in SUBSET (1..(n + 1))
    OBVIOUS
  <2>b. \A i \in 1..(n + 1) :
           \/ i = n + 1 /\ Scan(t, w)[i] = <<>>
           \/ i <= n /\ \E j \in 1..(n + 1), c \in Symbols :
                /\ Scan(t, w)[i] = <<c>> \o Scan(t, w)[j]
                /\ \/ i \in Found(w, t) /\ c = Mark /\ j = i + Len(w)
                   \/ i \notin Found(w, t) /\ c = t[i] /\ j = i + 1
    BY ScanFrom
  <2> HIDE DEF n, bad
  <2>1. PICK i \in 1..(n + 1) : /\ Scan(t, w)[i] \notin Seq(Symbols)
                                /\ \A j \in 1..(n + 1) : j > i => Scan(t, w)[j] \in Seq(Symbols)
    <3>1. PICK i \in 1..(n + 1) : i \in bad /\ \A j \in 1..(n + 1) : j > i => j \notin bad
      BY <1>1, <1>2, <2>a, LastOf
    <3>2. QED
      BY <3>1 DEF bad
  <2>2. Scan(t, w)[i] # <<>>
    BY <2>1, EmptySeq
  <2>4. PICK j \in 1..(n + 1), c \in Symbols :
          Scan(t, w)[i] = <<c>> \o Scan(t, w)[j] /\ (j = i + 1 \/ j = i + Len(w))
    BY <2>2, <2>b, Zenon
  <2>5. j > i
    BY <1>1, <2>4
  <2>6. Scan(t, w)[j] \in Seq(Symbols) /\ <<c>> \in Seq(Symbols)
    BY <2>1, <2>5
  <2>7. QED
    BY <2>1, <2>4, <2>6, ConcatProperties
<1>3. QED
  BY <1>2

LEMMA ReplaceType ==
  ASSUME NEW t \in Seq(Symbols), NEW w \in Words
  PROVE  Replace(t, w) \in Seq(Symbols)
<1>1. 1 \in 1..(Len(t) + 1)
  BY LenProperties
<1>2. QED
  BY <1>1, ScanType, ReplaceIsScan

\* No occurrence of w lies across the border of a and b.
Apart(w, a, b) == \A i \in Found(w, a \o b) : ~(i <= Len(a) /\ Len(a) < i + Len(w) - 1)

\* The occurrences in b are those of a \o b behind a ...
LEMMA FoundRight ==
  ASSUME NEW a \in Seq(Symbols), NEW b \in Seq(Symbols), NEW w \in Words
  PROVE  \A i \in Nat \ {0} : Len(a) + i \in Found(w, a \o b) <=> i \in Found(w, b)
<1> DEFINE n == Len(a)
           m == Len(b)
           l == Len(w)
           t == a \o b
<1>1. n \in Nat /\ m \in Nat /\ l \in Nat \ {0}
  BY EmptySeq, LenProperties DEF Words
<1>2. t \in Seq(Symbols) /\ Len(t) = n + m
      /\ \A k \in 1..(n + m) : t[k] = IF k <= n THEN a[k] ELSE b[k - n]
  BY ConcatProperties
<1>3. ASSUME NEW i \in Nat \ {0}
      PROVE  n + i \in Found(w, t) <=> i \in Found(w, b)
  <2>1. n + i \in Found(w, t) <=>
          n + i + l - 1 <= n + m /\ \A k \in 1..l : t[n + i + k - 1] = w[k]
    <3>1. n + i \in Nat \ {0}
      BY <1>1
    <3>2. \A j \in Nat \ {0} :
            j \in Found(w, t) <=> j + l - 1 <= Len(t) /\ \A k \in 1..l : t[j + k - 1] = w[k]
      BY <1>2, FoundAt
    <3>3. QED
      BY <1>2, <3>1, <3>2
  <2>2. i \in Found(w, b) <=> i + l - 1 <= m /\ \A k \in 1..l : b[i + k - 1] = w[k]
    BY FoundAt
  <2> HIDE DEF t, n, m, l
  <2>3. n + i + l - 1 <= n + m <=> i + l - 1 <= m
    BY <1>1
  <2>4. ASSUME i + l - 1 <= m, NEW k \in 1..l PROVE t[n + i + k - 1] = b[i + k - 1]
    <3>1. n + i + k - 1 \in 1..(n + m) /\ ~(n + i + k - 1 <= n) /\ n + i + k - 1 - n = i + k - 1
      BY <1>1, <2>4
    <3>2. QED
      BY <1>1, <1>2, <3>1
  <2>5. QED
    BY <2>1, <2>2, <2>3, <2>4
<1>4. QED
  BY <1>3

\* ... and those in a the ones that end in a.
LEMMA FoundLeft ==
  ASSUME NEW a \in Seq(Symbols), NEW b \in Seq(Symbols), NEW w \in Words
  PROVE  \A i \in Nat \ {0} :
           i \in Found(w, a) <=> i \in Found(w, a \o b) /\ i + Len(w) - 1 <= Len(a)
<1> DEFINE n == Len(a)
           m == Len(b)
           l == Len(w)
           t == a \o b
<1>1. n \in Nat /\ m \in Nat /\ l \in Nat \ {0}
  BY EmptySeq, LenProperties DEF Words
<1>2. t \in Seq(Symbols) /\ Len(t) = n + m
      /\ \A k \in 1..(n + m) : t[k] = IF k <= n THEN a[k] ELSE b[k - n]
  BY ConcatProperties
<1>3. ASSUME NEW i \in Nat \ {0}
      PROVE  i \in Found(w, a) <=> i \in Found(w, t) /\ i + l - 1 <= n
  <2>1. i \in Found(w, t) <=> i + l - 1 <= n + m /\ \A k \in 1..l : t[i + k - 1] = w[k]
    BY <1>2, FoundAt
  <2>2. i \in Found(w, a) <=> i + l - 1 <= n /\ \A k \in 1..l : a[i + k - 1] = w[k]
    BY FoundAt
  <2> HIDE DEF t, n, m, l
  <2>3. i + l - 1 <= n => i + l - 1 <= n + m
    BY <1>1
  <2>4. ASSUME i + l - 1 <= n, NEW k \in 1..l PROVE t[i + k - 1] = a[i + k - 1]
    <3>1. i + k - 1 \in 1..(n + m) /\ i + k - 1 <= n
      BY <1>1, <2>4
    <3>2. QED
      BY <1>1, <1>2, <3>1
  <2>5. QED
    BY <2>1, <2>2, <2>3, <2>4
<1>4. QED
  BY <1>3

LEMMA Associates ==
  ASSUME NEW x \in Seq(Symbols), NEW y \in Seq(Symbols), NEW z \in Seq(Symbols)
  PROVE  (x \o y) \o z = x \o (y \o z)
BY ConcatAssociative

\* What lies apart may be replaced apart.
LEMMA ReplaceSplits ==
  ASSUME NEW a \in Seq(Symbols), NEW b \in Seq(Symbols), NEW w \in Words, Apart(w, a, b)
  PROVE  Replace(a \o b, w) = Replace(a, w) \o Replace(b, w)
<1> DEFINE n == Len(a)
           m == Len(b)
           l == Len(w)
           t == a \o b
           f == Scan(t, w)
           g == Scan(a, w)
           h == Scan(b, w)
<1>1. n \in Nat /\ m \in Nat /\ l \in Nat \ {0}
  BY EmptySeq, LenProperties DEF Words
<1>2. t \in Seq(Symbols) /\ Len(t) = n + m
      /\ \A k \in 1..(n + m) : t[k] = IF k <= n THEN a[k] ELSE b[k - n]
  BY ConcatProperties
<1>a. \A i \in 1..(Len(t) + 1) :
         \/ i = Len(t) + 1 /\ f[i] = <<>>
         \/ i <= Len(t) /\ \E j \in 1..(Len(t) + 1), c \in Symbols :
              /\ f[i] = <<c>> \o f[j]
              /\ \/ i \in Found(w, t) /\ c = Mark /\ j = i + l
                 \/ i \notin Found(w, t) /\ c = t[i] /\ j = i + 1
  BY <1>2, ScanFrom
<1>3. \A i \in 1..(n + m + 1) :
         \/ i = n + m + 1 /\ f[i] = <<>>
         \/ i <= n + m /\ \E j \in 1..(n + m + 1), c \in Symbols :
              /\ f[i] = <<c>> \o f[j]
              /\ \/ i \in Found(w, t) /\ c = Mark /\ j = i + l
                 \/ i \notin Found(w, t) /\ c = t[i] /\ j = i + 1
  BY <1>2, <1>a
<1>4. \A i \in 1..(n + 1) :
         \/ i = n + 1 /\ g[i] = <<>>
         \/ i <= n /\ \E j \in 1..(n + 1), c \in Symbols :
              /\ g[i] = <<c>> \o g[j]
              /\ \/ i \in Found(w, a) /\ c = Mark /\ j = i + l
                 \/ i \notin Found(w, a) /\ c = a[i] /\ j = i + 1
  BY ScanFrom
<1>5. \A i \in 1..(m + 1) :
         \/ i = m + 1 /\ h[i] = <<>>
         \/ i <= m /\ \E j \in 1..(m + 1), c \in Symbols :
              /\ h[i] = <<c>> \o h[j]
              /\ \/ i \in Found(w, b) /\ c = Mark /\ j = i + l
                 \/ i \notin Found(w, b) /\ c = b[i] /\ j = i + 1
  BY ScanFrom
<1>6. \A i \in 1..m : n + i \in Found(w, t) <=> i \in Found(w, b)
  BY FoundRight
<1>7. \A i \in 1..n : i \in Found(w, t) <=> i \in Found(w, a)
  <2>1. \A i \in 1..n : i \in Found(w, a) <=> i \in Found(w, t) /\ i + l - 1 <= n
    BY FoundLeft
  <2>2. \A i \in Found(w, t) : ~(i <= n /\ n < i + l - 1)
    BY DEF Apart
  <2> HIDE DEF n, m, l, t
  <2>3. QED
    BY <1>1, <2>1, <2>2
<1>8. (\A i \in 1..(n + 1) : g[i] \in Seq(Symbols)) /\ (\A i \in 1..(m + 1) : h[i] \in Seq(Symbols))
  BY ScanType
<1> HIDE DEF n, m, l, t, f, g, h
<1>9. \A i \in 1..(m + 1) : f[n + i] = h[i]
  <2> DEFINE bad == {i \in 1..(m + 1) : f[n + i] # h[i]}
  <2>1. ASSUME bad # {} PROVE FALSE
    <3>1. PICK i \in 1..(m + 1) : f[n + i] # h[i] /\ \A j \in 1..(m + 1) : j > i => f[n + j] = h[j]
      <4>0. bad \in SUBSET (1..(m + 1))
        OBVIOUS
      <4>1. m + 1 \in Nat
        BY <1>1
      <4> HIDE DEF bad
      <4>2. PICK i \in 1..(m + 1) : i \in bad /\ \A j \in 1..(m + 1) : j > i => j \notin bad
        BY <2>1, <4>0, <4>1, LastOf
      <4>3. QED
        BY <4>2 DEF bad
    <3> HIDE DEF bad
    <3>3. n + i \in 1..(n + m + 1)
      BY <1>1, <3>1
    <3>4. CASE i = m + 1
      BY <1>1, <1>3, <1>5, <3>1, <3>3, <3>4
    <3>5. CASE i <= m
      <4>1. PICK j \in 1..(m + 1), c \in Symbols :
              /\ h[i] = <<c>> \o h[j]
              /\ \/ i \in Found(w, b) /\ c = Mark /\ j = i + l
                 \/ i \notin Found(w, b) /\ c = b[i] /\ j = i + 1
        <5>1. i # m + 1
          BY <1>1, <3>3, <3>5
        <5>2. QED
          BY <1>5, <3>3, <5>1
      <4>2. PICK k \in 1..(n + m + 1), d \in Symbols :
              /\ f[n + i] = <<d>> \o f[k]
              /\ \/ n + i \in Found(w, t) /\ d = Mark /\ k = n + i + l
                 \/ n + i \notin Found(w, t) /\ d = t[n + i] /\ k = n + i + 1
        <5>1. n + i <= n + m /\ n + i # n + m + 1
          BY <1>1, <3>3, <3>5
        <5>2. QED
          BY <1>3, <3>3, <5>1
      <4>3. t[n + i] = b[i] /\ (n + i \in Found(w, t) <=> i \in Found(w, b))
        <5>1. i \in 1..m /\ n + i \in 1..(n + m) /\ ~(n + i <= n) /\ n + i - n = i
          BY <1>1, <3>3, <3>5
        <5>a. \A o \in 1..(n + m) : ~(o <= n) => t[o] = b[o - n]
          BY <1>2
        <5>2. t[n + i] = b[n + i - n]
          BY <1>1, <5>1, <5>a
        <5>3. QED
          BY <1>6, <5>1, <5>2
      <4>4. d = c /\ k = n + j /\ j > i
        BY <1>1, <3>3, <4>1, <4>2, <4>3
      <4>6. f[n + j] = h[j]
        BY <3>1, <4>1, <4>4
      <4>7. QED
        BY <3>1, <4>1, <4>2, <4>4, <4>6
    <3>6. QED
      BY <1>1, <3>3, <3>4, <3>5
  <2>2. QED
    BY <2>1
<1>10. \A i \in 1..(n + 1) : f[i] = g[i] \o h[1]
  <2> DEFINE bad == {i \in 1..(n + 1) : f[i] # g[i] \o h[1]}
  <2>0. 1 \in 1..(m + 1) /\ h[1] \in Seq(Symbols)
    BY <1>1, <1>8
  <2>1. ASSUME bad # {} PROVE FALSE
    <3>1. PICK i \in 1..(n + 1) : f[i] # g[i] \o h[1] /\ \A j \in 1..(n + 1) : j > i => f[j] = g[j] \o h[1]
      <4>0. bad \in SUBSET (1..(n + 1))
        OBVIOUS
      <4>1. n + 1 \in Nat
        BY <1>1
      <4> HIDE DEF bad
      <4>2. PICK i \in 1..(n + 1) : i \in bad /\ \A j \in 1..(n + 1) : j > i => j \notin bad
        BY <2>1, <4>0, <4>1, LastOf
      <4>3. QED
        BY <4>2 DEF bad
    <3> HIDE DEF bad
    <3>3. i \in 1..(n + m + 1)
      BY <1>1, <3>1
    <3>4. CASE i = n + 1
      <4>1. f[i] = h[1]
        BY <1>9, <2>0, <3>4
      <4>2. g[i] = <<>>
        BY <1>1, <1>4, <3>3, <3>4
      <4>3. QED
        BY <2>0, <3>1, <4>1, <4>2, ConcatEmptySeq
    <3>5. CASE i <= n
      <4>1. PICK j \in 1..(n + 1), c \in Symbols :
              /\ g[i] = <<c>> \o g[j]
              /\ \/ i \in Found(w, a) /\ c = Mark /\ j = i + l
                 \/ i \notin Found(w, a) /\ c = a[i] /\ j = i + 1
        <5>1. i # n + 1
          BY <1>1, <3>3, <3>5
        <5>2. QED
          BY <1>4, <3>3, <5>1
      <4>2. PICK k \in 1..(n + m + 1), d \in Symbols :
              /\ f[i] = <<d>> \o f[k]
              /\ \/ i \in Found(w, t) /\ d = Mark /\ k = i + l
                 \/ i \notin Found(w, t) /\ d = t[i] /\ k = i + 1
        <5>1. i # n + m + 1
          BY <1>1, <3>3, <3>5
        <5>2. QED
          BY <1>3, <3>3, <5>1
      <4>3. t[i] = a[i] /\ (i \in Found(w, t) <=> i \in Found(w, a))
        <5>1. i \in 1..n /\ i \in 1..(n + m)
          BY <1>1, <3>3, <3>5
        <5>2. QED
          BY <1>2, <1>7, <3>5, <5>1
      <4>4. d = c /\ k = j /\ j > i
        BY <1>1, <3>3, <4>1, <4>2, <4>3
      <4>6. f[j] = g[j] \o h[1]
        BY <3>1, <4>1, <4>4
      <4>7. <<c>> \in Seq(Symbols) /\ g[j] \in Seq(Symbols)
        BY <1>8, <4>1
      <4>8. (<<c>> \o g[j]) \o h[1] = <<c>> \o (g[j] \o h[1])
        <5> DEFINE e == <<c>>
                   u == g[j]
                   v == h[1]
        <5>1. e \in Seq(Symbols) /\ u \in Seq(Symbols) /\ v \in Seq(Symbols)
          BY <2>0, <4>7
        <5> HIDE DEF e, u, v
        <5>2. (e \o u) \o v = e \o (u \o v)
          BY <5>1, Associates, ZenonT(60)
        <5>3. QED
          BY <5>2 DEF e, u, v
      <4>9. QED
        BY <3>1, <4>1, <4>2, <4>4, <4>6, <4>8
    <3>6. QED
      BY <1>1, <3>3, <3>4, <3>5
  <2>2. QED
    BY <2>1
<1>11. f[1] = g[1] \o h[1]
  <2>1. 1 \in 1..(n + 1)
    BY <1>1
  <2>2. QED
    BY <1>10, <2>1
<1>12. QED
  BY <1>11, ReplaceIsScan DEF f, g, h, t

LEMMA Prefixed ==
  ASSUME NEW c \in Symbols, NEW s \in Seq(Symbols)
  PROVE  /\ Len(Cons(c, s)) = Len(s) + 1 /\ Cons(c, s)[1] = c
         /\ \A k \in 1..Len(s) : Cons(c, s)[k + 1] = s[k]
<1> DEFINE n == Len(s)
           x == Cons(c, s)
<1>1. n \in Nat /\ <<c>> \in Seq(Symbols) /\ Len(<<c>>) = 1 /\ <<c>>[1] = c
  BY LenProperties
<1>2. /\ Len(x) = 1 + n
      /\ \A k \in 1..(1 + n) : x[k] = IF k <= 1 THEN <<c>>[k] ELSE s[k - 1]
  BY <1>1, ConcatProperties DEF Cons
<1> HIDE DEF n, x
<1>3. x[1] = c
  BY <1>1, <1>2
<1>4. ASSUME NEW k \in 1..n PROVE x[k + 1] = s[k]
  <2>1. k + 1 \in 1..(1 + n) /\ ~(k + 1 <= 1) /\ k + 1 - 1 = k
    BY <1>1
  <2>2. x[k + 1] = s[k + 1 - 1]
    BY <1>2, <2>1
  <2>3. QED
    BY <2>1, <2>2
<1>5. Len(x) = n + 1
  BY <1>1, <1>2
<1>6. QED
  BY <1>3, <1>4, <1>5 DEF n, x

\* The start of a tail of the replaced text is a copy of the text as far as it holds no marker ...
LEMMA ScanStart ==
  ASSUME NEW t \in Seq(Symbols), NEW w \in Words
  PROVE  \A i \in 1..(Len(t) + 1), q \in Nat :
           q <= Len(Scan(t, w)[i]) /\ (\A k \in 1..q : Scan(t, w)[i][k] # Mark)
             => q <= Len(t) - i + 1 /\ \A k \in 1..q : Scan(t, w)[i][k] = t[i + k - 1]
<1> DEFINE n == Len(t)
           f == Scan(t, w)
           Copies(i) == \A q \in Nat : q <= Len(f[i]) /\ (\A k \in 1..q : f[i][k] # Mark)
                          => q <= n - i + 1 /\ \A k \in 1..q : f[i][k] = t[i + k - 1]
           bad == {i \in 1..(n + 1) : ~Copies(i)}
<1>1. n \in Nat /\ n + 1 \in Nat /\ Len(w) \in Nat \ {0}
  BY EmptySeq, LenProperties DEF Words
<1>2. ASSUME bad # {} PROVE FALSE
  <2>a. bad \in SUBSET (1..(n + 1))
    OBVIOUS
  <2>b. \A i \in 1..(n + 1) :
           \/ i = n + 1 /\ f[i] = <<>>
           \/ i <= n /\ \E j \in 1..(n + 1), c \in Symbols :
                /\ f[i] = <<c>> \o f[j]
                /\ \/ i \in Found(w, t) /\ c = Mark /\ j = i + Len(w)
                   \/ i \notin Found(w, t) /\ c = t[i] /\ j = i + 1
    BY ScanFrom
  <2>c. \A i \in 1..(n + 1) : f[i] \in Seq(Symbols)
    BY ScanType
  <2> HIDE DEF n, f, Copies, bad
  <2>1. PICK i \in 1..(n + 1) : ~Copies(i) /\ \A j \in 1..(n + 1) : j > i => Copies(j)
    <3>1. PICK i \in 1..(n + 1) : i \in bad /\ \A j \in 1..(n + 1) : j > i => j \notin bad
      BY <1>1, <1>2, <2>a, LastOf
    <3>2. QED
      BY <3>1 DEF bad
  <2>2. ASSUME NEW q \in Nat, q <= Len(f[i]), \A k \in 1..q : f[i][k] # Mark
        PROVE  q <= n - i + 1 /\ \A k \in 1..q : f[i][k] = t[i + k - 1]
    <3>1. CASE q = 0
      BY <1>1, <3>1
    <3>2. CASE q # 0
      <4>1. f[i] # <<>>
        BY <2>2, <3>2
      <4>2. PICK j \in 1..(n + 1), c \in Symbols :
              /\ f[i] = <<c>> \o f[j]
              /\ \/ i \in Found(w, t) /\ c = Mark /\ j = i + Len(w)
                 \/ i \notin Found(w, t) /\ c = t[i] /\ j = i + 1
        BY <2>b, <4>1, Zenon
      <4>3. f[j] \in Seq(Symbols) /\ Len(f[j]) \in Nat
        BY <2>c, LenProperties
      <4>4. /\ Len(f[i]) = Len(f[j]) + 1 /\ f[i][1] = c
            /\ \A k \in 1..Len(f[j]) : f[i][k + 1] = f[j][k]
        <5>1. f[i] = Cons(c, f[j])
          BY <4>2 DEF Cons
        <5>2. QED
          BY <4>3, <5>1, Prefixed
      <4>5. c # Mark
        <5>1. 1 \in 1..q
          BY <3>2
        <5>2. QED
          BY <2>2, <4>4, <5>1
      <4>6. j = i + 1 /\ c = t[i]
        BY <4>2, <4>5
      <4>7. q - 1 \in Nat /\ q - 1 <= Len(f[j])
        BY <2>2, <3>2, <4>3, <4>4
      <4>8. \A k \in 1..(q - 1) : k \in 1..Len(f[j]) /\ k + 1 \in 1..q
        BY <4>3, <4>7
      <4>9. \A k \in 1..(q - 1) : f[i][k + 1] = f[j][k] /\ f[j][k] # Mark
        BY <2>2, <4>4, <4>8
      <4>10. q - 1 <= n - j + 1 /\ \A k \in 1..(q - 1) : f[j][k] = t[j + k - 1]
        <5>1. Copies(j)
          BY <1>1, <2>1, <4>6
        <5>2. QED
          BY <4>7, <4>9, <5>1 DEF Copies
      <4>11. q <= n - i + 1
        BY <1>1, <4>6, <4>10
      <4>12. ASSUME NEW k \in 1..q PROVE f[i][k] = t[i + k - 1]
        <5>1. CASE k = 1
          <6>1. i + 1 - 1 = i
            BY <1>1
          <6>2. QED
            BY <4>4, <4>6, <5>1, <6>1
        <5>2. CASE k # 1
          <6>1. k - 1 \in 1..(q - 1) /\ (k - 1) + 1 = k /\ j + (k - 1) - 1 = i + k - 1
            BY <4>6, <5>2
          <6>2. f[i][(k - 1) + 1] = f[j][k - 1] /\ f[j][k - 1] = t[j + (k - 1) - 1]
            BY <4>9, <4>10, <6>1
          <6>3. QED
            BY <6>1, <6>2
        <5>3. QED
          BY <5>1, <5>2
      <4>13. QED
        BY <4>11, <4>12
    <3>3. QED
      BY <3>1, <3>2
  <2>3. QED
    BY <2>1, <2>2 DEF Copies
<1>3. QED
  BY <1>2

\* ... and so is the end of one.
LEMMA ScanEnd ==
  ASSUME NEW t \in Seq(Symbols), NEW w \in Words
  PROVE  \A i \in 1..(Len(t) + 1), p \in Nat :
           LET l == Len(Scan(t, w)[i]) IN
           p <= l /\ (\A k \in 1..p : Scan(t, w)[i][l - p + k] # Mark)
             => /\ p <= Len(t) - i + 1 /\ (p = l => p = Len(t) - i + 1)
                /\ \A k \in 1..p : Scan(t, w)[i][l - p + k] = t[Len(t) - p + k]
<1> DEFINE n == Len(t)
           f == Scan(t, w)
           l(i) == Len(f[i])
           Copies(i) == \A p \in Nat : p <= l(i) /\ (\A k \in 1..p : f[i][l(i) - p + k] # Mark)
                          => /\ p <= n - i + 1 /\ (p = l(i) => p = n - i + 1)
                             /\ \A k \in 1..p : f[i][l(i) - p + k] = t[n - p + k]
           bad == {i \in 1..(n + 1) : ~Copies(i)}
<1>1. n \in Nat /\ n + 1 \in Nat /\ Len(w) \in Nat \ {0}
  BY EmptySeq, LenProperties DEF Words
<1>2. ASSUME bad # {} PROVE FALSE
  <2>a. bad \in SUBSET (1..(n + 1))
    OBVIOUS
  <2>b. \A i \in 1..(n + 1) :
           \/ i = n + 1 /\ f[i] = <<>>
           \/ i <= n /\ \E j \in 1..(n + 1), c \in Symbols :
                /\ f[i] = <<c>> \o f[j]
                /\ \/ i \in Found(w, t) /\ c = Mark /\ j = i + Len(w)
                   \/ i \notin Found(w, t) /\ c = t[i] /\ j = i + 1
    BY ScanFrom
  <2>c. \A i \in 1..(n + 1) : f[i] \in Seq(Symbols)
    BY ScanType
  <2>d. \A i \in 1..(n + 1) : l(i) \in Nat
    BY <2>c, LenProperties
  <2> HIDE DEF n, f, Copies, bad
  <2>1. PICK i \in 1..(n + 1) : ~Copies(i) /\ \A j \in 1..(n + 1) : j > i => Copies(j)
    <3>1. PICK i \in 1..(n + 1) : i \in bad /\ \A j \in 1..(n + 1) : j > i => j \notin bad
      BY <1>1, <1>2, <2>a, LastOf
    <3>2. QED
      BY <3>1 DEF bad
  <2>2. CASE i = n + 1 /\ f[i] = <<>>
    <3>1. l(i) = 0
      BY <2>2
    <3>2. ASSUME NEW p \in Nat, p <= l(i)
          PROVE  p = 0 /\ n - i + 1 = 0
      BY <1>1, <2>2, <3>1, <3>2
    <3>3. \A p \in Nat : p = 0 => 1..p = {}
      OBVIOUS
    <3> HIDE DEF l
    <3>4. Copies(i)
      BY <3>1, <3>2, <3>3 DEF Copies
    <3>5. QED
      BY <2>1, <3>4
  <2>3. CASE i <= n /\ f[i] # <<>>
    <3>1. PICK j \in 1..(n + 1), c \in Symbols :
            /\ f[i] = <<c>> \o f[j]
            /\ \/ i \in Found(w, t) /\ c = Mark /\ j = i + Len(w)
               \/ i \notin Found(w, t) /\ c = t[i] /\ j = i + 1
      BY <2>b, <2>3, Zenon
    <3>2. /\ l(i) = l(j) + 1 /\ f[i][1] = c
          /\ \A k \in 1..l(j) : f[i][k + 1] = f[j][k]
      <4>1. f[i] = Cons(c, f[j])
        BY <3>1 DEF Cons
      <4>2. QED
        BY <2>c, <4>1, Prefixed
    <3>3. l(i) \in Nat /\ l(j) \in Nat
      BY <2>d
    <3> HIDE DEF l
    <3>4. j > i
      BY <1>1, <3>1
    <3>5. Copies(j)
      BY <2>1, <3>4
    <3>6. ASSUME NEW p \in Nat, p <= l(i), \A k \in 1..p : f[i][l(i) - p + k] # Mark
          PROVE  /\ p <= n - i + 1 /\ (p = l(i) => p = n - i + 1)
                 /\ \A k \in 1..p : f[i][l(i) - p + k] = t[n - p + k]
      <4>1. CASE p <= l(j)
        <5>1. ASSUME NEW k \in 1..p PROVE f[i][l(i) - p + k] = f[j][l(j) - p + k]
          <6>1. l(j) - p + k \in 1..l(j) /\ l(i) - p + k = (l(j) - p + k) + 1
            BY <3>2, <3>3, <4>1
          <6>2. f[i][(l(j) - p + k) + 1] = f[j][l(j) - p + k]
            BY <3>2, <6>1
          <6>3. QED
            BY <6>1, <6>2
        <5>2. /\ p <= n - j + 1
              /\ \A k \in 1..p : f[j][l(j) - p + k] = t[n - p + k]
          BY <3>5, <3>6, <4>1, <5>1 DEF Copies
        <5>3. p <= n - i + 1 /\ p # l(i)
          BY <1>1, <3>2, <3>3, <3>4, <4>1, <5>2
        <5>4. QED
          BY <5>1, <5>2, <5>3
      <4>2. CASE p = l(j) + 1
        <5>1. l(i) = p /\ \A k \in 1..p : l(i) - p + k = k /\ k \in 1..p
          BY <3>2, <3>3, <4>2
        <5>2. \A k \in 1..p : f[i][k] # Mark
          BY <3>6, <5>1
        <5>3. j = i + 1 /\ c = t[i]
          <6>1. 1 \in 1..p
            BY <3>3, <4>2
          <6>2. QED
            BY <3>1, <3>2, <5>2, <6>1
        <5>4. \A k \in 1..l(j) : k + 1 \in 1..p /\ l(j) - l(j) + k = k
          BY <3>3, <4>2
        <5>5. \A k \in 1..l(j) : f[j][l(j) - l(j) + k] # Mark
          BY <3>2, <5>2, <5>4
        <5>6. l(j) = n - j + 1 /\ \A k \in 1..l(j) : f[j][l(j) - l(j) + k] = t[n - l(j) + k]
          <6>1. l(j) <= l(j)
            BY <3>3
          <6>2. QED
            BY <3>3, <3>5, <5>5, <6>1 DEF Copies
        <5>7. p = n - i + 1
          BY <1>1, <3>3, <4>2, <5>3, <5>6
        <5>8. ASSUME NEW k \in 1..p PROVE f[i][k] = t[n - p + k]
          <6>1. CASE k = 1
            <7>1. n - p + 1 = i
              BY <1>1, <5>7
            <7>2. QED
              BY <3>2, <5>3, <6>1, <7>1
          <6>2. CASE k # 1
            <7>1. k - 1 \in 1..l(j) /\ (k - 1) + 1 = k /\ n - l(j) + (k - 1) = n - p + k
              BY <1>1, <3>3, <4>2, <6>2
            <7>2. f[i][(k - 1) + 1] = f[j][k - 1] /\ f[j][l(j) - l(j) + (k - 1)] = t[n - l(j) + (k - 1)]
              BY <3>2, <5>6, <7>1
            <7>3. l(j) - l(j) + (k - 1) = k - 1
              BY <5>4, <7>1
            <7>4. QED
              BY <7>1, <7>2, <7>3
          <6>3. QED
            BY <6>1, <6>2
        <5>9. QED
          <6>1. \A k \in 1..p : f[i][l(i) - p + k] = t[n - p + k]
            BY <5>1, <5>8
          <6>2. p <= n - i + 1
            BY <1>1, <5>7
          <6>3. QED
            BY <5>7, <6>1, <6>2
      <4>3. QED
        BY <3>2, <3>3, <3>6, <4>1, <4>2
    <3>7. QED
      BY <2>1, <3>6 DEF Copies
  <2>4. QED
    <3>1. i <= n \/ i = n + 1
      BY <1>1
    <3>2. i <= n => f[i] # <<>>
      <4>1. ASSUME i <= n PROVE f[i] # <<>>
        <5>1. i # n + 1
          BY <1>1, <4>1
        <5>2. PICK j \in 1..(n + 1), c \in Symbols : f[i] = <<c>> \o f[j]
          BY <2>b, <5>1, Zenon
        <5>3. Len(f[i]) = Len(f[j]) + 1 /\ Len(f[j]) \in Nat
          <6>1. f[i] = Cons(c, f[j])
            BY <5>2 DEF Cons
          <6>2. Len(f[i]) = Len(f[j]) + 1
            BY <2>c, <6>1, Prefixed
          <6>3. QED
            BY <2>c, <6>2, LenProperties
        <5>4. QED
          BY <5>3
      <4>2. QED
        BY <4>1
    <3>3. i = n + 1 => f[i] = <<>>
      BY <1>1, <2>b
    <3>4. QED
      BY <2>2, <2>3, <3>1, <3>2, <3>3
<1>3. QED
  BY <1>2

\* A replacement makes no new word: what lies apart in a text lies apart in the replaced text.
LEMMA ApartStays ==
  ASSUME NEW a \in Seq(Symbols), NEW b \in Seq(Symbols), NEW w \in Words, NEW v \in Words,
         Apart(v, a, b)
  PROVE  Apart(v, Replace(a, w), Replace(b, w))
<1> DEFINE x == Replace(a, w)
           y == Replace(b, w)
           n == Len(a)
           m == Len(b)
           r == Len(x)
           s == Len(y)
           l == Len(v)
<1>1. /\ n \in Nat /\ m \in Nat /\ l \in Nat \ {0}
      /\ x \in Seq(Symbols) /\ y \in Seq(Symbols) /\ r \in Nat /\ s \in Nat
  BY EmptySeq, LenProperties, ReplaceType DEF Words
<1>2. \A k \in 1..l : v[k] # Mark
  BY ElementOfSeq, NeedlesAssumption DEF Words
<1>3. \A p \in Nat :
        p <= r /\ (\A k \in 1..p : x[r - p + k] # Mark)
          => p <= n /\ \A k \in 1..p : x[r - p + k] = a[n - p + k]
  <2>1. 1 \in 1..(Len(a) + 1) /\ x = Scan(a, w)[1] /\ n - 1 + 1 = n
    BY <1>1, ReplaceIsScan
  <2>2. \A p \in Nat : LET e == Len(Scan(a, w)[1]) IN
           p <= e /\ (\A k \in 1..p : Scan(a, w)[1][e - p + k] # Mark)
             => /\ p <= Len(a) - 1 + 1
                /\ \A k \in 1..p : Scan(a, w)[1][e - p + k] = a[Len(a) - p + k]
    BY <2>1, ScanEnd
  <2>3. QED
    BY <2>1, <2>2
<1>4. \A q \in Nat :
        q <= s /\ (\A k \in 1..q : y[k] # Mark) => q <= m /\ \A k \in 1..q : y[k] = b[k]
  <2>1. 1 \in 1..(Len(b) + 1) /\ y = Scan(b, w)[1] /\ m - 1 + 1 = m
    BY <1>1, ReplaceIsScan
  <2>2. \A q \in Nat :
           q <= Len(Scan(b, w)[1]) /\ (\A k \in 1..q : Scan(b, w)[1][k] # Mark)
             => q <= Len(b) - 1 + 1 /\ \A k \in 1..q : Scan(b, w)[1][k] = b[1 + k - 1]
    BY <2>1, ScanStart
  <2>3. \A k \in Nat : 1 + k - 1 = k
    OBVIOUS
  <2> HIDE DEF y, s, m
  <2>4. ASSUME NEW q \in Nat, q <= s, \A k \in 1..q : y[k] # Mark
        PROVE  q <= m /\ \A k \in 1..q : y[k] = b[k]
    <3>1. q <= Len(b) - 1 + 1 /\ \A k \in 1..q : y[k] = b[1 + k - 1]
      BY <2>1, <2>2, <2>4 DEF s
    <3>2. Len(b) - 1 + 1 = m
      BY <2>1 DEF m
    <3>3. QED
      BY <2>3, <3>1, <3>2
  <2>5. QED
    BY <2>4
<1>5. /\ x \o y \in Seq(Symbols) /\ Len(x \o y) = r + s
      /\ \A k \in 1..(r + s) : (x \o y)[k] = IF k <= r THEN x[k] ELSE y[k - r]
  BY <1>1, ConcatProperties
<1>6. /\ a \o b \in Seq(Symbols) /\ Len(a \o b) = n + m
      /\ \A k \in 1..(n + m) : (a \o b)[k] = IF k <= n THEN a[k] ELSE b[k - n]
  BY ConcatProperties
<1>7. ASSUME NEW i \in Found(v, x \o y), i <= r, r < i + l - 1 PROVE FALSE
  <2> DEFINE xy == x \o y
             ab == a \o b
             p == r - i + 1
             q == l - p
             at == n - p + 1
  <2>1. i \in Nat \ {0} /\ i + l - 1 <= r + s /\ \A k \in 1..l : xy[i + k - 1] = v[k]
    <3>1. i \in Nat \ {0}
      <4>1. Found(v, xy) \subseteq 1..Len(xy)
        BY <1>5, FoundAt
      <4>2. i \in 1..(r + s)
        BY <1>5, <1>7, <4>1
      <4> HIDE DEF x, y, r, s
      <4>3. QED
        BY <1>1, <4>2
    <3>2. i + l - 1 <= Len(xy) /\ \A k \in 1..l : xy[i + k - 1] = v[k]
      BY <1>5, <1>7, <3>1, FoundAt
    <3>3. QED
      BY <1>5, <3>1, <3>2
  <2> HIDE DEF x, y, n, m, r, s, l, xy, ab
  <2>2. p \in Nat \ {0} /\ q \in Nat \ {0} /\ p <= r /\ q <= s /\ p + q = l /\ r - p = i - 1
    BY <1>1, <1>7, <2>1
  <2> HIDE DEF p, q
  <2>3. ASSUME NEW k \in 1..p PROVE x[r - p + k] = v[k]
    <3>1. k \in 1..l /\ i + k - 1 \in 1..(r + s) /\ i + k - 1 <= r /\ r - p + k = i + k - 1
      BY <1>1, <2>1, <2>2
    <3>2. xy[i + k - 1] = x[i + k - 1]
      BY <1>1, <1>5, <3>1 DEF xy
    <3>3. QED
      BY <2>1, <3>1, <3>2
  <2>4. ASSUME NEW k \in 1..q PROVE y[k] = v[p + k]
    <3>1. /\ p + k \in 1..l /\ i + (p + k) - 1 \in 1..(r + s) /\ ~(i + (p + k) - 1 <= r)
          /\ i + (p + k) - 1 - r = k
      BY <1>1, <2>1, <2>2
    <3>2. xy[i + (p + k) - 1] = y[i + (p + k) - 1 - r]
      <4>1. \A e \in 1..(r + s) : ~(e <= r) => xy[e] = y[e - r]
        BY <1>5 DEF xy
      <4>2. QED
        BY <1>1, <2>1, <2>2, <3>1, <4>1
    <3>3. xy[i + (p + k) - 1] = v[p + k]
      BY <2>1, <3>1
    <3>4. QED
      BY <3>1, <3>2, <3>3
  <2>5. p <= n /\ \A k \in 1..p : a[n - p + k] = v[k]
    <3>1. \A k \in 1..p : x[r - p + k] # Mark
      <4>1. \A k \in 1..p : k \in 1..l
        BY <1>1, <2>2
      <4>2. QED
        BY <1>2, <2>3, <4>1
    <3>2. QED
      BY <1>3, <2>2, <2>3, <3>1
  <2>6. q <= m /\ \A k \in 1..q : b[k] = v[p + k]
    <3>1. \A k \in 1..q : y[k] # Mark
      <4>1. \A k \in 1..q : p + k \in 1..l
        BY <1>1, <2>2
      <4>2. QED
        BY <1>2, <2>4, <4>1
    <3>2. QED
      BY <1>4, <2>2, <2>4, <3>1
  <2>7. at \in Nat \ {0} /\ at <= n /\ n < at + l - 1 /\ at + l - 1 <= n + m
    BY <1>1, <2>2, <2>5, <2>6
  <2>8. ASSUME NEW k \in 1..l PROVE ab[at + k - 1] = v[k]
    <3>1. at + k - 1 = n - p + k /\ at + k - 1 \in 1..(n + m)
      BY <1>1, <2>2, <2>7
    <3> HIDE DEF at
    <3>2. CASE k <= p
      <4>1. k \in 1..p /\ at + k - 1 <= n
        BY <1>1, <2>2, <3>1, <3>2
      <4>2. ab[at + k - 1] = a[at + k - 1]
        BY <1>1, <1>6, <3>1, <4>1 DEF ab
      <4>3. QED
        BY <2>5, <3>1, <4>1, <4>2
    <3>3. CASE ~(k <= p)
      <4>1. k - p \in 1..q /\ p + (k - p) = k /\ ~(at + k - 1 <= n) /\ at + k - 1 - n = k - p
        BY <1>1, <2>2, <2>7, <3>1, <3>3
      <4>2. ab[at + k - 1] = b[at + k - 1 - n]
        <5>1. \A e \in 1..(n + m) : ~(e <= n) => ab[e] = b[e - n]
          BY <1>6 DEF ab
        <5>2. QED
          BY <1>1, <2>7, <3>1, <4>1, <5>1
      <4>3. b[k - p] = v[p + (k - p)]
        BY <2>6, <4>1
      <4>4. QED
        BY <4>1, <4>2, <4>3
    <3>4. QED
      BY <3>2, <3>3
  <2>9. at \in Found(v, a \o b)
    <3> HIDE DEF at
    <3>1. \A j \in Nat \ {0} : j \in Found(v, ab) <=>
            j + l - 1 <= Len(ab) /\ \A k \in 1..l : ab[j + k - 1] = v[k]
      BY <1>6, FoundAt DEF ab, l
    <3>2. at + l - 1 <= Len(ab)
      BY <1>6, <2>7 DEF ab
    <3>3. QED
      BY <2>7, <2>8, <3>1, <3>2 DEF ab
  <2>10. QED
    BY <2>7, <2>9 DEF Apart, n, l
<1>8. QED
  BY <1>7 DEF Apart

------------------------------------------------------------------------------
(* All needles: from the longest to the shortest *)

LEMMA ShortestIn == \A s \in SUBSET Needles : s # {} => Shortest(s) \in s
<1> TAKE s \in SUBSET Needles
<1>1. ASSUME s # {} PROVE Shortest(s) \in s
  <2> DEFINE sizes == {Len(n) : n \in s}
  <2>1. \A n \in s : n \in Seq(Chars) /\ Len(n) \in Nat
    BY NeedlesAssumption, LenProperties
  <2>2. sizes \in SUBSET Nat /\ sizes # {}
    BY <1>1, <2>1
  <2>3. PICK e \in sizes : \A m \in sizes : e <= m
    BY <2>2, LeastOf
  <2>4. \E n \in s : \A m \in s : Len(n) <= Len(m)
    BY <2>3
  <2>5. QED
    BY <2>4 DEF Shortest
<1>2. QED
  BY <1>1

\* g redacts t by the needles of every set of D.
Redacts(t, D, g) ==
  g = [s \in D |-> IF s = {} THEN t ELSE Replace(g[s \ {Shortest(s)}], Shortest(s))]

LEMMA RedactsExists == ASSUME NEW t PROVE \E g : Redacts(t, SUBSET Needles, g)
<1> DEFINE D(n) == {s \in SUBSET Needles : Cardinality(s) <= n}
           bad  == {n \in Nat : ~ \E g : Redacts(t, D(n), g)}
<1>1. \A s \in SUBSET Needles : IsFiniteSet(s) /\ Cardinality(s) \in Nat
  BY FS_Subset, FS_CardinalityType, NeedlesAssumption
<1>2. \A s \in SUBSET Needles : Cardinality(s) = 0 <=> s = {}
  BY <1>1, FS_EmptySet
<1>3. \A s \in SUBSET Needles : s # {} =>
        /\ Shortest(s) \in s /\ s \ {Shortest(s)} \in SUBSET Needles
        /\ Cardinality(s \ {Shortest(s)}) = Cardinality(s) - 1
  BY <1>1, FS_RemoveElement, ShortestIn
<1>4. ASSUME bad # {} PROVE FALSE
  <2>1. PICK n \in bad : \A m \in bad : n <= m
    BY <1>4, LeastOf
  <2>a. n \in Nat
    BY <2>1
  <2>2. CASE n = 0
    <3> DEFINE g == [s \in D(0) |-> t]
    <3>1. \A s \in D(0) : s = {}
      BY <1>1, <1>2
    <3>2. g = [s \in D(0) |-> IF s = {} THEN t ELSE Replace(g[s \ {Shortest(s)}], Shortest(s))]
      BY <3>1
    <3>3. Redacts(t, D(0), g)
      BY <3>2 DEF Redacts
    <3>4. QED
      BY <2>1, <2>2, <3>3
  <2>3. CASE n # 0
    <3>a. n - 1 \in Nat /\ ~(n <= n - 1)
      BY <2>a, <2>3
    <3>1. n - 1 \notin bad
      <4> HIDE DEF bad
      <4>1. QED
        BY <2>1, <3>a
    <3>2. PICK g : Redacts(t, D(n - 1), g)
      BY <3>a, <3>1
    <3> HIDE DEF bad
    <3> DEFINE h == [s \in D(n) |->
                       IF s = {} THEN t ELSE Replace(g[s \ {Shortest(s)}], Shortest(s))]
    <3>3. \A s \in D(n - 1) : s \in D(n) /\ h[s] = g[s]
      <4>1. \A s \in D(n - 1) :
              g[s] = IF s = {} THEN t ELSE Replace(g[s \ {Shortest(s)}], Shortest(s))
        BY <3>2 DEF Redacts
      <4>2. \A s \in D(n - 1) : s \in D(n)
        BY <1>1, <2>a
      <4>3. QED
        BY <4>1, <4>2
    <3>4. \A s \in D(n) : s # {} => s \ {Shortest(s)} \in D(n - 1)
      BY <1>1, <1>3, <2>a
    <3> HIDE DEF D
    <3>5. \A s \in D(n) : s # {} => h[s \ {Shortest(s)}] = g[s \ {Shortest(s)}]
      BY <3>3, <3>4
    <3>6. h = [s \in D(n) |-> IF s = {} THEN t ELSE Replace(h[s \ {Shortest(s)}], Shortest(s))]
      BY <3>5
    <3>7. Redacts(t, D(n), h)
      BY <3>6 DEF Redacts
    <3>8. QED
      BY <2>1, <3>7 DEF bad
  <2>4. QED
    BY <2>2, <2>3
<1>5. Cardinality(Needles) \in Nat /\ D(Cardinality(Needles)) = SUBSET Needles
  BY <1>1, FS_Subset, FS_CardinalityType, NeedlesAssumption
<1> HIDE DEF D
<1>6. \E g : Redacts(t, D(Cardinality(Needles)), g)
  BY <1>4, <1>5
<1>7. QED
  BY <1>5, <1>6

\* t redacted by every set of needles.
Redacted(t) == CHOOSE g : Redacts(t, SUBSET Needles, g)

LEMMA RedactIsRedacted == ASSUME NEW t PROVE Redact(Needles, t) = Redacted(t)[Needles]
BY DEF Redact, MapThenFoldSet, Redacts, Redacted

LEMMA RedactStep ==
  ASSUME NEW t, NEW s \in SUBSET Needles
  PROVE  /\ s = {} => Redacted(t)[s] = t
         /\ s # {} => Redacted(t)[s] = Replace(Redacted(t)[s \ {Shortest(s)}], Shortest(s))
<1> DEFINE g == Redacted(t)
<1>1. Redacts(t, SUBSET Needles, g)
  BY RedactsExists DEF Redacted
<1> HIDE DEF g
<1>2. g[s] = IF s = {} THEN t ELSE Replace(g[s \ {Shortest(s)}], Shortest(s))
  BY <1>1 DEF Redacts
<1>3. QED
  BY <1>2, Zenon DEF g

\* What lies apart may be redacted apart.
LEMMA RedactSplits ==
  ASSUME NEW a \in Seq(Symbols), NEW b \in Seq(Symbols), \A v \in Needles : Apart(v, a, b)
  PROVE  Redact(Needles, a \o b) = Redact(Needles, a) \o Redact(Needles, b)
<1> DEFINE whole(s) == Redacted(a \o b)[s]
           left(s)  == Redacted(a)[s]
           right(s) == Redacted(b)[s]
           Split(s) == /\ whole(s) = left(s) \o right(s)
                       /\ left(s) \in Seq(Symbols) /\ right(s) \in Seq(Symbols)
                       /\ \A v \in Needles : Apart(v, left(s), right(s))
           bad == {s \in SUBSET Needles : ~Split(s)}
<1>1. Needles \subseteq Words /\ IsFiniteSet(Needles)
  BY NeedlesAssumption DEF Words
<1>2. ASSUME bad # {} PROVE FALSE
  <2>1. PICK s \in bad : \A n \in s : s \ {n} \notin bad
    <3>1. bad \in SUBSET (SUBSET Needles)
      OBVIOUS
    <3> HIDE DEF bad
    <3>2. QED
      BY <1>1, <1>2, <3>1, SmallestOf
  <2>2. s \in SUBSET Needles /\ ~Split(s)
    BY <2>1
  <2> DEFINE n == Shortest(s)
             rest == s \ {n}
  <2>3. CASE s = {}
    <3>1. whole(s) = a \o b /\ left(s) = a /\ right(s) = b
      BY <2>2, <2>3, RedactStep
    <3> HIDE DEF whole, left, right
    <3>2. Split(s)
      BY <3>1
    <3>3. QED
      BY <2>2, <3>2
  <2>4. CASE s # {}
    <3>1. n \in s /\ n \in Words /\ rest \in SUBSET Needles
      BY <1>1, <2>2, <2>4, ShortestIn
    <3>2. Split(rest)
      BY <2>1, <3>1
    <3>3. /\ whole(s) = Replace(whole(rest), n)
          /\ left(s) = Replace(left(rest), n) /\ right(s) = Replace(right(rest), n)
      BY <2>2, <2>4, RedactStep
    <3> HIDE DEF whole, left, right, n, rest, bad
    <3>4. Apart(n, left(rest), right(rest))
      BY <2>2, <3>1, <3>2
    <3>5. Replace(left(rest) \o right(rest), n) = left(s) \o right(s)
      <4>1. Replace(left(rest) \o right(rest), n) = Replace(left(rest), n) \o Replace(right(rest), n)
        BY <3>1, <3>2, <3>4, ReplaceSplits
      <4>2. QED
        BY <3>3, <4>1
    <3>6. left(s) \in Seq(Symbols) /\ right(s) \in Seq(Symbols)
      BY <3>1, <3>2, <3>3, ReplaceType
    <3>7. ASSUME NEW v \in Needles PROVE Apart(v, left(s), right(s))
      <4>1. v \in Words /\ Apart(v, left(rest), right(rest))
        BY <1>1, <3>2
      <4>2. QED
        BY <3>1, <3>2, <3>3, <4>1, ApartStays
    <3>8. QED
      BY <2>2, <3>2, <3>3, <3>5, <3>6, <3>7
  <2>5. QED
    BY <2>3, <2>4
<1>3. Split(Needles)
  BY <1>2
<1>4. /\ Redact(Needles, a \o b) = whole(Needles)
      /\ Redact(Needles, a) = left(Needles) /\ Redact(Needles, b) = right(Needles)
  BY RedactIsRedacted
<1> HIDE DEF whole, left, right
<1>5. QED
  BY <1>3, <1>4

LEMMA NothingToRedact == Redact(Needles, <<>>) = <<>>
<1> DEFINE bad == {s \in SUBSET Needles : Redacted(<<>>)[s] # <<>>}
<1>1. Needles \subseteq Words /\ IsFiniteSet(Needles)
  BY NeedlesAssumption DEF Words
<1>2. ASSUME bad # {} PROVE FALSE
  <2>1. PICK s \in bad : \A n \in s : s \ {n} \notin bad
    <3>1. bad \in SUBSET (SUBSET Needles)
      OBVIOUS
    <3> HIDE DEF bad
    <3>2. QED
      BY <1>1, <1>2, <3>1, SmallestOf
  <2>2. s \in SUBSET Needles /\ Redacted(<<>>)[s] # <<>>
    BY <2>1
  <2>3. s # {} /\ Shortest(s) \in s
    BY <2>2, RedactStep, ShortestIn
  <2>4. Redacted(<<>>)[s \ {Shortest(s)}] = <<>>
    BY <2>1, <2>2, <2>3
  <2>5. Redacted(<<>>)[s] = Replace(<<>>, Shortest(s))
    BY <2>2, <2>3, <2>4, RedactStep
  <2>6. Replace(<<>>, Shortest(s)) = <<>>
    <3> DEFINE w == Shortest(s)
    <3>1. w \in Words /\ <<>> \in Seq(Symbols) /\ Len(<<>>) = 0
      BY <1>1, <2>2, <2>3, EmptySeq
    <3> HIDE DEF w
    <3>2. 1 \in 1..(Len(<<>>) + 1) /\ 1 > Len(<<>>)
      BY <3>1
    <3>3. Scan(<<>>, w)[1] = <<>>
      BY <3>1, <3>2, ScanStep DEF ScanAt
    <3>4. QED
      BY <3>3, ReplaceIsScan DEF w
  <2>7. QED
    BY <2>2, <2>5, <2>6
<1>3. Redacted(<<>>)[Needles] = <<>>
  BY <1>2
<1>4. QED
  BY <1>3, RedactIsRedacted

------------------------------------------------------------------------------
(* The stream: where it draws the line *)

Earliest(S) == CHOOSE i \in S : \A j \in S : i <= j

\* From each cut of 0..n, g moves back to the one that is kept.
Keeps(raw, n, g) ==
  g = [c \in 0..n |-> IF Straddling(Needles, raw, c) = {} THEN c
                      ELSE g[Earliest(Straddling(Needles, raw, c)) - 1]]

LEMMA EarliestIn ==
  ASSUME NEW raw \in Seq(Symbols), NEW c \in Nat, Straddling(Needles, raw, c) # {}
  PROVE  c # 0 /\ Earliest(Straddling(Needles, raw, c)) - 1 \in 0..(c - 1)
<1> DEFINE broken == Straddling(Needles, raw, c)
<1>1. \A w \in Needles : w \in Words /\ Found(w, raw) \subseteq Nat \ {0}
  BY NeedlesAssumption, FoundAt, LenProperties DEF Words
<1>2. \A i \in broken : i \in Nat \ {0} /\ i <= c
  BY <1>1 DEF Straddling
<1> HIDE DEF broken
<1>3. broken \in SUBSET Nat /\ broken # {}
  BY <1>2 DEF broken
<1>4. Earliest(broken) \in broken
  BY <1>3, LeastOf DEF Earliest
<1>5. Earliest(broken) \in Nat \ {0} /\ Earliest(broken) <= c
  BY <1>2, <1>4
<1>6. c # 0 /\ Earliest(broken) - 1 \in 0..(c - 1)
  BY <1>5
<1>7. QED
  BY <1>6 DEF broken

LEMMA KeepsExists == ASSUME NEW raw \in Seq(Symbols) PROVE \A n \in Nat : \E g : Keeps(raw, n, g)
<1> DEFINE bad == {n \in Nat : ~ \E g : Keeps(raw, n, g)}
           broken(c) == Straddling(Needles, raw, c)
           back(c) == Earliest(broken(c)) - 1
<1>1. \A c \in Nat : broken(c) # {} => c # 0 /\ back(c) \in 0..(c - 1)
  BY EarliestIn
<1>2. ASSUME bad # {} PROVE FALSE
  <2>1. PICK n \in bad : \A m \in bad : n <= m
    BY <1>2, LeastOf
  <2>2. n \in Nat /\ ~ \E g : Keeps(raw, n, g)
    BY <2>1
  <2>3. n = 0 \/ \E g : Keeps(raw, n - 1, g)
    <3>1. n # 0 => n - 1 \in Nat /\ ~(n <= n - 1)
      BY <2>2
    <3>2. n # 0 => n - 1 \notin bad
      <4> HIDE DEF bad
      <4>1. QED
        BY <2>1, <3>1
    <3>3. QED
      BY <3>1, <3>2
  <2>4. PICK g : n = 0 \/ Keeps(raw, n - 1, g)
    BY <2>3
  <2> HIDE DEF bad, broken, back
  <2> DEFINE h == [c \in 0..n |-> IF broken(c) = {} THEN c ELSE g[back(c)]]
  <2>5. \A c \in 0..n : c < n => h[c] = g[c]
    <3>1. ASSUME NEW c \in 0..n, c < n PROVE h[c] = g[c]
      <4>1. n # 0 /\ c \in 0..(n - 1)
        BY <2>2, <3>1
      <4>2. g = [e \in 0..(n - 1) |-> IF broken(e) = {} THEN e ELSE g[back(e)]]
        BY <2>4, <4>1 DEF Keeps, broken, back
      <4>3. g[c] = IF broken(c) = {} THEN c ELSE g[back(c)]
        BY <4>1, <4>2
      <4>4. QED
        BY <4>3
    <3>2. QED
      BY <3>1
  <2>6. ASSUME NEW c \in 0..n, broken(c) # {} PROVE h[back(c)] = g[back(c)]
    <3>1. back(c) \in 0..n /\ back(c) < n
      <4>1. c \in Nat
        BY <2>2
      <4>2. c # 0 /\ back(c) \in 0..(c - 1)
        BY <1>1, <2>6, <4>1
      <4>3. QED
        BY <2>2, <4>1, <4>2
    <3>2. QED
      BY <2>5, <3>1
  <2>7. h = [c \in 0..n |-> IF broken(c) = {} THEN c ELSE h[back(c)]]
    BY <2>6
  <2>8. Keeps(raw, n, h)
    <3> HIDE DEF h
    <3>1. QED
      BY <2>7 DEF Keeps, broken, back
  <2>9. QED
    BY <2>2, <2>8
<1>3. QED
  BY <1>2

\* A boundary that is moved back cuts no needle.
LEMMA KeepIsSound ==
  ASSUME NEW raw \in Seq(Symbols), NEW cut \in Nat
  PROVE  /\ KeepMatchesWhole(Needles, raw, cut) \in 0..cut
         /\ Straddling(Needles, raw, KeepMatchesWhole(Needles, raw, cut)) = {}
<1> DEFINE g == CHOOSE g : Keeps(raw, cut, g)
           bad == {c \in 0..cut : ~(g[c] \in 0..cut /\ Straddling(Needles, raw, g[c]) = {})}
<1>1. KeepMatchesWhole(Needles, raw, cut) = g[cut]
  BY DEF KeepMatchesWhole, Keeps, Earliest
<1>2. Keeps(raw, cut, g)
  BY KeepsExists
<1> HIDE DEF g
<1>3. \A c \in 0..cut : g[c] = IF Straddling(Needles, raw, c) = {} THEN c
                               ELSE g[Earliest(Straddling(Needles, raw, c)) - 1]
  BY <1>2 DEF Keeps
<1>4. ASSUME bad # {} PROVE FALSE
  <2>1. bad \in SUBSET Nat
    OBVIOUS
  <2>2. PICK c \in bad : \A d \in bad : c <= d
    BY <1>4, <2>1, LeastOf
  <2>3. c \in 0..cut /\ c \in Nat /\ ~(g[c] \in 0..cut /\ Straddling(Needles, raw, g[c]) = {})
    BY <2>2
  <2>4. Straddling(Needles, raw, c) # {}
    BY <1>3, <2>3
  <2> DEFINE e == Earliest(Straddling(Needles, raw, c)) - 1
  <2>5. c # 0 /\ e \in 0..(c - 1)
    BY <2>3, <2>4, EarliestIn
  <2>6. g[c] = g[e]
    BY <1>3, <2>3, <2>4
  <2> HIDE DEF e
  <2>7. e \in 0..cut /\ ~(c <= e)
    BY <2>3, <2>5
  <2>8. e \notin bad
    <3> HIDE DEF bad
    <3>1. QED
      BY <2>2, <2>7
  <2>9. QED
    BY <2>3, <2>6, <2>7, <2>8
<1>5. cut \in 0..cut
  OBVIOUS
<1>6. QED
  BY <1>1, <1>4, <1>5

\* k characters at the end of text begin a needle.
Begins(text, k) ==
  \E needle \in Needles : k < Len(needle) /\ SubSeq(text, Len(text) - k + 1, Len(text)) = SubSeq(needle, 1, k)

LEMMA HoldIsLongest ==
  ASSUME NEW text \in Seq(Symbols)
  PROVE  /\ Hold(Needles, text) \in 0..Len(text)
         /\ \A k \in 1..Len(text) : Begins(text, k) => k <= Hold(Needles, text)
<1> DEFINE n == Len(text)
           T == {0} \union {k \in 1..n : Begins(text, k)}
<1>1. n \in Nat
  BY LenProperties
<1>2. Hold(Needles, text) = Biggest(T)
  BY DEF Hold, Begins
<1>3. T \in SUBSET (0..n) /\ T # {}
  BY <1>1
<1> HIDE DEF n, T
<1>4. Biggest(T) \in T /\ \A m \in T : m <= Biggest(T)
  BY <1>1, <1>3, GreatestOf DEF Biggest
<1>5. \A k \in 1..n : Begins(text, k) => k \in T
  BY DEF T
<1>6. QED
  BY <1>2, <1>3, <1>4, <1>5 DEF n

\* The border of a and b cuts no needle ...
Parted(a, b) == \A w \in Needles : Apart(w, a, b)

\* ... and none that text may still grow into: from i on, text is the start of w.
Opens(w, text, i) ==
  Len(text) - i + 1 < Len(w) /\ \A k \in 1..(Len(text) - i + 1) : text[i + k - 1] = w[k]

Settled(a, text) == \A w \in Needles, i \in 1..Len(a) : ~Opens(w, text, i)

\* A border that no text can grow over stays one.
LEMMA SettledStays ==
  ASSUME NEW a \in Seq(Symbols), NEW p \in Seq(Symbols), NEW x \in Seq(Symbols),
         Parted(a, p), Settled(a, a \o p)
  PROVE  Parted(a, p \o x) /\ Settled(a, a \o (p \o x))
<1> DEFINE t == a \o p
           u == t \o x
           n == Len(a)
           m == Len(t)
           e == Len(x)
<1>1. n \in Nat /\ m \in Nat /\ e \in Nat /\ n <= m /\ t \in Seq(Symbols) /\ u \in Seq(Symbols)
  <2>1. t \in Seq(Symbols) /\ Len(t) = Len(a) + Len(p) /\ Len(a) \in Nat /\ Len(p) \in Nat
    BY ConcatProperties, LenProperties
  <2>2. QED
    BY <2>1, ConcatProperties, LenProperties
<1>2. u = a \o (p \o x)
  BY Associates
<1>3. Len(u) = m + e /\ \A k \in 1..(m + e) : u[k] = IF k <= m THEN t[k] ELSE x[k - m]
  BY <1>1, ConcatProperties
<1>4. \A w \in Needles : w \in Words /\ Len(w) \in Nat \ {0}
  BY NeedlesAssumption, EmptySeq DEF Words
<1>5. ASSUME NEW w \in Needles, NEW i \in Found(w, u), i <= n, n < i + Len(w) - 1 PROVE FALSE
  <2>1. \A j \in Nat \ {0} : j \in Found(w, t) <=> j \in Found(w, u) /\ j + Len(w) - 1 <= m
    BY <1>1, <1>4, FoundLeft
  <2>2. Found(w, u) \subseteq 1..Len(u)
    BY <1>1, <1>4, FoundAt
  <2>3. \A j \in Nat \ {0} : j \in Found(w, u) <=>
          j + Len(w) - 1 <= Len(u) /\ \A k \in 1..Len(w) : u[j + k - 1] = w[k]
    BY <1>1, <1>4, FoundAt
  <2>a. i \in 1..Len(u)
    BY <1>5, <2>2
  <2>4. i \in Nat \ {0} /\ i \in 1..n
    <3> HIDE DEF u, n
    <3>1. QED
      BY <1>1, <1>3, <1>5, <2>a
  <2>5. ~(i + Len(w) - 1 <= m)
    <3>1. i \notin Found(w, t)
      BY <1>5 DEF Parted, Apart
    <3>2. QED
      BY <1>5, <2>1, <2>4, <3>1
  <2> HIDE DEF t, u, n, m
  <2>6. m - i + 1 < Len(w) /\ \A k \in 1..(m - i + 1) : k \in 1..Len(w) /\ i + k - 1 \in 1..m
    BY <1>1, <1>4, <2>4, <2>5
  <2>7. ASSUME NEW k \in 1..(m - i + 1) PROVE t[i + k - 1] = w[k]
    <3>1. k \in 1..Len(w) /\ i + k - 1 \in 1..(m + e) /\ i + k - 1 <= m
      BY <1>1, <2>4, <2>6, <2>7
    <3>2. u[i + k - 1] = w[k]
      BY <1>5, <2>3, <2>4, <3>1
    <3>3. u[i + k - 1] = t[i + k - 1]
      BY <1>3, <3>1
    <3>4. QED
      BY <3>2, <3>3
  <2>8. Opens(w, t, i)
    BY <2>6, <2>7 DEF Opens, m
  <2>9. QED
    BY <2>4, <2>8 DEF Settled, n, t
<1>6. ASSUME NEW w \in Needles, NEW i \in 1..n, Opens(w, u, i) PROVE FALSE
  <2> HIDE DEF t, u, n, m
  <2>1. (m + e) - i + 1 < Len(w) /\ \A k \in 1..((m + e) - i + 1) : u[i + k - 1] = w[k]
    BY <1>3, <1>6 DEF Opens
  <2>2. m - i + 1 < Len(w)
    BY <1>1, <1>4, <2>1
  <2>3. ASSUME NEW k \in 1..(m - i + 1) PROVE t[i + k - 1] = w[k]
    <3>1. k \in 1..((m + e) - i + 1) /\ i + k - 1 \in 1..(m + e) /\ i + k - 1 <= m
      BY <1>1, <2>3
    <3>2. QED
      BY <1>3, <2>1, <3>1
  <2>4. Opens(w, t, i)
    BY <2>2, <2>3 DEF Opens, m
  <2>5. QED
    BY <2>4 DEF Settled, n, t
<1>7. Parted(a, p \o x)
  BY <1>2, <1>5 DEF Parted, Apart
<1>8. Settled(a, a \o (p \o x))
  BY <1>2, <1>6 DEF Settled
<1>9. QED
  BY <1>7, <1>8

LEMMA OpensIsBegun ==
  ASSUME NEW raw \in Seq(Symbols), NEW w \in Needles, NEW i \in 1..Len(raw), Opens(w, raw, i)
  PROVE  Begins(raw, Len(raw) - i + 1)
<1> DEFINE n == Len(raw)
           k == n - i + 1
<1>1. n \in Nat /\ i \in Nat /\ k \in Nat \ {0} /\ k < Len(w) /\ n - k + 1 = i /\ Len(w) \in Nat
  BY LenProperties, NeedlesAssumption DEF Opens
<1>2. w \in Seq(Symbols)
  BY NeedlesAssumption, SeqMonotonic DEF Symbols
<1> DEFINE x == SubSeq(raw, i, n)
           y == SubSeq(w, 1, k)
<1>3. x \in Seq(Symbols) /\ Len(x) = k /\ \A j \in 1..k : x[j] = raw[i + j - 1]
  <2>1. i \in Int /\ n \in Int /\ i <= n /\ \A j \in i..n : raw[j] \in Symbols
    BY <1>1, ElementOfSeq
  <2>2. /\ x \in Seq(Symbols) /\ Len(x) = IF i <= n THEN n - i + 1 ELSE 0
        /\ \A j \in 1..(n - i + 1) : x[j] = raw[i + j - 1]
    BY <2>1, SubSeqProperties
  <2>3. QED
    BY <2>1, <2>2
<1>4. y \in Seq(Symbols) /\ Len(y) = k /\ \A j \in 1..k : y[j] = w[j]
  <2>1. 1 \in Int /\ k \in Int /\ 1 <= k /\ k - 1 + 1 = k /\ \A j \in 1..k : w[j] \in Symbols
    <3>1. \A j \in 1..k : j \in 1..Len(w)
      BY <1>1
    <3>2. QED
      BY <1>1, <1>2, <3>1, ElementOfSeq
  <2>2. /\ y \in Seq(Symbols) /\ Len(y) = IF 1 <= k THEN k - 1 + 1 ELSE 0
        /\ \A j \in 1..(k - 1 + 1) : y[j] = w[1 + j - 1]
    BY <2>1, SubSeqProperties
  <2>3. \A j \in 1..k : 1 + j - 1 = j
    OBVIOUS
  <2> HIDE DEF y, k
  <2>4. QED
    BY <2>1, <2>2, <2>3
<1>5. \A j \in 1..k : raw[i + j - 1] = w[j]
  BY DEF Opens
<1> HIDE DEF x, y, k
<1>6. x = y
  BY <1>3, <1>4, <1>5, SeqEqual
<1>7. k < Len(w) /\ SubSeq(raw, n - k + 1, n) = SubSeq(w, 1, k)
  BY <1>1, <1>6 DEF x, y
<1>8. QED
  BY <1>7 DEF Begins, k

\* What feed releases, with what it keeps, is what it got; and no needle crosses the border, now
\* or later.
LEMMA FeedIsSound ==
  ASSUME NEW a \in Seq(Symbols), NEW p \in Seq(Symbols), NEW text \in Seq(Symbols),
         Parted(a, p), Settled(a, a \o p)
  PROVE  LET fresh == Feed(Needles, p, text) IN
         /\ fresh.pending \in Seq(Symbols)
         /\ \E x \in Seq(Symbols) :
              /\ p \o text = x \o fresh.pending /\ fresh.out = Redact(Needles, x)
              /\ Parted(a, x) /\ Parted(a \o x, fresh.pending)
              /\ Settled(a \o x, (a \o x) \o fresh.pending)
<1> DEFINE fresh == Feed(Needles, p, text)
           raw == p \o text
           n   == Len(raw)
           h   == Hold(Needles, raw)
           c   == KeepMatchesWhole(Needles, raw, n - h)
           x   == SubSeq(raw, 1, c)
           y   == SubSeq(raw, c + 1, n)
           t   == a \o raw
           l   == Len(a)
<1>1. raw \in Seq(Symbols) /\ n \in Nat /\ l \in Nat /\ t \in Seq(Symbols) /\ Len(t) = l + n
  BY ConcatProperties, LenProperties
<1>2. h \in 0..n /\ \A k \in 1..n : Begins(raw, k) => k <= h
  BY <1>1, HoldIsLongest
<1>3. c \in 0..(n - h) /\ Straddling(Needles, raw, c) = {}
  <2>1. n - h \in Nat
    <3> HIDE DEF n, h
    <3>1. QED
      BY <1>1, <1>2
  <2>2. QED
    BY <1>1, <2>1, KeepIsSound
<1>4. Feed(Needles, p, text) = [out |-> Redact(Needles, x), pending |-> y]
  BY DEF Feed
<1> HIDE DEF h, c
<1>5. c \in 0..n /\ c \in Nat
  <2> HIDE DEF n
  <2>1. QED
    BY <1>1, <1>2, <1>3
<1>6. x \in Seq(Symbols) /\ Len(x) = c /\ y \in Seq(Symbols) /\ raw = x \o y
  <2>1. SubSeq(raw, 1, c) \o SubSeq(raw, c + 1, n) = SubSeq(raw, 1, n)
    <3>1. 1 \in 1..(n + 1) /\ c \in (1 - 1)..n /\ n \in c..n
      <4> HIDE DEF n
      <4>1. QED
        BY <1>1, <1>5
    <3>2. QED
      BY <1>1, <3>1, ConcatAdjacentSubSeq
  <2>2. SubSeq(raw, 1, n) = raw
    BY <1>1, SubSeqFull
  <2>3. \A i \in 1..n : raw[i] \in Symbols
    BY <1>1, ElementOfSeq
  <2> HIDE DEF n, raw
  <2>4. /\ \A i \in 1..c : raw[i] \in Symbols
        /\ \A i \in (c + 1)..n : raw[i] \in Symbols
    BY <1>1, <1>5, <2>3
  <2>5. x \in Seq(Symbols) /\ Len(x) = IF 1 <= c THEN c - 1 + 1 ELSE 0
    BY <1>5, <2>4, SubSeqProperties
  <2>6. y \in Seq(Symbols)
    BY <1>1, <1>5, <2>4, SubSeqProperties
  <2> HIDE DEF x, y
  <2>7. Len(x) = c
    BY <1>5, <2>5
  <2>8. QED
    BY <2>1, <2>2, <2>5, <2>6, <2>7 DEF x, y
<1> HIDE DEF x, y
<1>7. Parted(a, raw) /\ Settled(a, t)
  BY SettledStays
<1> HIDE DEF raw, n, t, l
<1>8. /\ a \o x \in Seq(Symbols) /\ Len(a \o x) = l + c /\ (a \o x) \o y = t
  <2>1. a \o x \in Seq(Symbols) /\ Len(a \o x) = Len(a) + Len(x)
    BY <1>6, ConcatProperties
  <2>2. (a \o x) \o y = a \o (x \o y)
    BY <1>6, Associates
  <2>3. QED
    BY <1>6, <2>1, <2>2 DEF t, l
<1>9. \A w \in Needles : w \in Words /\ Len(w) \in Nat \ {0}
  BY NeedlesAssumption, EmptySeq DEF Words
<1>10. Parted(a, x)
  <2>1. ASSUME NEW w \in Needles, NEW i \in Found(w, a \o x), i <= l, l < i + Len(w) - 1 PROVE FALSE
    <3>1. i \in Nat \ {0}
      <4>1. i \in 1..Len(a \o x)
        BY <1>8, <1>9, FoundAt
      <4>2. QED
        BY <4>1
    <3>2. i \in Found(w, t)
      BY <1>6, <1>8, <1>9, <3>1, FoundLeft
    <3>3. QED
      BY <1>7, <2>1, <3>2 DEF Parted, Apart, t, l
  <2>2. QED
    BY <2>1 DEF Parted, Apart, l
<1>11. Parted(a \o x, y)
  <2>1. ASSUME NEW w \in Needles, NEW i \in Found(w, t), i <= l + c, l + c < i + Len(w) - 1
        PROVE  FALSE
    <3>1. i \in Nat \ {0}
      <4>1. i \in 1..Len(t)
        BY <1>1, <1>9, FoundAt
      <4>2. QED
        BY <4>1
    <3>2. CASE i <= l
      <4>1. l < i + Len(w) - 1
        BY <1>1, <1>5, <1>9, <2>1, <3>1
      <4>2. QED
        BY <1>7, <2>1, <3>2, <4>1 DEF Parted, Apart, t, l
    <3>3. CASE ~(i <= l)
      <4> DEFINE j == i - l
      <4>1. j \in Nat \ {0} /\ l + j = i /\ j <= c /\ c < j + Len(w) - 1
        BY <1>1, <1>5, <1>9, <2>1, <3>1, <3>3
      <4> HIDE DEF j
      <4>2. \A k \in Nat \ {0} : l + k \in Found(w, t) <=> k \in Found(w, raw)
        BY <1>1, <1>9, FoundRight DEF t, l
      <4>3. j \in Found(w, raw)
        BY <2>1, <4>1, <4>2
      <4>4. j \in Straddling(Needles, raw, c)
        BY <4>1, <4>3 DEF Straddling
      <4>5. QED
        BY <1>3, <4>4
    <3>4. QED
      BY <3>2, <3>3
  <2>2. QED
    BY <1>8, <2>1 DEF Parted, Apart
<1>12. Settled(a \o x, t)
  <2>1. ASSUME NEW w \in Needles, NEW i \in 1..(l + c), Opens(w, t, i) PROVE FALSE
    <3>1. CASE i <= l
      <4>1. i \in 1..l
        BY <1>1, <3>1
      <4>2. QED
        BY <1>7, <2>1, <4>1 DEF Settled, l
    <3>2. CASE ~(i <= l)
      <4> DEFINE j == i - l
      <4>1. j \in 1..n /\ l + j = i /\ j <= c
        BY <1>1, <1>5, <3>2
      <4> HIDE DEF j
      <4>2. (l + n) - i + 1 < Len(w) /\ \A k \in 1..((l + n) - i + 1) : t[i + k - 1] = w[k]
        BY <1>1, <2>1 DEF Opens
      <4>3. (l + n) - i + 1 = n - j + 1
        BY <1>1, <4>1
      <4>4. \A k \in 1..(l + n) : t[k] = IF k <= l THEN a[k] ELSE raw[k - l]
        BY <1>1, ConcatProperties DEF t, l, n
      <4>5. ASSUME NEW k \in 1..(n - j + 1) PROVE raw[j + k - 1] = w[k]
        <5>1. /\ i + k - 1 \in 1..(l + n) /\ ~(i + k - 1 <= l) /\ i + k - 1 - l = j + k - 1
          BY <1>1, <4>1
        <5>2. \A d \in 1..(l + n) : ~(d <= l) => t[d] = raw[d - l]
          BY <4>4
        <5>3. t[i + k - 1] = raw[i + k - 1 - l]
          BY <1>1, <5>1, <5>2
        <5>4. t[i + k - 1] = w[k]
          BY <4>2, <4>3
        <5>5. QED
          BY <5>1, <5>3, <5>4
      <4>6. Opens(w, raw, j)
        BY <4>2, <4>3, <4>5 DEF Opens, n
      <4>7. Begins(raw, n - j + 1)
        BY <1>1, <4>1, <4>6, OpensIsBegun DEF n
      <4>8. n - j + 1 \in 1..n /\ ~(n - j + 1 <= h)
        BY <1>1, <1>2, <1>3, <4>1
      <4>9. QED
        BY <1>2, <4>7, <4>8
    <3>3. QED
      BY <3>1, <3>2
  <2>2. QED
    BY <1>8, <2>1 DEF Settled
<1>13. fresh.pending = y /\ fresh.out = Redact(Needles, x)
  BY <1>4
<1> HIDE DEF fresh
<1>14. Settled(a \o x, (a \o x) \o y) /\ p \o text = x \o y
  BY <1>6, <1>8, <1>12 DEF raw
<1>15. QED
  BY <1>6, <1>10, <1>11, <1>13, <1>14 DEF fresh

------------------------------------------------------------------------------
(* The stream of the step *)

\* done is the text whose redaction was written: what is held back parts from it for good, and as
\* long as the step runs no needle can grow over the border.
Released(done) ==
  /\ fed = done \o pending /\ stream = Redact(Needles, done) /\ Parted(done, pending)
  /\ pc = "run" => Settled(done, fed)

TextInv == pending \in Seq(Symbols) /\ \E done \in Seq(Symbols) : Released(done)

LEMMA NothingParts ==
  <<>> \in Seq(Symbols) /\ <<>> \o <<>> = <<>> /\ Parted(<<>>, <<>>) /\ Settled(<<>>, <<>>)
<1>1. <<>> \in Seq(Symbols) /\ <<>> \o <<>> = <<>> /\ Len(<<>>) = 0
  BY EmptySeq, ConcatEmptySeq
<1>2. Parted(<<>>, <<>>)
  <2>1. ASSUME NEW w \in Needles PROVE Found(w, <<>>) = {}
    <3>1. Found(w, <<>>) \subseteq 1..0
      BY <1>1, FoundAt, NeedlesAssumption DEF Words
    <3>2. QED
      BY <3>1
  <2>2. QED
    BY <1>1, <2>1 DEF Parted, Apart
<1>3. Settled(<<>>, <<>>)
  BY <1>1 DEF Settled
<1>4. QED
  BY <1>1, <1>2, <1>3

LEMMA TextStep == ASSUME TextInv, [Next]_vars PROVE TextInv'
<1> DEFINE Flushed == /\ pending' = <<>> /\ fed' = fed /\ pc' = "over"
                      /\ stream' = stream \o Redact(Needles, pending)
<1>1. PICK done \in Seq(Symbols) : Released(done)
  BY DEF TextInv
<1>2. CASE Start \/ Crash
  <2>1. (fed = <<>> /\ pending = <<>> /\ stream = <<>>)'
    BY <1>2 DEF Start, Crash
  <2>2. QED
    BY <2>1, NothingParts, NothingToRedact DEF TextInv, Released
<1>3. CASE Delta
  <2>1. PICK text \in BoundedSeq(Chars, 2) \ {<<>>} :
          LET fresh == Feed(Needles, pending, text) IN
            fed' = fed \o text /\ pending' = fresh.pending /\ stream' = stream \o fresh.out
    BY <1>3 DEF Delta
  <2>2. text \in Seq(Symbols)
    <3>1. text \in Seq(Chars)
      <4>1. \E m \in 0..2 : text \in [1..m -> Chars]
        BY <2>1 DEF BoundedSeq, SeqOf
      <4>2. QED
        BY <4>1, SeqDef
    <3>2. QED
      BY <3>1, SeqMonotonic DEF Symbols
  <2>3. pc = "run" /\ pending \in Seq(Symbols) /\ Settled(done, done \o pending)
    BY <1>1, <1>3 DEF Delta, Released, TextInv
  <2>4. /\ pending' \in Seq(Symbols)
        /\ \E x \in Seq(Symbols) :
             /\ pending \o text = x \o pending' /\ stream' = stream \o Redact(Needles, x)
             /\ Parted(done, x) /\ Parted(done \o x, pending')
             /\ Settled(done \o x, (done \o x) \o pending')
    BY <1>1, <2>1, <2>2, <2>3, FeedIsSound DEF Released
  <2>5. PICK x \in Seq(Symbols) :
          /\ pending \o text = x \o pending' /\ stream' = stream \o Redact(Needles, x)
          /\ Parted(done, x) /\ Parted(done \o x, pending')
          /\ Settled(done \o x, (done \o x) \o pending')
    BY <2>4
  <2>6. done \o x \in Seq(Symbols)
    BY ConcatProperties
  <2>7. fed' = (done \o x) \o pending'
    <3>1. (done \o pending) \o text = done \o (pending \o text)
      BY <2>2, <2>3, Associates
    <3>2. (done \o x) \o pending' = done \o (x \o pending')
      BY <2>4, Associates
    <3>3. QED
      BY <1>1, <2>1, <2>5, <3>1, <3>2 DEF Released
  <2>8. stream' = Redact(Needles, done \o x)
    <3>1. Redact(Needles, done \o x) = Redact(Needles, done) \o Redact(Needles, x)
      BY <2>5, RedactSplits DEF Parted
    <3>2. QED
      BY <1>1, <2>5, <3>1 DEF Released
  <2>9. Released(done \o x)'
    BY <2>5, <2>7, <2>8 DEF Released
  <2>10. QED
    BY <2>4, <2>6, <2>9 DEF TextInv
<1>4. CASE Flushed
  <2>1. pending' = <<>> /\ fed' = fed /\ stream' = stream \o Redact(Needles, pending) /\ pc' = "over"
    BY <1>4
  <2>2. fed \in Seq(Symbols) /\ fed \o <<>> = fed /\ <<>> \in Seq(Symbols)
    BY <1>1, ConcatProperties, ConcatEmptySeq, EmptySeq DEF Released, TextInv
  <2>3. Redact(Needles, fed) = Redact(Needles, done) \o Redact(Needles, pending)
    BY <1>1, RedactSplits DEF Released, TextInv, Parted
  <2>4. Parted(fed, <<>>)
    <3>1. ASSUME NEW w \in Needles, NEW i \in Found(w, fed) PROVE ~(Len(fed) < i + Len(w) - 1)
      <4>1. w \in Words /\ Len(w) \in Nat /\ Len(fed) \in Nat
        BY <2>2, NeedlesAssumption, LenProperties DEF Words
      <4>2. i \in 1..Len(fed)
        BY <2>2, <3>1, <4>1, FoundAt
      <4>3. i + Len(w) - 1 <= Len(fed)
        BY <2>2, <3>1, <4>1, <4>2, FoundAt
      <4>4. QED
        BY <4>1, <4>2, <4>3
    <3>2. QED
      BY <2>2, <3>1 DEF Parted, Apart
  <2>5. Released(fed)'
    BY <1>1, <2>1, <2>2, <2>3, <2>4 DEF Released
  <2>6. QED
    BY <2>1, <2>2, <2>5 DEF TextInv
<1>5. CASE UNCHANGED texts /\ (pc' = "run" => pc = "run")
  BY <1>5 DEF TextInv, Released, texts
<1>6. CASE TryReuse \/ Skip \/ Replay \/ EndAttempt \/ Unlink \/ WriteOutput \/ SaveOutcome
  BY <1>5, <1>6 DEF TryReuse, Skip, Replay, EndAttempt, Unlink, WriteOutput, SaveOutcome
<1>7. CASE SaveFailure \/ PersistFails \/ Beat \/ BeatSaves \/ Resume \/ UNCHANGED vars
  BY <1>5, <1>7 DEF SaveFailure, PersistFails, Beat, BeatSaves, Resume, vars, task
<1>8. CASE Announce \/ AnnounceFails
  BY <1>4, <1>5, <1>8 DEF Announce, AnnounceFails, texts
<1>9. QED
  BY <1>2, <1>3, <1>6, <1>7, <1>8 DEF Next

\* However the text is cut into deltas, whatever its needles: what was released, with what is held
\* back, is the redaction of the whole text, and a step whose success was announced holds nothing back.
THEOREM StreamsAreRedacted == Spec => []StreamIsRedacted
<1>1. Init => TextInv
  BY NothingParts, NothingToRedact DEF Init, TextInv, Released
<1>2. TextInv /\ [Next]_vars => TextInv'
  BY TextStep
<1>3. TextInv /\ StoreInv => StreamIsRedacted
  <2>1. ASSUME TextInv, StoreInv PROVE StreamIsRedacted
    <3>1. PICK done \in Seq(Symbols) : Released(done)
      BY <2>1 DEF TextInv
    <3>2. Redact(Needles, fed) = Redact(Needles, done) \o Redact(Needles, pending)
      BY <2>1, <3>1, RedactSplits DEF Released, TextInv, Parted
    <3>3. QED
      BY <2>1, <3>1, <3>2 DEF Released, StreamIsRedacted, StoreInv, PendingInv
  <2>2. QED
    BY <2>1
<1>4. QED
  BY <1>1, <1>2, <1>3, RecordsAreSound, PTL DEF Spec
=============================================================================
