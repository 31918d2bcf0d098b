------------------------------ MODULE StepStore ------------------------------
(***************************************************************************)
(* What one leaf step leaves in the run directory: its record in run.json, *)
(* its output file, its stream and its step.finished event. The heartbeat  *)
(* and the other steps save run.json beside it, a write may fail, the      *)
(* process may die between any two writes, and the run may be resumed.     *)
(***************************************************************************)
EXTENDS RedactStream

CONSTANTS
  Needles,   \* the values the redactor knows
  Chars,     \* the characters a step may write
  MaxText,   \* the bound on the text of one execution
  MaxRuns    \* the bound on processes of one run id

ASSUME BoundsAssumption == MaxText \in Nat /\ MaxRuns \in Nat \ {0}
ASSUME NeedlesAssumption ==
  IsFiniteSet(Needles) /\ Needles \subseteq Seq(Chars) \ {<<>>} /\ Mark \notin Chars

Kinds  == {"text", "json"}
Prints == {1, 2}  \* fingerprints: the rendered script or prompt, before and after an edit

VARIABLES
  pc,        \* where the step's task is
  mem,       \* the record in run.steps, the engine's object
  disk,      \* the record in run.json
  cache,     \* ctx.cache
  file,      \* steps/<path>/output.<kind>: the execution that wrote it, 0 for no file
  lock,      \* ctx.lock
  beat,      \* the payload another task's save has serialised
  kind,      \* the kind of output this execution produces
  print,     \* the fingerprint of the step as it is now
  rerun,     \* this process is to run it whatever is cached: always_run, --rerun, a changed item
  runs,      \* processes so far
  gen,       \* fresh records of the step so far: its executions, and the times it was skipped
  announced, \* events.jsonl: the last record a step.finished calls succeeded
  demoted,   \* the last record that an error after its verdict was saved has marked failed
  fed,       \* the text the execution wrote
  pending,   \* what its StreamRedactor holds back
  stream     \* its stream.jsonl

task   == <<pc, mem, disk, cache, file, lock, beat>>
fixed  == <<kind, print, rerun, runs>>
texts  == <<fed, pending, stream>>
ghosts == <<gen, announced, demoted>>
vars   == <<task, fixed, texts, ghosts>>

\* sha is the execution whose bytes were hashed; by numbers the fresh record this one is.
Rec(s, r, h, b) == [status |-> s, ref |-> r, sha |-> h, by |-> b, print |-> 0]
NoRec           == Rec("none", "none", 0, 0)
NoBeat          == Rec("idle", "none", 0, 0)
Failed(r)       == [r EXCEPT !.status = "failed"]

Stages == {"reuse", "replay", "start", "run", "done", "unlinked", "written", "announce", "over",
           "dead"}

TypeOK ==
  /\ pc \in Stages /\ lock \in {"free", "step", "beat"}
  /\ \A r \in {mem, disk, cache, beat} :
       /\ r.status \in {"none", "idle", "running", "succeeded", "failed", "skipped"}
       /\ r.ref \in Kinds \union {"none"} /\ {r.sha, r.by} \subseteq 0..MaxRuns
       /\ r.print \in Prints \union {0}
  /\ file \in [Kinds -> 0..MaxRuns]
  /\ kind \in Kinds /\ print \in Prints /\ rerun \in BOOLEAN /\ runs \in 1..MaxRuns
  /\ gen \in 0..runs /\ announced \in 0..gen /\ demoted \in 0..gen
  /\ fed \in Seq(Chars) /\ Len(fed) <= MaxText
  /\ pending \in Seq(Chars) /\ stream \in Seq(Chars \union {Mark})

------------------------------------------------------------------------------
(* The step's task *)

Reusable(r) == r.status = "succeeded" /\ r.ref # "none"

Replayable == ~rerun /\ Reusable(cache) /\ file[cache.ref] # 0 /\ cache.print = print

\* try_reuse: whether it may, the record's status, its output file, its fingerprint.
TryReuse ==
  /\ pc = "reuse"
  /\ pc' = IF Replayable THEN "replay" ELSE "start"
  /\ UNCHANGED <<mem, disk, cache, file, lock, beat, fixed, texts, ghosts>>

\* The join table, its when: or a drain decides against the step: a fresh record is persisted
\* without an output.  When that fails the scheduler unwinds, with the record in run.steps.
Skip ==
  /\ pc = "reuse" /\ lock = "free"
  /\ gen' = gen + 1 /\ mem' = Rec("skipped", "none", 0, gen + 1)
  /\ \/ disk' = mem' /\ pc' = "announce"
     \/ disk' = disk /\ pc' = "over"
  /\ UNCHANGED <<cache, file, lock, beat, fixed, texts, announced, demoted>>

\* A replayed record is persisted as it was, and its output is not written again.  When that
\* fails, run_one marks the record failed: the cached object, which run.steps holds as well.
\* (The drain of the scheduler replays too, and lets the error pass.)
Replay ==
  /\ pc = "replay" /\ lock = "free"
  /\ \/ mem' = cache /\ disk' = cache /\ pc' = "announce" /\ UNCHANGED demoted
     \/ mem' = cache /\ disk' = disk /\ pc' = "over" /\ UNCHANGED demoted
     \/ mem' = Failed(cache) /\ disk' = disk /\ pc' = "over" /\ demoted' = cache.by
  /\ UNCHANGED <<cache, file, lock, beat, fixed, texts, gen, announced>>

\* Mutant: the running record is not saved before the step is dispatched.
StartUnsaved ==
  /\ pc = "start" /\ lock = "free"
  /\ gen' = gen + 1
  /\ mem' = Rec("running", "none", 0, gen + 1) /\ disk' = disk /\ pc' = "run"
  /\ fed' = <<>> /\ pending' = <<>> /\ stream' = <<>>
  /\ UNCHANGED <<cache, file, lock, beat, fixed, announced, demoted>>

\* save_record: the fresh record stands in run.json before the step is dispatched; when that
\* save fails, or the task is cancelled before it, the step is finished without running.
Start ==
  /\ pc = "start" /\ lock = "free"
  /\ gen' = gen + 1
  /\ LET new == Rec("running", "none", 0, gen + 1) IN
       \/ mem' = new /\ disk' = new /\ pc' = "run"
       \/ mem' = Failed(new) /\ disk' = disk /\ pc' = "announce"
  /\ fed' = <<>> /\ pending' = <<>> /\ stream' = <<>>
  /\ UNCHANGED <<cache, file, lock, beat, fixed, announced, demoted>>

\* append_stream of one delta.
Delta ==
  /\ pc = "run"
  /\ \E text \in BoundedSeq(Chars, 2) \ {<<>>} :
       /\ Len(fed \o text) <= MaxText
       /\ LET released == Feed(Needles, pending, text) IN
            /\ fed' = fed \o text /\ pending' = released.pending
            /\ stream' = stream \o released.out
  /\ UNCHANGED <<task, fixed, ghosts>>

\* The executor and finalize() write the verdict on the record run.steps already holds, so any
\* other save may store it before the output is written.
EndAttempt ==
  /\ pc = "run"
  /\ \/ pc' = "done"     /\ mem' = [mem EXCEPT !.status = "succeeded", !.print = print]
     \/ pc' = "announce" /\ mem' = [mem EXCEPT !.status = "failed", !.print = print]
  /\ UNCHANGED <<disk, cache, file, lock, beat, fixed, texts, ghosts>>

\* persist: the lock, then write_output_with_sha, which first unlinks the output of the other kind.
Unlink ==
  /\ pc = "done" /\ lock = "free"
  /\ pc' = "unlinked" /\ lock' = "step"
  /\ file' = [k \in Kinds |-> IF k = kind THEN file[k] ELSE 0]
  /\ UNCHANGED <<mem, disk, cache, beat, fixed, texts, ghosts>>

\* An output that is no JSON, or a write that fails, makes the step a failed one, which is neither
\* saved nor announced here.
PersistFails ==
  /\ \/ pc \in {"unlinked", "written"}
     \/ pc = "done" /\ lock = "free"
  /\ pc' = "over" /\ lock' = "free" /\ mem' = Failed(mem)
  /\ UNCHANGED <<disk, cache, file, beat, fixed, texts, ghosts>>

\* os.replace of the output, then its ref and its hash on the record.
WriteOutput ==
  /\ pc = "unlinked"
  /\ pc' = "written"
  /\ file' = [file EXCEPT ![kind] = gen]
  /\ mem' = [mem EXCEPT !.ref = kind, !.sha = gen]
  /\ UNCHANGED <<disk, cache, lock, beat, fixed, texts, ghosts>>

SaveOutcome ==
  /\ pc = "written"
  /\ pc' = "announce" /\ lock' = "free" /\ disk' = mem
  /\ UNCHANGED <<mem, cache, file, beat, fixed, texts, ghosts>>

\* A failed step has no output here: its record is saved, or cannot be.
SaveFailure ==
  /\ pc = "announce" /\ mem.status = "failed" /\ disk # mem /\ lock = "free"
  /\ disk' = mem \/ disk' = disk
  /\ pc' = IF disk' = mem THEN "announce" ELSE "over"
  /\ UNCHANGED <<mem, cache, file, lock, beat, fixed, texts, ghosts>>

\* step.finished: append_event flushes the stream of the step, then appends the event.
Announce ==
  /\ pc = "announce" /\ disk = mem
  /\ pc' = "over"
  /\ stream' = stream \o Redact(Needles, pending) /\ pending' = <<>>
  /\ announced' = IF mem.status = "succeeded" THEN mem.by ELSE announced
  /\ UNCHANGED <<mem, disk, cache, file, lock, beat, fixed, fed, gen, demoted>>

\* A warning of the breakers or the event itself cannot be appended, or only the trim of the log
\* after it fails: the record, already saved, is marked failed in memory, and whoever saves next
\* stores that.
AnnounceFails ==
  /\ pc = "announce" /\ disk = mem /\ mem.status = "succeeded"
  /\ pc' = "over" /\ mem' = Failed(mem) /\ demoted' = mem.by
  /\ \/ UNCHANGED <<pending, stream, announced>>
     \/ /\ stream' = stream \o Redact(Needles, pending) /\ pending' = <<>>
        /\ announced' \in {announced, mem.by}
  /\ UNCHANGED <<disk, cache, file, lock, beat, fixed, fed, gen>>

------------------------------------------------------------------------------
(* The others *)

\* Mutant: the heartbeat saves beside the lock.
BeatUnlocked ==
  /\ pc # "dead" /\ beat = NoBeat
  /\ beat' = mem /\ lock' = lock
  /\ UNCHANGED <<pc, mem, disk, cache, file, fixed, texts, ghosts>>

\* touch_heartbeat, save_run or another step's persist: a thread serialises the whole record.
Beat ==
  /\ pc # "dead" /\ lock = "free" /\ beat = NoBeat
  /\ beat' = mem /\ lock' = "beat"
  /\ UNCHANGED <<pc, mem, disk, cache, file, fixed, texts, ghosts>>

\* ... and replaces run.json, or fails, which is never fatal.
BeatSaves ==
  /\ beat # NoBeat
  /\ disk' \in {disk, beat}
  /\ beat' = NoBeat /\ lock' = IF lock = "beat" THEN "free" ELSE lock
  /\ UNCHANGED <<pc, mem, cache, file, fixed, texts, ghosts>>

Crash ==
  /\ pc # "dead"
  /\ pc' = "dead" /\ lock' = "free" /\ beat' = NoBeat /\ mem' = NoRec /\ cache' = NoRec
  /\ fed' = <<>> /\ pending' = <<>> /\ stream' = <<>>
  /\ UNCHANGED <<disk, file, fixed, ghosts>>

\* Mutant: the records move to the cache, and run.steps starts empty.
ResumeEmpty ==
  /\ pc = "dead" /\ runs < MaxRuns
  /\ runs' = runs + 1 /\ pc' = "reuse"
  /\ cache' = disk /\ mem' = NoRec
  /\ print' \in Prints /\ rerun' \in BOOLEAN /\ kind' \in Kinds
  /\ UNCHANGED <<disk, file, lock, beat, texts, ghosts>>

\* A resume reads run.json into run.steps and the cache; the workflow may have been edited, and
\* the step may be one to run again.
Resume ==
  /\ pc = "dead" /\ runs < MaxRuns
  /\ runs' = runs + 1 /\ pc' = "reuse"
  /\ cache' = disk /\ mem' = disk
  /\ print' \in Prints /\ rerun' \in BOOLEAN /\ kind' \in Kinds
  /\ UNCHANGED <<disk, file, lock, beat, texts, ghosts>>

Init ==
  /\ pc = "reuse" /\ mem = NoRec /\ disk = NoRec /\ cache = NoRec
  /\ file = [k \in Kinds |-> 0] /\ lock = "free" /\ beat = NoBeat
  /\ kind \in Kinds /\ print = 1 /\ rerun = FALSE
  /\ gen = 0 /\ announced = 0 /\ demoted = 0 /\ runs = 1
  /\ fed = <<>> /\ pending = <<>> /\ stream = <<>>

Next == \/ TryReuse \/ Skip \/ Replay \/ Start \/ Delta \/ EndAttempt
        \/ Unlink \/ WriteOutput \/ SaveOutcome \/ SaveFailure \/ PersistFails
        \/ Announce \/ AnnounceFails
        \/ Beat \/ BeatSaves \/ Crash \/ Resume

Spec == Init /\ [][Next]_vars

------------------------------------------------------------------------------
(* What the run directory promises whoever reads it next *)

\* Whatever failed, died or was rewritten: a record in run.json that names an output names the
\* file its own execution wrote, with the hash it recorded.
RefIsGood == disk.ref # "none" => file[disk.ref] = disk.sha /\ disk.sha = disk.by

\* Its success was announced and no later record of the step was begun: neither an execution nor
\* a decision to skip it.
AnnouncedLast == announced = gen /\ gen # 0

\* A step whose success was announced last is executed again only after an edit changed it, if
\* the author or the operator wants it run again, or if an error after its verdict, of a replay
\* that could not be saved or of an event that could not be appended, reached run.json: neither the
\* heartbeat nor another step's save, in this process or a resumed one, loses its record otherwise.
NotExecutedTwice ==
  [][pc = "reuse" /\ pc' = "start" /\ AnnouncedLast
       => /\ disk.by = gen
          /\ disk.print # print \/ rerun \/ (disk.status = "failed" /\ demoted = gen)]_vars

\* Write-ahead across three files: once events.jsonl calls the last record of a step succeeded,
\* run.json holds that record and its output is in place; a stale payload of another save never
\* takes that back.  Only its status is, and only by an error that came after the verdict: of a
\* replay, which marks the very record it could not save, or of the log around the event.
EventAfterRecord ==
  AnnouncedLast =>
    /\ disk.by = gen /\ disk.ref # "none" /\ file[disk.ref] = gen
    /\ disk.status = "succeeded" \/ (disk.status = "failed" /\ demoted = gen)

\* Cutting the text into deltas changes nothing: what the stream released, with what it still
\* holds back, is the redaction of the whole text, and a finished step holds nothing back.
StreamIsRedacted ==
  /\ stream \o Redact(Needles, pending) = Redact(Needles, fed)
  /\ pc = "over" /\ announced = gen => pending = <<>>
==============================================================================
