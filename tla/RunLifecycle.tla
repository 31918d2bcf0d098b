---------------------------- MODULE RunLifecycle ----------------------------
(***************************************************************************)
(* One run id and every process that reads or writes its run.json:         *)
(* engines (rayspec run, resume: engine/runner.py), the commands that load *)
(* the record, look at the process and save what they loaded (reconcile,   *)
(* cancel, approve), and a follower of the log.  run.json is replaced      *)
(* whole by every save and no lock covers a load and the save after it.    *)
(* All processes are on one host, and none of the runs is a pure dry run   *)
(* (that one takes no workdir lock).                                       *)
(***************************************************************************)
EXTENDS Naturals

CONSTANTS
  Engine,    \* engine processes, one entry into the run each
  First,     \* the one that created the run
  Command,   \* command processes, one at a time each, used again and again
  MaxWork,   \* the bound on step records saved
  MaxEvents, \* the bound on run.finished lines in events.jsonl
  Nobody

ASSUME EngineAssumption == First \in Engine /\ Nobody \notin Engine
ASSUME BoundAssumption  == MaxWork \in Nat /\ MaxEvents \in Nat

\* "failed" stands for every verdict of an engine a resume accepts without --force,
\* "interrupted" for the correction of a record whose process is gone.
Verdicts == {"succeeded", "failed", "cancelled"}
Statuses == Verdicts \union {"running", "paused", "interrupted"}

\* The parts of a RunRecord more than one process acts on.  done counts the step records it
\* holds; fresh is its heartbeat, looked at while the status is running; closing is the
\* run.finished line its status was announced by.
Record == [status: Statuses, pid: Engine \union {Nobody}, fresh: BOOLEAN, done: 0..MaxWork,
           closing: 0..MaxEvents]

NoRecord == [status |-> "interrupted", pid |-> Nobody, fresh |-> TRUE, done |-> 0, closing |-> 0]

VARIABLES
  file,       \* run.json
  flag,       \* cancel.json exists
  lock,       \* who holds the workdir lock
  events,     \* run.finished lines in events.jsonl
  pc,         \* where each engine is
  mem,        \* each engine's RunRecord
  forced,     \* it was started with --force
  saw,        \* ctx.cancel_requested
  cpc, copy,  \* where each command is, and the record it loaded
  fpc, seen, read, \* the follower, the run.finished lines it printed, the record it loaded
  overridden, \* history: --force let an engine pass a running record of a live process
  disowned,   \* history: a command saved the record while an engine was at work on it
  meant       \* history: the engines at work when cancel.json was written

engineVars  == <<pc, mem, forced, saw>>
commandVars == <<cpc, copy>>
followVars  == <<fpc, seen, read>>
vars == <<file, flag, lock, events, engineVars, commandVars, followVars,
          overridden, disowned, meant>>

EnginePcs  == {"idle", "asked", "locked", "loaded", "prepared", "running", "ended", "released",
               "emitted", "gone"}
CommandPcs == {"idle", "show", "cancel", "confirming", "mark", "marking", "approve"}
FollowPcs  == {"poll", "check", "correct", "drain", "done"}

TypeOK ==
  /\ file \in Record /\ flag \in BOOLEAN
  /\ lock \in Engine \union {Nobody} /\ events \in 0..MaxEvents
  /\ pc \in [Engine -> EnginePcs] /\ mem \in [Engine -> Record]
  /\ forced \in [Engine -> BOOLEAN] /\ saw \in [Engine -> BOOLEAN]
  /\ cpc \in [Command -> CommandPcs] /\ copy \in [Command -> Record]
  /\ fpc \in FollowPcs /\ seen \in 0..MaxEvents /\ read \in Record
  /\ overridden \in BOOLEAN /\ disowned \in BOOLEAN /\ meant \subseteq Engine

Created == [NoRecord EXCEPT !.status = "running", !.pid = First]

\* store.create has just written the record of a new run.
Init ==
  /\ file = Created /\ flag = FALSE /\ lock = First /\ events = 0
  /\ pc = [p \in Engine |-> IF p = First THEN "running" ELSE "idle"]
  /\ mem = [p \in Engine |-> IF p = First THEN Created ELSE NoRecord]
  /\ forced = [p \in Engine |-> FALSE] /\ saw = [p \in Engine |-> FALSE]
  /\ cpc = [c \in Command |-> "idle"] /\ copy = [c \in Command |-> NoRecord]
  /\ fpc = "poll" /\ seen = 0 /\ read = NoRecord
  /\ overridden = FALSE /\ disowned = FALSE /\ meant = {}

------------------------------------------------------------------------------
(* Liveness of a loaded record (engine/liveness.py) *)

\* The pid exists and its start time is the recorded one.
Alive(r)    == r.pid \in Engine /\ pc[r.pid] # "gone"
DeadLike(r) == r.status = "running" /\ (~Alive(r) \/ ~r.fresh)

\* Engines between their first save of the record and their last.
Writers == {p \in Engine : pc[p] \in {"running", "ended", "released", "emitted"}}
\* Engines that have the record in hand.
AtWork  == {p \in Engine : pc[p] \in {"loaded", "prepared"}} \union Writers

\* The 90 seconds pass without a beat: the process is dead, stuck or suspended.
GoesStale ==
  /\ file.status = "running" /\ file.fresh
  /\ file' = [file EXCEPT !.fresh = FALSE]
  /\ UNCHANGED <<flag, lock, events, engineVars, commandVars, followVars,
                 overridden, disowned, meant>>

------------------------------------------------------------------------------
(* An engine *)

Go(p, to) == pc' = [pc EXCEPT ![p] = to]

\* store.save(run) of an engine: the whole record, stamped alive.
Save(p) == file' = [mem'[p] EXCEPT !.fresh = TRUE]

\* Off this run: its lock is free, and what it held in memory is gone.
Leave(p, to) ==
  /\ Go(p, to)
  /\ lock' = IF lock = p THEN Nobody ELSE lock
  /\ mem' = [mem EXCEPT ![p] = NoRecord]
  /\ saw' = [saw EXCEPT ![p] = FALSE] /\ forced' = [forced EXCEPT ![p] = FALSE]

\* rayspec resume looks at the status before anything else.
Ask(p) ==
  /\ pc[p] = "idle"
  /\ \E force \in BOOLEAN : /\ file.status \in {"succeeded", "cancelled"} => force
                            /\ forced' = [forced EXCEPT ![p] = force]
  /\ Go(p, "asked")
  /\ UNCHANGED <<file, flag, lock, events, mem, saw, commandVars, followVars,
                 overridden, disowned, meant>>

TakeLock(p) ==
  /\ pc[p] = "asked"
  /\ IF lock = Nobody
       THEN lock' = p /\ Go(p, "locked") /\ UNCHANGED <<mem, saw, forced>>
       ELSE Leave(p, "idle")
  /\ UNCHANGED <<file, flag, events, commandVars, followVars, overridden, disowned, meant>>

\* _prepare_record: the record is loaded ...
Load(p) ==
  /\ pc[p] = "locked"
  /\ mem' = [mem EXCEPT ![p] = file]
  /\ Go(p, "loaded")
  /\ UNCHANGED <<file, flag, lock, events, forced, saw, commandVars, followVars,
                 overridden, disowned, meant>>

\* A live process is never resumed under, fresh or stale, but for --force.
Guarded(p) == mem[p].status = "running" /\ Alive(mem[p])

\* Mutant: the resume starts the record anew.
ResumedAnew(p) == [mem[p] EXCEPT !.status = "running", !.pid = p, !.fresh = TRUE, !.closing = 0,
                                 !.done = 0]

Resumed(p) == [mem[p] EXCEPT !.status = "running", !.pid = p, !.fresh = TRUE, !.closing = 0]

\* ... its process is looked for and the resume is refused: a live process, another workflow,
\* a missing secret ...
Refuse(p) ==
  /\ pc[p] = "loaded"
  /\ Leave(p, "idle")
  /\ UNCHANGED <<file, flag, events, commandVars, followVars, overridden, disowned, meant>>

\* Mutant: the process behind a running record is not looked for.
AcceptAnyway(p) ==
  /\ pc[p] = "loaded"
  /\ Go(p, "prepared")
  /\ mem' = [mem EXCEPT ![p] = Resumed(p)]
  /\ flag' = FALSE /\ meant' = {}
  /\ UNCHANGED <<file, lock, events, forced, saw, commandVars, followVars, overridden, disowned>>

\* Mutant: a stale cancel.json is not cleared.
AcceptKeepingFlag(p) ==
  /\ pc[p] = "loaded" /\ (Guarded(p) => forced[p])
  /\ Go(p, "prepared")
  /\ mem' = [mem EXCEPT ![p] = Resumed(p)]
  /\ overridden' = (overridden \/ Guarded(p))
  /\ UNCHANGED <<file, flag, lock, events, forced, saw, commandVars, followVars, disowned, meant>>

\* ... or the record becomes this engine's and a stale cancel.json goes.
Accept(p) ==
  /\ pc[p] = "loaded" /\ (Guarded(p) => forced[p])
  /\ Go(p, "prepared")
  /\ mem' = [mem EXCEPT ![p] = Resumed(p)]
  /\ overridden' = (overridden \/ Guarded(p))
  /\ flag' = FALSE /\ meant' = {}
  /\ UNCHANGED <<file, lock, events, forced, saw, commandVars, followVars, disowned>>

Start(p) ==
  /\ pc[p] = "prepared"
  /\ UNCHANGED mem /\ Save(p) /\ Go(p, "running")
  /\ forced' = [forced EXCEPT ![p] = FALSE]
  /\ UNCHANGED <<flag, lock, events, saw, commandVars, followVars, overridden, disowned, meant>>

\* The heartbeat, every ten seconds.
Beat(p) ==
  /\ pc[p] = "running"
  /\ UNCHANGED mem /\ Save(p)
  /\ UNCHANGED <<flag, lock, events, pc, forced, saw, commandVars, followVars,
                 overridden, disowned, meant>>

\* A step ends and its record is saved; nothing is started once a cancel was seen.
Work(p) ==
  /\ pc[p] = "running" /\ ~saw[p] /\ mem[p].done < MaxWork
  /\ mem' = [mem EXCEPT ![p].done = @ + 1]
  /\ Save(p)
  /\ UNCHANGED <<flag, lock, events, pc, forced, saw, commandVars, followVars,
                 overridden, disowned, meant>>

SeeCancel(p) ==
  /\ pc[p] = "running" /\ flag /\ ~saw[p]
  /\ saw' = [saw EXCEPT ![p] = TRUE]
  /\ UNCHANGED <<file, flag, lock, events, pc, mem, forced, commandVars, followVars,
                 overridden, disowned, meant>>

\* _finalize: the verdict, in memory; any of them but a pause clears pid and cancel.json.  A stop:
\* and a rejected gate may declare any verdict too, but none that a cancel seen would hide.
End(p) ==
  /\ pc[p] = "running"
  /\ \E v \in (Verdicts \ IF saw[p] THEN {"succeeded"} ELSE {}) \union {"paused"} :
       /\ mem' = [mem EXCEPT ![p].status = v, ![p].pid = IF v = "paused" THEN p ELSE Nobody]
       /\ flag' = (flag /\ v = "paused")
       /\ meant' = IF flag' THEN meant ELSE {}
  /\ saw' = [saw EXCEPT ![p] = FALSE]
  /\ Go(p, "ended")
  /\ UNCHANGED <<file, lock, events, forced, commandVars, followVars, overridden, disowned>>

Release(p) ==
  /\ pc[p] = "ended"
  /\ lock' = IF lock = p THEN Nobody ELSE lock
  /\ Go(p, "released")
  /\ UNCHANGED <<file, flag, events, mem, forced, saw, commandVars, followVars,
                 overridden, disowned, meant>>

\* Mutant: run.json turns terminal before run.finished is appended.
EmitLate(p) ==
  /\ pc[p] = "released" /\ events < MaxEvents
  /\ mem' = [mem EXCEPT ![p].closing = events + 1]
  /\ Save(p)
  /\ Go(p, "emitted")
  /\ UNCHANGED <<flag, lock, events, forced, saw, commandVars, followVars,
                 overridden, disowned, meant>>

\* run.finished is appended before run.json turns terminal.
Emit(p) ==
  /\ pc[p] = "released" /\ events < MaxEvents
  /\ events' = events + 1
  /\ mem' = [mem EXCEPT ![p].closing = events']
  /\ Go(p, "emitted")
  /\ UNCHANGED <<file, flag, lock, forced, saw, commandVars, followVars,
                 overridden, disowned, meant>>

\* The terminal save, after which the process exits.
SaveEnd(p) ==
  /\ pc[p] = "emitted"
  /\ file' = [mem[p] EXCEPT !.fresh = TRUE]
  /\ Leave(p, "gone")
  /\ UNCHANGED <<flag, events, commandVars, followVars, overridden, disowned, meant>>

\* SIGKILL, power loss or a write that fails: the kernel drops the lock.
Crash(p) ==
  /\ pc[p] \notin {"idle", "gone"}
  /\ Leave(p, "gone")
  /\ UNCHANGED <<file, flag, events, commandVars, followVars, overridden, disowned, meant>>

EngineStep(p) ==
  \/ Ask(p) \/ TakeLock(p) \/ Load(p) \/ Refuse(p) \/ Accept(p) \/ Start(p) \/ Beat(p)
  \/ Work(p) \/ SeeCancel(p) \/ End(p) \/ Release(p) \/ Emit(p) \/ SaveEnd(p)

------------------------------------------------------------------------------
(* Commands: each loads the record, and saves what it loaded *)

CommandGo(c, to, r) == cpc' = [cpc EXCEPT ![c] = to] /\ copy' = [copy EXCEPT ![c] = r]

CommandSaves(r) ==
  /\ file' = r
  /\ disowned' = (disowned \/ AtWork # {})

Corrected(r) == [r EXCEPT !.status = "interrupted", !.pid = Nobody, !.fresh = TRUE]

\* The loads after which a command writes: runs and show correct a record that is not alive;
\* cancel marks a dead or paused run and asks a live one to stop; cancel --mark does not look;
\* approve and reject answer a paused run.
CommandLoad(c) ==
  /\ cpc[c] = "idle"
  /\ \/ DeadLike(file) /\ CommandGo(c, "show", Corrected(file))
     \/ file.status = "running" /\ ~Alive(file) /\ CommandGo(c, "cancel", Corrected(file))
     \/ file.status = "running" /\ Alive(file) /\ CommandGo(c, "confirming", NoRecord)
     \/ file.status = "paused" /\ CommandGo(c, "mark", file)
     \/ file.status = "running" /\ CommandGo(c, "mark", file)
     \/ file.status = "paused" /\ CommandGo(c, "approve", file)
  /\ UNCHANGED <<file, flag, lock, events, engineVars, followVars, overridden, disowned, meant>>

\* reconcile_run saves what it corrected; cancel goes on to mark the run.
Reconcile(c) ==
  /\ cpc[c] \in {"show", "cancel"}
  /\ CommandSaves(copy[c])
  /\ IF cpc[c] = "show" THEN CommandGo(c, "idle", NoRecord) ELSE CommandGo(c, "mark", copy[c])
  /\ UNCHANGED <<flag, lock, events, engineVars, followVars, overridden, meant>>

\* The operator confirms the cancel of a live process, or does not.
WriteFlag(c) ==
  /\ cpc[c] = "confirming"
  /\ \/ flag' = TRUE /\ meant' = {p \in AtWork : pc[p] # "loaded"}
     \/ UNCHANGED <<flag, meant>>
  /\ CommandGo(c, "idle", NoRecord)
  /\ UNCHANGED <<file, lock, events, engineVars, followVars, overridden, disowned>>

\* mark_cancelled: run.finished first, then the record.
Mark(c) ==
  /\ cpc[c] = "mark" /\ events < MaxEvents
  /\ events' = events + 1
  /\ CommandGo(c, "marking", [Corrected(copy[c]) EXCEPT !.status = "cancelled",
                                                        !.closing = events'])
  /\ UNCHANGED <<file, flag, lock, engineVars, followVars, overridden, disowned, meant>>

\* The last save of cancel, and record_decision of approve and reject (the resume that follows
\* is an engine's).
CommandSave(c) ==
  /\ cpc[c] \in {"marking", "approve"}
  /\ CommandSaves(copy[c]) /\ CommandGo(c, "idle", NoRecord)
  /\ UNCHANGED <<flag, lock, events, engineVars, followVars, overridden, meant>>

CommandStep(c) ==
  CommandLoad(c) \/ Reconcile(c) \/ WriteFlag(c) \/ Mark(c) \/ CommandSave(c)

------------------------------------------------------------------------------
(* rayspec logs --follow (cli/commands/logs.py) *)

FollowGo(to, r) == fpc' = to /\ read' = r

FollowPoll ==
  /\ fpc = "poll"
  /\ seen' = events /\ FollowGo("check", NoRecord)
  /\ UNCHANGED <<file, flag, lock, events, engineVars, commandVars, overridden, disowned, meant>>

\* Mutant: a record that says running is believed.
FollowLoadTrusting ==
  /\ fpc = "check"
  /\ IF file.status = "running" THEN FollowGo("poll", NoRecord) ELSE FollowGo("drain", file)
  /\ UNCHANGED <<file, flag, lock, events, engineVars, commandVars, seen,
                 overridden, disowned, meant>>

\* _run_is_live ...
FollowLoad ==
  /\ fpc = "check"
  /\ CASE DeadLike(file)          -> FollowGo("correct", Corrected(file))
       [] file.status # "running" -> FollowGo("drain", file)
       [] OTHER                   -> FollowGo("poll", NoRecord)
  /\ UNCHANGED <<file, flag, lock, events, engineVars, commandVars, seen,
                 overridden, disowned, meant>>

\* ... saves the correction of a record that is not alive, so that the follower ends.
FollowCorrect ==
  /\ fpc = "correct"
  /\ CommandSaves(read) /\ FollowGo("drain", read)
  /\ UNCHANGED <<flag, lock, events, engineVars, commandVars, seen, overridden, meant>>

FollowDrain ==
  /\ fpc = "drain"
  /\ seen' = events /\ FollowGo("done", read)
  /\ UNCHANGED <<file, flag, lock, events, engineVars, commandVars, overridden, disowned, meant>>

Follow == FollowPoll \/ FollowLoad \/ FollowCorrect \/ FollowDrain

------------------------------------------------------------------------------

Next == \/ \E p \in Engine : EngineStep(p) \/ Crash(p)
        \/ \E c \in Command : CommandStep(c)
        \/ Follow \/ GoesStale

Spec == Init /\ [][Next]_vars

\* The follower polls, and a beat nobody gives goes stale.  Nothing is assumed of the engines:
\* any of them may hang or be killed anywhere.
FairSpec == Spec /\ WF_vars(Follow) /\ WF_vars(GoesStale)

------------------------------------------------------------------------------

\* Two engines write one record only if --force let one pass a live process, or a command saved
\* the record under the other after it had let go of the lock: the lock goes before the terminal
\* save, and a resume reads the status, looks for the process and saves in steps of their own.
OneWriter ==
  \A p, q \in Writers : p # q =>
    /\ overridden \/ disowned
    /\ {pc[p], pc[q]} \intersect {"released", "emitted"} # {}

\* No save of an engine takes back step records run.json holds, however the engine before it
\* ended or died, unless a command saved the record meanwhile or --force let two run.
EngineKeepsWork ==
  [][(\E p \in Engine : EngineStep(p)) /\ ~disowned /\ ~overridden
       => file'.done >= file.done]_vars

\* A cancel request stops the engines it was written under and no later one: a flag left by a run
\* that paused, was killed or was overtaken by another engine does not cancel the resume.
CancelIsForThisEngine == [][\A p \in Engine : SeeCancel(p) => p \in meant]_vars

\* When the follower stops it has printed the run.finished line of the ending it read in run.json.
FollowerSawTheEnd == fpc = "done" => seen >= read.closing

\* The follower of a run always ends, when its engine finishes, dies or hangs, unless engines
\* give a beat again and again.
FollowEnds == []<><<\E p \in Engine : Beat(p)>>_file \/ <>(fpc = "done")

==============================================================================
