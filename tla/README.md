# Formal models of rayspec

rayspec runs declarative workflows: a workflow is a list of steps with `needs:`, joins, conditions,
retries, approval gates, loops and sub-workflows; the engine executes the list as a DAG on one event
loop, persists every decision in a run directory, and can be interrupted, crashed, cancelled, paused
and resumed at any point. This directory holds TLA+ models of the parts of the engine where order,
failure and several processes meet, TLC configurations that check them on small instances, and
proofs checked by TLAPS for every value of the constants.

Paths below are relative to the Python package `src/src/rayspec`. `PROJECT.json` maps every
definition to the lines it stands for.

Checking it:

    tlc -workers 2 -config <run>.cfg <module>     # the pairs are in PROJECT.json, "runs"
    tlapm SchedulerProofs.tla                     # and the other *Proofs.tla

## 1. Inventory

### 1.1 Components

| Component | State it keeps | Operations | Talks to | What must be right |
|---|---|---|---|---|
| Join table (`engine/graph.py`) | none | `classify`, `join_decision` | scheduler | one verdict for every combination of needs |
| Scheduler (`engine/scheduler.py`, `retry.py`) | outcomes, pending, running, draining, paused, control; the outcome stream; the records in run.json | decide and launch, receive, teardown, collect, wind down; `run_one`, `run_leaf`, `try_reuse`, `finish` | context (save, breakers), executors, launch gate, cancel scope | launched only on its join; every step decided; strongest signal leaves; cleanup steps always run; write-ahead; it ends |
| Run lifecycle (`engine/runner.py`) | run status, resume count, cache of the previous records | `_prepare_record`, `_finalize`, crash, resume | scheduler, store, lock, CLI | no failure is laundered; success is complete; nothing that succeeded is lost or re-run |
| Run context (`engine/context.py`) | totals, `budget_exceeded`, `cancel_requested`, `paused`, envelope pause, policy floor | `persist`, `save_record`, `check_*` | scheduler, gates, limits | breakers are remembered; saves are whole |
| Runtime primitives (`engine/runtime.py`) | launch gate event, idle event, active leaves, limiter, approval lock | `leaf_permit`, `close_gate`, `open_gate`, `wait_quiesced`, `run_with_signals` | leaf executors, gates | gates close it one at a time, nobody is held for ever, the count is true |
| Approval gates (`engine/executors/approve.py`, `cli/commands/approve.py`) | `run.pause` (the one decision slot), attempts of each gate, the approval lock | stored decision, `--yes`, prompt, pause, record a decision, resume | runtime, run record, CLI | nobody passes unasked; a paused run can be answered |
| Workdir lock (`workspace/lock.py`) | the lock file: path, inode, flock, holder text | `acquire`, `release`, `remove_lock_file` | runs, `rayspec cancel`, `rayspec worktrees clean` | two runs never share a directory; the holder is named |
| Composites (`engine/executors/each.py`, `loop.py`, `include.py`, `stop.py`) | results and signals of item scopes | run a nested sibling list per item or iteration | scheduler (recursively) | a pause beats a stop; no failure vanishes in a teardown; a cancel is no failure; they end |
| Operator cancel (`engine/cancel.py`, `cli/commands/cancel.py`) | cancel.json | request, mark a dead run cancelled | context, store, lock | seen at every boundary; stops the engines it was meant for |
| Liveness (`engine/liveness.py`, `cli/_runs_common.py`) | heartbeat age, pid and its start time | assess, correct a dead run to interrupted | store | a live run keeps its record; a follower always ends |
| Run store (`store/file.py`) | run.json, step outputs, streams, events, artifacts | temp file, fsync, replace; append | everything | a record never refers to an output that is gone; an event never precedes its record |
| Redaction (`redact.py`, `store/redacting.py`) | the secret values, the held tail of each stream | rewrite text and values, cut a stream | store, events | no chunking of a text lets a value through |
| Spend ledger, envelope (`limits/ledger.py`, `envelope.py`) | one ledger file for all runs, waivers of this entry | flock, read, modify, replace; ceilings | context, gates | no lost update; nothing booked twice; a bounded overshoot |
| Run slots (`limits/slots.py`) | one flock file per provider and slot | take in sorted order, release | runner | no deadlock, never more than the limit |
| Workflow lock file (`limits/lockfile.py`) | committed hashes | compare | CLI | pure |
| Worktrees (`workspace/worktrees.py`, `cli/commands/worktrees.py`) | none of its own: the checkout, its entry and its branch are git's | create, list, clean, recreate | runs, resumes, lock, git, people | a clean loses no work |
| Sources, git (`workspace/repos.py`, `git.py`, `registry.py`, ...) | bare clones, registered projects | clone, fetch | | drives git |
| Leaf executors (`engine/executors/prompt.py`, `shell.py`, `python.py`) | one attempt | run, time out, be cancelled | scheduler | environment of the scheduler |
| Codex adapter (`providers/codex.py`) | pooled app-server clients, tokens, one cell per turn | start and stream a turn; interrupt, drain, poison, close | leaf executor, SDK, the loop's executor threads | no client leaks; no turn goes on unowned; an answer is kept; an aborted turn returns |
| Policy (`policy/*.py`, `limits/policy.py`, `engine/approval_classes.py`) | none after loading | load layers, merge them, collect controls, check blocks and agents, fold denials | loader, resume, limits, gates, adapters | a layer only restricts; a raw block widens nothing |
| Other providers, loader, schema and settings, templating, trust hashes, sinks, secrets, CLI presentation, workflow tests | various | parsing, rendering, I/O | | mostly pure or external |

### 1.2 How they interact

`Runner` loads or creates the record, takes the workdir lock, builds a `RunContext` and calls
`run_graph` on the root sibling list. `run_graph` is the *main task*: it decides steps, starts one
`run_one` task per launched step in an anyio task group, and receives their outcomes over a memory
stream. Composite executors call `run_graph` again for their bodies. Every decision is saved
(`ctx.save_record`) before it is sent. Leaves pass `Runtime.leaf_permit` (launch gate, limiter,
active count); an `approve:` step closes the launch gate, waits for running leaves, asks, and opens
it again. A gate nobody can answer records a pause in `run.pause` and unwinds the run; `rayspec
approve` writes the answer into run.json and a later process resumes. `rayspec cancel` writes
`cancel.json`, which running steps poll at their boundaries. Before any process runs a workflow,
`apply_policy` merges the policy files in force, refuses what they do not allow and folds their
denials into the agents; the slots, the spend envelope and the approval classes read the same
layers. Every spending run of a project commits to one ledger file, and every run on the host takes
its slots from one directory of flock files.

### 1.3 The hard behaviours

- Tasks unwinding from a cancellation, finishing normally and failing to save, all at once, while
  the main task tears the list down, collects and winds down what is pending.
- A stop, a pause and a rejection sent by different tasks, received in any order.
- Breakers (cap, cancel) tripping between a decision and the start of the work it decided.
- A crash between any two saves, followed by a resume with the old records as a cache.
- Two gates and a crowd of leaves around one launch gate built from two events and a counter.
- One decision slot, several gates, several processes, and answers for earlier attempts.
- A lock file whose name and whose inode part ways.
- Separate processes reading and writing one run.json without a lock: an engine, one that resumes
  it, a command that answers, cancels or corrects it, a follower that reads it.
- Nested lists cut in the middle by a signal of their own, of a sibling, or by a cancel.
- Runs that queue for several slots each, and runs that spend under one ceiling at once.
- A record, its output, its event and its stream as four writes, beside a heartbeat that writes too.
- Turns that share a client process and a pool of worker threads while servers hang and deadlines fire.
- Restrictions stated in half a dozen places, and a raw options block that could undo each of them.

`PROJECT.json`, "hazards", lists each at its line with the properties that would catch it, or the
reason none does yet.

## 2. Modules

| Module | Models | Extended or instantiated by |
|---|---|---|
| `JoinTable` | `classify`, `join_decision` (no variables) | `Scheduler`, `SiblingContract` |
| `Scheduler` | one call of `run_graph` with its tasks | `SchedulerContract`, `Run`, proofs |
| `SiblingContract` | abstract: one verdict per step, after its needs, on its join | `SchedulerContract` (INSTANCE) |
| `SchedulerContract` | the refinement mapping | `MCScheduler`, `SchedulerProofs` |
| `Run` | a run over its root list: verdict, crash, resume | `MCRun` |
| `Composites` | one `each:`, `loop:` or `include:`, its bodies and the run's verdict | `MCComposites`, `CompositesProofs` |
| `LaunchGate` | `Runtime` and the asking part of `run_approve` | `MCLaunchGate`, `CompositesProofs` |
| `Permits` | the limit on leaves the two above share | `Composites`, `LaunchGate` |
| `Gates` | all gates of a run and `run.pause` over many processes | `GovernedRun` |
| `WorkdirLock` | the lock file, one system call per action | `Worktrees`, `WorkdirLockProofs` |
| `Worktrees` | one worktree around its lock file: run, resumes, clean, git, people | `MCWorktrees`, `WorkdirLockProofs` |
| `RunLifecycle` | one run.json, the engines, commands and followers of it | `MCRunLifecycle`, `RunLifecycleProofs` |
| `StepStore` | what one step leaves on disk: record, output, stream, event | `MCStepStore`, `StepStoreProofs` |
| `RedactStream` | the redactor and its stream (no variables) | `StepStore` |
| `Runs` | the constant set of runs two components share | `RunSlots`, `SpendLedger` |
| `RunSlots` | one flock file per provider and slot, and the walk over them | `Limits` |
| `SpendLedger` | spend.json, its lock, the envelope of each run | `Limits` |
| `Limits` | the composition: a run takes slots, spends, gives them back | `MCLimits`, `LimitsProofs` |
| `PolicyLayers` | how policy files combine (no variables) | `PolicyLoad`, `ProviderOptions` |
| `PolicyLoad` | which files are layers, and in which order they are read | `MCPolicyLoad` |
| `ProviderOptions` | controls, checks, fold and adapters (no variables) | `GovernedRun` |
| `GovernedRun` | the composition: a run with gates under policy files | `MCGates`, `GatesProofs` |
| `CodexTurns` | the turns of one `CodexProvider` | `MCCodexTurns`, `CodexTurnsProofs` |
| `MC*` | model values, plans and small sets for TLC | |
| `*Proofs` | theorems | |

### 2.1 Scheduler

The event loop has one thread, so what a task does between two awaits is one action; every await at
which something else may run is a boundary between actions.

State and code:

- `phase[s]` is where step *s* is: `pending`; in a task (`launched`, `queued` for a permit, `asking`
  the breakers, `asked`, `attempt`, `failing` while the breakers are asked about a retry, `backoff`
  between retries, `ending` with an outcome in hand); `sent` on the stream; `settled` in
  `state.outcomes`.
- `rec` is run.json. `Save` writes *all* records, as the store does: an outcome whose own save
  failed reaches the disk with the next save of another step.
- `out` and `signal` are the `StepOutcome`; `stream` is the memory object stream.
- `draining`, `paused`, `control` are `run_graph`'s state; `budget`, `cancel` the remembered
  breakers; `flag` is cancel.json; `cancelReason` is `scope.cancel_reason`.
- `pc`, `wd`, `round` are the main task: `check`, `decide` (`decide_and_launch`), `receive`,
  `teardown` (the group is cancelled and its tasks unwind), `collect`, and the wind-down
  (`winddown`, `wd_decide`, `wd_run`).

The main task's actions are the branches of `decide_and_launch` (`DecideGated`, `DecideJoin`,
`DecideWhen`, `Launch`), the receive loop (`Receive`, which starts the teardown), `GroupDone`,
`Collect`, `Collected`, and `wind_down` (`WindDown...`). A task's actions are `Replay`, `Begin`, the
attempt loop of `run_leaf` (`LeafAsks`, `LeafAsked`, `LeafRefused`, `LeafAttempt`, `LeafUnpaid`,
`LeafSucceeds`, `LeafFails`, `LeafGivesUp`, `LeafBacksOff`, `LeafRetries`), what a gate, a stop or a
composite may do (`GateEnds`, `StopEnds`, `BodyAsks`, `CompositeEnds`), `Cancelled`, and `finish` with
its failure paths (`Finish`, `FinishFails`). `Abort` is a cancellation from outside; `RequestCancel` is
`rayspec cancel`.

A leaf asks in two parts, each with an await in it: `check_budget` (the envelope's thread), then
`check_cancelled` (the thread that looks for cancel.json). `asking` is from the first question to the
moment that thread looks, `asked` from there to the start of the attempt, and other tasks move in both. In
`asked` nothing is read again: a leaf whose question was under way when another one tripped the cap, or
saw the cancel, may still start (`MayStillStart`). `BreakerHolds` says that these are all: none joins
them after the trip, and each starts one attempt at most. The documentation says that nothing starts
(section 6).

`FinishFails` has both failures of `finish`: the record could not be persisted, or it was and only its
event could not be appended, so that run.json says one thing and the sent record another.

A cleanup step (`join: always`) passes the drain gate and the breakers of `run_leaf`, but not the first
lines of `run_prompt`: once the cap that tripped is the operator's (`ctx.envelope_pause`), no step opens
another agent turn, and a cleanup prompt is skipped as `budget_exceeded` (`LeafUnpaid`).
`plan.metered` are the prompts of a list whose cap is the operator's; a run trips one of the two
caps only, since `check_budget` answers from what it remembers.

Abstracted: what leaves do (success, transient or final failure, cancellation are choices); spend and
clock (a capped list may trip whenever the code asks); conditions (`when:` may be true, false or
broken); the fingerprint and output checks of `try_reuse`, which are folded into whether the cache
holds a qualifying record; the order in which one pass looks at ready steps (any order: the code uses
the declared one, so every behaviour of the code is included); anyio itself (a task group cancels its
tasks at their next await, and is left when they have ended).

### 2.2 SiblingContract and the refinement

The contract is what a workflow author may rely on, with no streams, drains or teardowns: a step gets
at most one verdict, only when all its needs have theirs, and it can have *run* only if the join table
accepts those verdicts (or an earlier run's record answers for it). `SchedulerContract` maps the
records of settled steps to verdicts; a pause is a verdict on which nothing may build.

### 2.3 Run

`Run` adds to `Scheduler` the process and the status in run.json: `Finalize` is the status ladder of
`_finalize` (`Verdict`) with its last save, `Crash` keeps only run.json and cancel.json, `Resume`
starts the graph over with the saved records as the cache. `Failures` is `run_failures` with its
exceptions for the collateral damage of a stop or a cancel. A gate deep inside a composite may have
recorded its pause while the composite was cut: `nested`. The pause of a spend envelope is in `Gates`.

### 2.4 LaunchGate

`leaf_permit` waits for the gate, then for a limiter slot, then counts itself active. Each await is
a boundary, and a task that was woken runs later than the one that woke it: a leaf may have `passed`
the gate, or be `slotted` (handed a slot but not yet resumed), while another task closes the gate.
`open_gate` and `close_gate` replace the event, so a leaf waits on the event it saw: `OpenGate`
releases all of the blocked ones. The limiter and the lock are anyio's (external), served first
come, first served. Its definitions carry the prefix `Launch` where `Composites`, next to which it is
proved about, has one of the same name: the two share the permits, and no more.

### 2.5 Gates

`run` is the `RunRecord` in memory, `file` is run.json; every save writes all of it. The gates run
`run_approve`: read the stored decision, consume it or start a new attempt, take the approval lock,
prompt or pause. The other steps of the run are `World`: they save, fail, spend what reaches a
ceiling, and the process is interrupted. `Start` is run and resume; `Answer` is approve or reject from
another terminal. `answered` is a history variable, read by one property and by no action.
The approval class that requires a terminal (`TtyOnly`) refuses `--yes` and a stored approval.

### 2.6 WorkdirLock and Worktrees

Processes are runs, cancels and cleans; `path` is the file the name stands for now, `fd` what a
process has open, `owner` the flock the kernel holds on a *file*, not on a name, and `content` the
text that names the holder. Any process may die before any system call; the kernel closes its files.

`Worktrees` puts that file into the life of the worktree it guards. `Create` is `create_worktree`, which
a run calls before it asks for the lock; `Resume` takes the recorded directory as it is, there or not
(`workspace_from_record`). `List` is `list_worktrees` with the filters of `clean_worktrees`; `RemoveTree`,
`DeleteBranch` and `DropLock` are the two git commands of `remove_worktree` and `remove_lock_file`, each
later than what it goes by, and `Skipped` a git command that fails. Edits, commits, merges, `git worktree
lock`, a deletion by hand and a recreation are steps of the run or of people, at any time, as git allows
them. `Lock` is an INSTANCE of `WorkdirLock` in which the git phases of a clean count as idling. Age,
`--dry-run` and the choice of a name that is free are left out: they only make `clean` do less.

### 2.7 RunLifecycle

Every process that touches one run id. An engine asks for the status, takes the workdir lock, loads
the record, is refused or accepts it (`_prepare_record`), saves it as running, beats and works, and
ends as `_finalize` does: verdict in memory and cancel.json cleared, lock released, `run.finished`
appended, run.json saved. Each is an action, because each is a file operation after an await, and no
lock covers a load and the save that follows. The commands are the windows of `show`, `runs`
(correct a record that is not alive), `cancel` (mark a dead or paused run, ask a live one) and
`approve` / `reject` (answer a paused one): load in one action, save in a later one. The follower is
`logs --follow`. Any engine may crash anywhere and any beat may go stale, also that of a suspended
process which later goes on.

`mem[p]` is an engine's `RunRecord`, `copy[c]` what a command loaded, `done` counts the step records
a copy holds, so that an older copy saved over a newer one is visible. History variables, which no
guard reads: `overridden` (a resume passed a live process, with `--force`), `disowned` (a command
saved the record while an engine had it in hand), `meant` (the engines the cancel request was
written under). Assumed: one host, and no pure dry run (it takes no workdir lock).

### 2.8 Limits: RunSlots and SpendLedger

`RunSlots` is `acquire_slots`: the capped providers in sorted order, for each the files 1 to limit
tried with a non-blocking flock, one file per action, then sleep and walk again, or give up. Every
run states its own limits, as each reads its own policy files. `SpendLedger` is the ledger and its
callers. A run does several things at once (`Job`): the runner asks before the graph and settles after
it, and each of up to `Tasks` steps asks before an attempt, after a failed one and when its record is
saved. `check_envelope` adds the total up on the event loop (`Turn`, into `amount`) and commits it in
a worker thread: `Lock` stamps the operation with the day and takes the flock with the read, `Write` is
the change with the replace, the unlock and the answer. Threads get the lock in any order, so an
older total may be committed after a newer one. The ledger books the difference. `Hidden` is what
`run_totals` does not see: while a step is tried again its record holds nothing of the attempts before.
A step may start unasked (`join: always`), and may be called off while its check is in its thread.
`Begin` consumes the decision on a ceiling pause and waives the one control that tripped. `Limits`
runs slots and ledger together: `Queue` before and after the block only moves slots, `Execute` inside
it only the ledger, `Crash` both.

`OvershootIsBounded` says by how much a daily ceiling is passed: by the leaves that were under way, as many
as the slots and `max_parallel` let run, and by what killed runs had spent and not booked. The code
promises no more than that, and there are four things its checks do not see, none of which the code
bounds: a total that lands late takes newer spend back out of the ledger until the next commit; earlier
attempts are hidden while a step is tried again; a cleanup step starts without asking; and a check made
before midnight lets a leaf start after it. The model adds up exactly these, where they arise (`Blind`,
`Unseen`), in `extra`, and the bound has that sum on top. A leaf that starts on a check that
saw everything adds nothing to it. A ceiling of zero is never passed, whatever lands late.

The bound is about runs that share a provider, since runs of different providers have no
limit on how many of them there are: a policy caps runs by provider, not by project.
`spent`, `committed`, `excused`, `asked`, `extra` and `deaths` are history. Left out: the month bucket (it
follows the rule of the day), pruning (runs are resumed within `RETAIN_DAYS`), a ledger that cannot be
written, runs of other projects.

### 2.9 Composites

A composite in the root list, with `N` bodies that each run a chain of `Len` steps: `run_graph` over
a chain, so that the DAG is left to `Scheduler` and what is new is the nesting: the leaf permits all
bodies share, the cancellation of sibling items by the first signal, the tear by a sibling of the
composite, and three accounts of failure (`failed_body_step`, the composite's own record,
`run_failures`). `Cut` records the step in flight with the reason of *its own* scope. A leaf asks the
breaker in one action (`AskLeaf`) and starts in a later one (`StartLeaf`). The retries of a leaf, a
composite inside a body, and the items' values are left out.

### 2.10 StepStore and RedactStream

One leaf step over several processes. `mem` is the record in `run.steps`, one object the executor
changes in place, and which any other save may serialise at any moment: `Beat` takes the payload
under `ctx.lock`, `BeatSaves` replaces run.json later. The step's own writes are the output file
(`Unlink`, `WriteOutput`), the record (`SaveOutcome`) and the event (`Announce`, which flushes the
stream). The join table may skip the step instead (`Skip`). A save may fail, the process may die between
any two, and a resume may meet an edited step or one that is to run again (`rerun`: `always_run`,
`--rerun`, a changed item). An output is named by the execution that wrote it, a hash by the execution
that was hashed.

An error after the verdict marks the record failed where it stands, in `run.steps`, although run.json
may already call it succeeded (`run_one`'s last `except`): of a replay that could not be saved, where the
record is the cached object itself (`Replay`), and of a log that could not be appended to (`AnnounceFails`).
Any later save of the run then stores that. `demoted` is the history of it; `EventAfterRecord` and
`NotExecutedTwice` name it as the one way an announced success is taken back.

`RedactStream` computes on sequences of characters, because that is what its property is about:
literals longest first (`Redact` is a fold that leaves the shortest for last; secrets of one length
come in any order, as they do in a sort by length), the held tail, the cut moved back until it breaks
no match. `Mark` is the marker, one character that no secret contains (`NeedlesAssumption`). Shape
detectors, JSON values and encodings are left out.

### 2.11 CodexTurns

One `CodexProvider` with one environment signature, so one pooled client at a time. A turn is
`run()` (`pc`), its shielded driver (`drv`), and the turn on the server (`srv`). Every blocking SDK
call pins a worker of the loop's executor: a driver for its whole life, `interrupt()` and `close()`
for the moment they take. `Poison` is the compare-and-remove from the pool with the close that
follows once. Of the SDK and the server it is assumed that `interrupt()` and `close()` return, that
closing a client wakes all its calls, that calls on a closed client raise, and that what breaks a
stream is a transport error; nothing makes a server start, finish or break a turn. Calls are
interchangeable, so names are handed out in order and the liveness property asks for one of them.
What the model bounds with `drain_s` and the deadline are choices: each may fire at any moment.

### 2.12 Policy

`PolicyLayers` combines what the layers say, key by key; `PolicyLoad` reads the candidate files one
after another; `ProviderOptions` is what `apply_policy` asks of each agent: the controls of every
source, the check of a raw `provider_options` block, of the agent and of its workflow, the fold of
denials, and the MCP servers each adapter then hands to its SDK, with or without the block. They
have no interleaving: `GovernedRun` puts them next to `Gates`, because `apply_policy` runs before every
process of a run, and `MCGates` takes `TtyOnly` of `Gates` from the approval classes. The names of
keys, files and lines, and warnings, are left out.

## 3. Runs

| Run | Instance | Shows |
|---|---|---|
| `Scheduler` (670 K states) | lists of three steps: fan-out, fan-in and triangle under the joins with a condition and a tolerated failure, chains with the other kinds; gates, stops and composites beside and below each other; a cap, a cancel and an interruption; two attempts per leaf; a cache that may hold a success | `EveryStepDecided`: no list ends with a step undecided, which the "unreachable" exit of the wind-down relies on; `SignalBubbles`: the strongest signal sent leaves the list; `CleanupIsNeverSkipped`; `ReasonsAreTrue`: a reason in a record names something that happened, to another step; `WriteAhead`: no step but a cleanup step runs on an outcome run.json does not hold; `BreakerHolds`: after a trip nothing but cleanup is launched, and only a leaf whose own question was under way may still start, once; `ImplementsContract`: refinement of `SiblingContract`; `Terminates` |
| `Run` (2.5 M) | three root steps, one resume; a stop or a gate beside failing leaves with a cap or a cancel; resumes of a list with a leaf or a gate, re-run or not, and a condition that a resume asks again; a crash anywhere | `VerdictIsTrue`: a run that ends succeeded or cancelled hides no failure and no tripped cap (`FailureNotLaundered`), and one that succeeded decided every step itself and swallowed no cancel (`SuccessIsComplete`); `SuccessLostOnlyToFailure`: a recorded success is replaced only by a skip a failure or a stop decided, by what the step's own `when:` answers now, or by a record that could not be saved |
| `LaunchGate` | 3 leaves, 2 slots, 2 gates, cancellation anywhere | `ClosedForOne`: the gate is closed exactly while one gate, the lock holder, needs it; `LeafIsLetGo`, `GateIsAsked`: nobody starves |
| `Worktrees` (198 K, symmetry of the two processes) | 2 processes of one run, 1 cancel, 1 clean, 2 files, 1 commit | `SharedOnlyIfRemade`: two runs share the directory only if its lock file was unlinked and made anew; `WorkIsKept`: a clean without `--force` deletes no uncommitted change, and unmerged commits only if they came after its listing or the checkout was gone |
| `Gates` (3.3 M) | 2 gates, one held to a terminal by its class, 2 attempts each, any number of processes, crashes and answers; 9 policy files and 58 agents | `NoGateOpensUnanswered`: a gate run.json says succeeded was answered at that very attempt; `PausedRunIsAnswerable`; `NothingWidened`: an accepted `provider_options` block brings no server, no definition of one and no unreviewed setting into a run that any control governs; `RestrictionsOnlyAdd`: with one more policy file less is accepted, reached and approved |
| `RunLifecycle` (1.2 M) | the engine that created the run, one more, one command at a time, a follower; one step record, one `run.finished` line | `OneWriter`: two engines write one record only after `--force`, or after a command saved it under one of them, and only once one of them has let go of the lock; `EngineKeepsWork`: no engine takes back saved step records; `CancelIsForThisEngine`: a left-over request never cancels a resume; `FollowerSawTheEnd`; `FollowEnds` |
| `Limits` (1.1 M) | 3 runs that queue for 2 providers with up to 2 slots, waiting for ever, until a deadline or not at all; 2 runs that spend under run, daily and streak ceilings, together or one after the other, over 2 days, one of them resumed; 1 run with 2 steps at once, 4 attempts on one day or 3 on two, with totals that land late, hidden attempts and unasked starts | `NobodyWaitsInARing`; `OvershootIsBounded`: a day is above its ceiling by at most what its slots let run at once, what killed runs had spent, and what the checks could not see; `CommitsLand`: the ledger holds what each run committed last; `NothingBookedTwice`: a run is never booked for more than it spent, and the days add up to the runs |
| `Composites` (510 K) | up to 3 items or iterations of 3 steps, the last a cleanup; leaves, stops and gates; one leaf permit; `max_parallel` none or 2; lenient or strict; a sibling that stops, pauses or fails; a cap, a cancel | `FailureNeverVanishes`: a run over a failed body step ends succeeded, cancelled or as a stop declared only if `on_failure: continue` answered for it; `StrongestSignal`; `CancelFailsOnlyOnReading`: a cancel makes a run failed only through an expression that reads a step it skipped; `Terminates` |
| `CompositesTorn` | the same | violated: section 6 |
| `StepStore` (2.1 M) | 3 processes, two kinds of output, one edit, replays, re-runs, skips, 4 characters cut into deltas of 1 or 2, two secrets that overlap themselves and each other | `RefIsGood`: a record in run.json that names an output names the file its own execution wrote; `EventAfterRecord`: once the log calls the last record succeeded, run.json holds it and its output is there, and calls it succeeded unless an error after the verdict marked it; `NotExecutedTwice`: an announced success runs again only after an edit, on demand, or after such a mark; `StreamIsRedacted`: the stream is the redaction of the whole text, wherever it was cut |
| `CodexTurns` (576 K) | 3 calls, 3 workers of which 1 is spare, 3 client processes | `NoClientLeaks`: a process that is up and not being closed is the pooled one; `NoOrphanTurn`: a call that is over leaves no turn running; `AnswerIsKept`: a completed turn is graded a success, though the deadline fired or another turn closed the client; `AbortedTurnReturns` |
| `PolicyLoad` | 3 paths, two of which may be one file, 4 layers of limits | violated: section 6 |

### Bounds

- *Three steps* (`Step`): the smallest list with a need, a dependent and a bystander, where a chain, a
  fan-out, a fan-in and a step that is only reached in the wind-down all occur. The theorems about
  `Scheduler` hold for any set of steps.
- `MaxAttempts` of `Scheduler` is the `retry.attempts` of a leaf: 2, so that a breaker may trip
  between attempts; 1 in `Run`, where attempts only multiply states.
- `MaxResumes` = 1: a resume reads only run.json and cancel.json, and the second process starts from
  all that a first one can leave.
- `Caches`: `Recorded` adds a success of the middle step; caches real runs reach are in `Run`.
- `MaxAttempts` of `Gates` = 2: an answer for one attempt meets the next one. The guard stops a gate
  that would ask a third time.
- `MaxFiles` = 2: the file of an orphaned holder and the one made anew after it; `Open` is disabled
  there. `MaxCommits` = 1: a commit before the listing, between it and the removal, or never. The
  theorems hold for every value of both. The two processes are interchangeable in every definition and
  the run checks no liveness, so their symmetry is sound.
- `MaxWork` = `MaxEvents` = 1 in `RunLifecycle`: one saved record is enough for an older copy to lose
  it, and the properties about the log compare one closing line with the record that names it. `Work`
  and the two appends are disabled at the bound. The theorems need no bound.
- `Limits`: two providers and three runs make the smallest ring with a bystander. Two runs race past
  one ceiling; `days` = 2 puts a midnight between a check, a start and a commit; `entries` gives one run
  a resume. Two `steps` with a permit each are enough for a total that lands late, and two attempts of
  one step beside another step for a hidden one. `most` bounds what a run spends, `MaxCost` what one
  attempt does. `parallel` is no bound but max_parallel. Slots, ceilings and steps are not crossed:
  policies come in pairs of demands and envelopes (`Policies`), because a run that queues for two
  providers and one that spends do not interact beyond the composition the refinement theorems are
  about, and two runs of two steps each are beyond a run of this size. The theorems hold for any number
  of each at once.
- `N` = `Len` = 3 in `Composites`: a step before, one in flight, a cleanup after; one item that raised,
  one that is cut, one still queued. `MaxParallel` = 1 makes items wait for each other's permits.
- `MaxText` = 4 in `StepStore`: both secrets fit, overlapping, with a cut at every place, and the
  two-character delta may end in the middle of either. `MaxRuns` = 3: an edit, and its undoing.
- `CodexTurns`: with one spare worker, two calls hold tokens and pin workers, the third waits; three
  clients are a pooled one and two poisoned ones being closed. A closed client nobody refers to is
  unused again, so clients are never exhausted.
- *Deadlock* is checked where a finished system stutters explicitly (`Scheduler`, `Run`, `Composites`)
  and where it never ends (`LaunchGate`, `CodexTurns`). It is off where every process may be dead or
  finished: `Worktrees`, `Gates`, `RunLifecycle`, `Limits`, `StepStore`, `PolicyLoad`.

### Fairness

- `Scheduler`: weak fairness of the main task and of every step's task. The event loop runs each ready
  task, and an executor ends: leaves end by their timeouts or when their process ends, prompts when
  the operator answers. A workflow with `timeout: null` and a process that never ends does hang, so
  `Terminates` is relative to that. Cancellations, aborts and cancel requests are never forced.
- `LaunchGate`: weak fairness of what a ready task does next, and strong fairness of taking the lock
  and of entering from the queue, because anyio's lock and limiter serve waiters in order: one that
  waits cannot be overtaken for ever. No leaf and no gate is forced to ask, and none is forced to be
  cancelled.
- `Composites`: weak fairness of the composite's executor, of each body and of the last verdict, for
  the same reasons; tears and cancels are never forced.
- `RunLifecycle`: weak fairness of the follower, which polls, and of a beat going stale. Nothing is
  assumed of engines, which may hang: `FollowEnds` holds all the same, because an engine that hangs
  stops beating and the follower then corrects the record.
- `CodexTurns`: weak fairness of what does not wait for the server: the call's own steps, the end of
  a stream whose turn is over, and the failure of an opening on a client that is no longer up.

## 4. Proofs

The theorems need only the named assumptions on constants in the modules. For `Scheduler` these are the
types of plans, caches and the retry bound, and two that the code establishes before the engine runs:
`DagAssumption`, since the loader refuses a dependency cycle (`loader/validate.py:382`) - it says that
any steps have one among them that needs none of them, which for a finite list is the absence of a
cycle - and `ReasonsAssumption`, since `skip_reason` is only ever set next to the status it explains
(`engine/scheduler.py:582-606`), so that a record that succeeded or failed carries none.

| Theorem | Module | Inductive invariant, and why it is needed |
|---|---|---|
| `TypeCorrect` | `SchedulerProofs` | `TypeInv`: types, and a step backing off still has an attempt left. |
| `LaunchIsJustified` (`LaunchedOnJoin`) | `SchedulerProofs` | `JoinInv == TypeInv /\ StreamInv /\ RoundInv /\ LaunchedOnJoin`. `LaunchedOnJoin` alone is not inductive: settling a step from the stream twice would change the records a launched step was judged on, so `StreamInv` says that the stream holds every sent step once and no other, and the wind-down launches from a `round` computed earlier, so `RoundInv` says that it still holds only ready steps. |
| `CleanupRuns` (`CleanupIsNeverSkipped`) | `SchedulerProofs` | `CleanupInv`: a cleanup step that holds a skip holds it for its own `when:` or for the operator's ceiling; the skip of a step that is still ending or sent has to be judged before it can settle. |
| `VerdictStands` (`VerdictIsFinal`) | `SchedulerProofs` | case analysis by the shape of a step: what the main task and a task may change. |
| `OutcomesAreSavedFirst` (`WriteAhead`) | `SchedulerProofs` | `SaveInv`: while steps other than cleanup steps may still be launched, the process is not aborted and the record of a sent or settled step differs from run.json only where a failed save made it an untolerated failure, which no join but `always` accepts. With `JoinInv`, a launched step has no such need. |
| `BreakersStopNewWork` (`BreakerHolds`) | `SchedulerProofs` | an action property from the guards of every action that moves a step: `LeafAsks` needs an untripped cap, `LeafAsked` and `LeafBacksOff` an unseen cancel, and the one start that reads nothing again leaves the places from which it may happen. |
| `ListInvariant` | `SchedulerProofs` | `ListInv`, the invariant of the next three. `OutcomeInv`: what a step may hold in each phase (a signal only together with the outcome that raised it). `SentInv`: a sent outcome is still in the stream, the converse of `StreamInv`, without which an outcome could get lost. `ControlInv`: `draining`, `paused` and `control` are what the settled steps said, no more and no less. `WhyInv`: `cancel_reason` is true of the list. `ReasonInv`: the reason on any record in hand is true, so that it is when the record settles. `PlaceInv`: what is known at each place of the main task, such as that `receive` has nothing ready and that a torn group is only left with nobody active. |
| `ListsAreDecided` (`EveryStepDecided`) | `SchedulerProofs` | by `PlaceInv` nothing is ready and nothing is active or sent where a list returns; were steps left pending, by `DagAssumption` one of them would need none of the others, so all its needs would be settled and it would be ready. No induction over the DAG is needed. |
| `StrongestSignalLeaves` (`SignalBubbles`) | `SchedulerProofs` | `ControlInv` at a place where every step that has a signal is settled. |
| `RecordsTellTheTruth` (`ReasonsAreTrue`) | `SchedulerProofs` | `ReasonInv`, and that what was true of a reason stays true: signals, settled records, breakers and `aborted` only grow. |
| `RunInvariant` | `SchedulerProofs` | `RunInv`: `ListInv` at every state of the run, and `StoredInv`: the record of a step whose executor was not called is the one the process began with, that of a step at work is running, and that of a step that told its outcome is this outcome, unless its save failed. A resume starts from `Fresh` with run.json as its cache, so `StoredInv` must also keep `CacheInv` of the next process: what succeeded or failed carries no reason. |
| `VerdictsAreTrue` (`VerdictIsTrue`) | `SchedulerProofs` | `RunInv`; `LadderIsStrict`: the rungs that end succeeded or cancelled are reached only past all the others, and `NothingIsLeft`, the state lemma behind `ListsAreDecided`: a list that nobody paused or aborted has settled every step. |
| `RunsKeepSuccess` (`SuccessLostOnlyToFailure`) | `SchedulerProofs` | `RunInv`: until it tells, a step that succeeded still has the record of the cache, which it replays unchanged. |
| `RunGraphImplementsContract` (`ImplementsContract`) | `SchedulerProofs` | `JoinInv`; every action settles at most one step, and its record's class is one the contract can give; all others stutter. |
| `GatesAreSound` | `GatesProofs` | `GatesInv`. `Honest(r)` of the record in memory and of run.json: a gate that succeeded, and an approval in the decision slot, were answered at that attempt. `WorkInv`: a gate at work has an open record, and the answer it has read is one to the attempt it is at. `PauseInv`: the slot stays with the gate that paused first. `LiveInv`: no record says paused while a process runs, so that answers and gates never write one slot at once. |
| `OptionsNeverWiden` (`NothingWidened`) | `GatesProofs` | true of any constants, so no invariant: by adapter. Once any control is in force a block only has allow-listed keys, and a server of it is one that some control *defines* and none refuses; only the agent's own `mcp:` defines any, so the block's entry is one the agent has, and the adapters prefer the agent's. |
| `LayersNeverLoosen` (`RestrictionsOnlyAdd`) | `GatesProofs` | each part of `Accepted` in turn is monotone in the set of files. The hard one is the block: a server that nobody names is refused, so a file that names it could lift the refusal. It does not, because such a server is not *defined* by anybody either; of one the agent's own `mcp:` defines, every refusal stays (`Said` only grows, `Named` then only shrinks). |
| `GatesAskFirst` (`NoGateOpensUnanswered`), `PausesAreAnswerable` (`PausedRunIsAnswerable`) | `GatesProofs` | conjuncts of `GatesInv`; the hard case of both is the one slot that several gates, an earlier process and an answering command write. |
| `RecordsAreSound` | `StepStoreProofs` | `StoreInv`. `Good` of the record in memory *and* on disk, because any other save writes the first over the second; `BeatInv`: the payload a heartbeat serialised earlier still is the record of memory, up to a verdict without output, when it replaces run.json; `PhaseInv`: from the start of a step to its output no record names an output, and which one from then on; `AnnouncedInv`: an announced success is the last record of memory and disk, with its output, and each of the two calls it succeeded or is one that an error after the verdict demoted. |
| `RefsAreGood` (`RefIsGood`), `EventsFollowRecords` (`EventAfterRecord`), `SuccessIsReplayed` (`NotExecutedTwice`) | `StepStoreProofs` | `StoreInv`; the last as an action property from it. |
| `StreamsAreRedacted` (`StreamIsRedacted`) | `StepStoreProofs` | `TextInv`: the stream with the redaction of the held tail is the redaction of what was produced, and the tail is empty from the announcement on. What it rests on is `RedactSplits`: redacting two texts and joining them is redacting the joined text, if the border between them cuts no needle. `FeedIsSound` says that the border `feed` draws is such a border and stays one: `KeepMatchesWhole` moves it until it is inside no complete match (`Parted`), and what is kept is long enough for every needle that has begun, so that no later text can complete one across it (`Settled`, kept by `SettledStays`). A replacement puts markers where a needle was and so makes no new needle at the border (`ApartStays`), which carries the split from one needle of the fold to the next. The recursive functions (`Replace`, `KeepMatchesWhole`) and the fold are handled by the smallest or the last place that would refute the claim (`LeastOf`, `LastOf`, `SmallestOf`), with no operator as a parameter. |
| `PoolIsKept` | `CodexTurnsProofs` | `CodexInv`. `CallInv` and `TurnInv`: which client, driver and server turn belong to a call at each of its places. `ClosingInv`: a poisoned client that is not closed is about to be, by the call that poisoned it. That a call which may enter finds an unused client is a count: calls in flight hold tokens, tokens are fewer than workers, and each client in use is pooled or held by a call. |
| `ClientsAreClosed` (`NoClientLeaks`), `TurnsEndWithTheirRun` (`NoOrphanTurn`), `AnswersAreKept` (`AnswerIsKept`) | `CodexTurnsProofs` | `CodexInv`. |
| `CompositesAreSound` | `CompositesProofs` | `CompositesInv`. `BodyInv`: a body that returned has decided every step, and a step is interrupted only in a body that was cut, for the reason of its scope. `OrderInv`: a later iteration starts only after the one before it returned without a failure. `SignalInv`: `control` is the strongest signal among the bodies that raised one. `EndInv`: each way a composite ends, with what that says of its bodies and of the breakers. `VerdictInv`: the same of the run. |
| `FailuresReachTheVerdict` (`FailureNeverVanishes`), `SignalsKeepRank` (`StrongestSignal`), `CancelsEndCancelled` (`CancelFailsOnlyOnReading`) | `CompositesProofs` | `CompositesInv`; the first and the last by the way the composite ended. |
| `BodiesShareThePermits` (`LeavesWithinLimit`) | `CompositesProofs` | the bodies' running leaves as one set of pairs; only `AskLeaf` adds one to it. |
| `SlotsAreLimited` (`SlotsWithinLimit`) | `CompositesProofs` | of `LaunchGate`: what `Composites` takes for granted of a permit, that a slot is only handed out while one is free, and that a leaf handed one keeps it until it leaves. |
| `GateClosedForOne` (`ClosedForOne`) | `CompositesProofs` | `LockInv`: every gate past the lock is its holder. |
| `LeavesAreCounted` (`CountIsTrue`) | `CompositesProofs` | `CountInv`; cardinalities of finite sets. |
| `LockNamesItsHolder` (`HolderIsNamed`) | `WorkdirLockProofs` | `FileInv`: what each process knows of the file it has open. |
| `SharedMeansRemade` (`SharedOnlyIfRemade`) | `WorkdirLockProofs` | `FileInv /\ MadeInv`: descriptors are of files the path has named. |
| `ExclusionWithoutUnlink` | `WorkdirLockProofs` | with `Cleaner = {}`: `OneFile`, the path never changes once made. |
| `WorktreeShared` (`SharedOnlyIfRemade`) | `WorkdirLockProofs` | the same invariants; `WtStep`: a step around the worktree is a step of the lock, or leaves the lock file alone and no process past its opening. |
| `CleanKeepsWork` (`WorkIsKept`) | `WorkdirLockProofs` | `CleanInv`: until it has acted, an unforced clean goes by a checkout that was gone or by commits that are merged; the merge target never loses a commit. Git's own second look at the checkout does the rest. |
| `WorktreesImplementLock` | `WorkdirLockProofs` | `GoMaps`, `LockStepMaps`, `GitMaps`: a lock step maps to itself, a run with its new worktree and a clean at the lock file to `Start`, everything else to a stutter. |
| `OneEngineWrites` (`OneWriter`) | `RunLifecycleProofs` | `EngineInv == TypeOK /\ LockInv /\ AloneInv`. `LockInv`: an engine between its lock and its release is the holder. `AloneInv`: as long as no command saved under an engine and nobody was forced past one, a second engine that has loaded the record met it after the first one's save, and would have seen its process. |
| `EnginesKeepWork` (`EngineKeepsWork`) | `RunLifecycleProofs` | `EngineInv`, whose `AloneInv` also says that an engine at work holds exactly the step records of run.json. |
| `CancelHitsItsEngine` (`CancelIsForThisEngine`) | `RunLifecycleProofs` | `CancelInv`: while cancel.json exists, every engine that may look at it was there when it was written, since a resume clears it before it becomes one that looks. |
| `FollowersSeeTheEnd` (`FollowerSawTheEnd`) | `RunLifecycleProofs` | `ClosingInv`: no copy of the record, on disk or in memory, names a line that is not in the log yet. |
| `CommitsAreNeverLost` (`CommitsLand`) | `LimitsProofs` | `LedgerInv`, of the ledger alone: types of the book, and whoever has read the document holds the lock, and what it read is still the document; with `AskedInv`, a total never exceeds what the run knew when it was added up. |
| `NothingIsBookedTwice` (`NothingBookedTwice`) | `LimitsProofs` | `SpentInv`: totals in memory and in run.json never exceed what was really spent. `Balanced`: the two sums are equal, which a commit keeps because it adds the same difference to one day and to one run (`SumChange`). The sums are folds over finite sets of any size; what they do is proved by the smallest set that would refute it (`SmallestSet`, by cardinality), which needs no operator as a parameter. |
| `LimitsImplementSlots`, `LimitsImplementLedger` | `LimitsProofs` | every step of the composition is a step of the one component and a step or a stutter of the other. |
| `RunsHoldTheirSlots`, `CapacityIsKept` | `LimitsProofs` | `HoldInv`: the slots a walking run holds are those of the providers below the one it is at; pigeonhole on the slots of one provider by cardinality of finite sets. |
| `NoRingOfRuns` (`NobodyWaitsInARing`) | `LimitsProofs` | in any set of runs, the one that waits for the highest provider waits for somebody that holds a slot of it, who by `HoldInv` is past it. |
| `CommitsSurvive` (`CommitsLand`, `NothingBookedTwice`) | `LimitsProofs` | the two through `LimitsImplementLedger`. |
| `OvershootStaysBounded` (`OvershootIsBounded`) | `LimitsProofs` | `MoneyInv`. The bound itself is not inductive: what is booked today was spent earlier, by leaves that started on checks before. `CeilingHolds` therefore counts, with a day past its ceiling, what every run may still book on it (`Reserve`: what it has spent and not booked, and one `MaxCost` for each leaf under way): day and reserves stay within ceiling, slack and `extra`. `MoneyOk` bounds the reserve of one run by `Parallel` leaves and its own `extra`. With several checks at once a check that lets a leaf start may be older than others, so `LaunchOk` says for each step that asks what starting now would lead to: those that asked no later than it may have spent (`Ahead`), those that asked later see more. A commit moves a reserve into the day, and what it takes back out goes into `extra` (`CommitOwes`); a start moves a step from asking to spending (`StartOwes`); `QuietKeeps` and `StepKeeps` carry the sum over all runs through a step of one, by `SumAdds` and `SumShares` over runs of any number. When a day first passes the ceiling, only runs inside a slot or killed have a reserve (`ReservesFit`), and `HoldInv` and `DeathsCounted` count those. |

`TypeCorrect` of `RunLifecycle` and `LaunchIsTyped` of `LaunchGate` are proved as well. The type
invariants of the other modules document them and are used inside their proofs. TLC checked each
inductive invariant on the runs' instances before it was proved. The invariants of the scheduler
also showed a gap: `CleanupIsNeverSkipped` had been proved of a model without the operator's
ceiling, and now says what the code does (`LeafUnpaid`, section 2.1). So did those of `Run`: the
proof of `SuccessLostOnlyToFailure` failed at `DecideWhen`, since the instances had no condition on
a step that is resumed; the property now allows what the code does there (section 6, the end).

## 5. Only model-checked

- `Terminates` (both), `LeafIsLetGo`, `GateIsAsked`, `FollowEnds`, `AbortedTurnReturns`: liveness
  under fairness and ENABLED are outside the prover's reach.

No module declares a RECURSIVE operator, so that all of them can be proved about.

## 6. Where code and documentation disagree

Two are shown by a run whose property states what the documentation says, and which TLC violates.

- **A stop that tears a composite down ends failed** (`CompositesTorn`):
  `tests/engine/test_stop_collateral.py:2` says a `stop:` that cancels a running sibling keeps its
  declared status. When the sibling is a composite, the body step in flight is recorded with the
  reason of the body's own scope, which nobody set, and the verdict counts it as a failure.
- **A policy file loosens another one** (`PolicyLoad`): `docs/policy.md:64-66` says no layer can. With
  `max_concurrent_runs: 1` in one file and `{claude: 2}` in another, claude may run twice: limits are
  merged under each name and looked up afterwards (`limits/policy.py:135`), and `layers.py:409-411`
  describes this very case as prevented.

The others were met while modelling. The models follow the code, and have no run of their own for
them.

- *A leaf starts after the breaker tripped.* `docs/runs-and-resume.md:785-788` says no new step starts
  anywhere, and that a queued leaf is re-checked when it gets its slot. It is, but the check awaits a
  thread after it has read the budget (`engine/context.py:849`), and the attempt starts without reading
  it again (`engine/scheduler.py:457`). `BreakerHolds` allows just these (`MayStillStart`).
- *A check sees the day without what its own run has spent.* `limits/envelope.py:174-175` says the
  ledger must include this run's spend before the day total is read. Steps of one run add its total up
  on the loop and commit it from threads (`engine/context.py:995-997`), so an older total may replace a
  newer one. The lock around the read-modify-write (`docs/runs-and-resume.md:860-862`) does not order
  them. `OvershootIsBounded` counts what is taken back that way (`extra`).
- *A gate asks while a leaf starts.* `docs/runs-and-resume.md:587-588` says no new leaf starts and
  every running one has finished. A leaf that passed the launch gate before it closed and is on its
  way to a slot is not counted yet (`engine/runtime.py:170`; `LaunchGate` reaches it).
- *The lock file is unlinked.* `workspace/lock.py:2,7` says never; `remove_lock_file` (`:98`) does.
  `SharedOnlyIfRemade` shows that this is the only way two runs share a directory.
- *`worktrees clean` takes the worktree of a live or paused run* that has not committed yet: it is
  merged and clean, and `clean` asks the lock only before it unlinks the lock file
  (`workspace/worktrees.py:344-375`; `docs/dogfooding.md:121` says it removes the finished ones). The run
  goes on, or is resumed, in a directory that is gone; `recreate_worktree` exists but nobody calls it
  (`docs/runs-and-resume.md:483-485` calls that the roadmap).
- *A worktree that was deleted by hand loses its branch*, merged or not, without `--force`: its entry is
  prunable and skips the merged check (`workspace/worktrees.py:353`). `docs/isolation.md:113-115` and
  `CONTRACTS.md:1320` name merged, clean and unlocked worktrees only. `WorkIsKept` has to allow it, and
  it has to allow commits made after the listing.
- *A source whose first clone fails is removed* (`workspace/repos.py:110`), though a second run that
  found the directory may have fetched into it and made its worktree there by then.
- *A finished run keeps its pause.* `docs/runs-and-resume.md:713-714` and `CONTRACTS.md:1692` have
  `run.pause` cleared; only a decision of its gate clears it (`engine/runner.py:936`).
- *A recorded decision is overwritten.* `CONTRACTS.md:2029` against `approve.py:370`: in a resumed
  process a gate that pauses first takes the slot that holds the answer for another one.
- *A verdict is overwritten by a correction.* `docs/cli.md:733-736` against
  `cli/_runs_common.py:1224`: an observer that loaded the record before the terminal save writes
  `interrupted` over it. `RunLifecycle` has the step; `disowned` names it.
- *A cancel makes a loop or an include fail* when `until:` or `outputs:` reads a step the cancel
  skipped (`tests/engine/test_cancel_composites.py:3-5` says a cancel is no failure).
  `CancelFailsOnlyOnReading` allows exactly that. Items a cancel skipped count as succeeded in the
  summary of an `each:`.
- *A cleanup step of a body that is cut from outside does not run* (`docs/schema.md:568`): `Cut`
  unwinds without a wind-down.
- *A failed rewrite may lose the previous output.* `store/file.py:824-825` says it leaves it intact; an
  output of another kind is unlinked first (`:849`). `RefIsGood` holds all the same, because by then
  no saved record refers to it.
- *A dead codex client stays pooled* after a cancelled `run()` (`providers/codex.py:764-766`, against
  `:13-14`), and the next turn meets it.
- *An announced success is marked failed.* When the save of a replayed record fails, `run_one` marks the
  record `failed` (`engine/scheduler.py:357-361`), which is the cached object `persist` has put into
  `run.steps`; the next heartbeat writes that to run.json and a resume executes the step again. The
  same goes for a success whose event could not be appended. `EventAfterRecord` and
  `NotExecutedTwice` allow exactly that (`demoted`).
- *The day forgets hidden attempts.* While a step is tried again, `run_totals` counts none of its earlier
  attempts (`engine/scheduler.py:463`), so a commit of another step lowers what the run has booked.
- *Usage is lost on a re-ask.* An answer that does not fit its schema is asked again within the same
  attempt; when the second turn is cut, its cumulative usage has replaced that of the first
  (`executors/prompt.py:116-120`, against `CONTRACTS.md:1606-1620` and
  `docs/runs-and-resume.md:738-751`).
- *`max_consecutive_failures`* may be given at the top level and under `budget`; across layers the two
  are not merged as one (`limits/policy.py:97-103`).
- *`apply_policy` is not idempotent*, as its docstring has it: with `tools.deny: [mcp:github]` and
  `mcp.allow_servers: [x]` the first call accepts an agent and folds a denial into it that the second
  call refuses. Resume and validation both call it (`loader/validate.py:337`,
  `cli/commands/resume.py:180`).

One more deviation shapes a property: a step with a reusable record is skipped, and its record
overwritten, when the list drains before it is decided (in `StepStore` that is `Skip`, after which the
skip is the last record): the join table is asked before the cache. So is
the step's own `when:`, which a resume evaluates again: it may skip or fail a step that had succeeded.
`SuccessLostOnlyToFailure` therefore allows exactly these two.

## 7. Plan

Done, in this order: the scheduler with its contract; `Run`; `LaunchGate` and `Gates`; `WorkdirLock` and
`Worktrees`; `RunLifecycle`; `RunSlots`, `SpendLedger` and their composition; `Composites`; `StepStore` with
`RedactStream`; `CodexTurns`; the policy modules; and the proofs above.

Left, most important first:

1. `LaunchGate` composed with `Scheduler`: a rejection against the leaves the gate lets go. The
   product of the two is beyond a run of this size; an abstract launch gate would have to stand in.
2. A composite inside a body, with `run_failures` over records of any depth.
3. The bare clone behind `--repo` (`workspace/repos.py`): several runs that make, fetch and remove it.

## 8. Not modelled

- Templating, the workflow lock file, loading and validation, hashes of the trust list, schema and
  settings: pure functions of their input, better covered by the repository's property tests; no
  interleaving touches them.
- What a leaf does inside an attempt: processes, the claude and stub adapters (one sequential turn
  each), structured output, prices. The models take the outcome as a choice.
- Secrets and git: external systems. The guard, the registry and the bare clones of `workspace/`.
- `resume --force`: it only lets a resume pass a changed workflow. `--rerun` is in `StepStore` only.
- Writes of `stream.jsonl` that fail: the stream is a log nobody reads back.
- Shape detectors and encodings in the redactor; artifacts and the audit log of the store.
- Sinks and the command line's presentation, the prompt and panels of an approval.
- Workflow tests and quickstart: sequential drivers of the engine with stub providers.
