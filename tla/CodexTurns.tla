----------------------------- MODULE CodexTurns -----------------------------
(***************************************************************************)
(* The turns of one CodexProvider (providers/codex.py): run() takes a      *)
(* token, shares the pooled app-server client of its environment, and      *)
(* leaves thread start, turn start and the stream to a shielded driver     *)
(* while it waits for a deadline, a cancellation or a failing sink.        *)
(* Every blocking call of the SDK pins a worker of the loop's executor.    *)
(*                                                                         *)
(* One environment signature, so one pool entry.  A client is a process:   *)
(* closed ones that nobody refers to are fresh again, so none is counted.  *)
(***************************************************************************)
EXTENDS Integers, FiniteSets

CONSTANTS Turn, Client, NoClient,
          Workers,   \* executor_workers
          Spare      \* SPARE_WORKERS

ASSUME CodexAssumption ==
  /\ IsFiniteSet(Turn) /\ IsFiniteSet(Client) /\ NoClient \notin Client
  /\ Workers \in Nat /\ Spare \in 1 .. Workers - 1
  /\ Cardinality(Client) >= Workers

VARIABLES
  pc,        \* pc[t]: where run() is
  drv,       \* drv[t]: where its driver is
  error,     \* error[t]: cell.error
  sink,      \* sink[t]: cell.sink_error is set
  late,      \* late[t]: what made run() give up the wait
  after,     \* after[t]: what follows the close of a client
  client,    \* client[t]: the pooled client of the turn
  srv,       \* srv[t]: the turn on the server
  pool,      \* self._clients of the signature
  process,   \* process[c]: the app-server behind a client
  poisoned   \* poisoned[c]

cell == <<error, sink, late>>
vars == <<pc, drv, cell, after, client, srv, pool, process, poisoned>>

TypeOK ==
  /\ pc \in [Turn -> {"idle", "waiting", "starting", "wants_interrupt", "drain", "wants_close",
                      "await_done", "join", "finish"}]
  /\ drv \in [Turn -> {"none", "opening", "streaming", "done"}]
  /\ sink \in [Turn -> BOOLEAN]
  /\ error \in [Turn -> {"none", "transport", "codex", "other"}]
  /\ late \in [Turn -> {"none", "timeout", "cancel"}]
  /\ after \in [Turn -> {"await_done", "finish"}]
  /\ client \in [Turn -> Client \union {NoClient}] /\ pool \in Client \union {NoClient}
  /\ srv \in [Turn -> {"none", "running", "completed", "ended", "gone"}]
  /\ process \in [Client -> {"up", "dead", "closed"}] /\ poisoned \in [Client -> BOOLEAN]

Init ==
  /\ pc = [t \in Turn |-> "idle"] /\ drv = [t \in Turn |-> "none"]
  /\ sink = [t \in Turn |-> FALSE]
  /\ error = [t \in Turn |-> "none"] /\ late = [t \in Turn |-> "none"]
  /\ after = [t \in Turn |-> "finish"] /\ client = [t \in Turn |-> NoClient]
  /\ srv = [t \in Turn |-> "none"] /\ pool = NoClient
  /\ process = [c \in Client |-> "closed"] /\ poisoned = [c \in Client |-> TRUE]

(***************************************************************************)
(* Events of the cell, workers, clients.                                   *)
(***************************************************************************)
Done(t)    == drv[t] = "done"
Started(t) == drv[t] \in {"streaming", "done"}
Settled(t) == sink[t] \/ Done(t)

\* A driver pins a worker from its first call to its last, for the SDK blocks in each of them;
\* interrupt() and close() hold one only while they run, which is one step here.
FreeWorker == Cardinality({t \in Turn : drv[t] \in {"opening", "streaming"}}) < Workers

\* Mutant: every worker may be pinned by a stream.
TokensForAll == Workers

\* The limiter leaves workers for interrupt() and close().
Tokens == Workers - Spare
FreeToken == Cardinality({t \in Turn : pc[t] # "idle"}) < Tokens

Up(t) == client[t] # NoClient /\ process[client[t]] = "up"

\* A client that was never started, or was closed and is held by nobody.
Unused(c) == process[c] = "closed" /\ c # pool /\ \A t \in Turn : client[t] # c
Fresh == CHOOSE c \in Client : Unused(c)

Reusable == pool # NoClient /\ ~poisoned[pool]

\* The process of c stops being up: its turns are gone, what they had sent stays in the queues.
Ends(c, how) ==
  /\ process' = [process EXCEPT ![c] = how]
  /\ srv' = [t \in Turn |-> IF client[t] = c /\ srv[t] = "running" THEN "gone" ELSE srv[t]]

\* Mutant: the entry of the pool is dropped, whatever client it holds.
PoisonEntry(t, next) ==
  /\ pool' = NoClient
  /\ poisoned' = [poisoned EXCEPT ![client[t]] = TRUE]
  /\ pc' = [pc EXCEPT ![t] = IF poisoned[client[t]] THEN next ELSE "wants_close"]
  /\ after' = [after EXCEPT ![t] = IF poisoned[client[t]] THEN "finish" ELSE next]

\* _poison: leave the pool if it still holds this client, close it once, then go on to next.
Poison(t, next) ==
  /\ pool' = IF pool = client[t] THEN NoClient ELSE pool
  /\ poisoned' = [poisoned EXCEPT ![client[t]] = TRUE]
  /\ pc' = [pc EXCEPT ![t] = IF poisoned[client[t]] THEN next ELSE "wants_close"]
  /\ after' = [after EXCEPT ![t] = IF poisoned[client[t]] THEN "finish" ELSE next]

(***************************************************************************)
(* run(): a token, a client, a driver, then the wait.                      *)
(***************************************************************************)
\* Calls are interchangeable: a new one gets the first free name.
NextCall == CHOOSE t \in Turn : pc[t] = "idle" \/ \A u \in Turn : pc[u] # "idle"

Enter(t) ==
  /\ t = NextCall /\ pc[t] = "idle" /\ FreeToken
  /\ IF Reusable
       THEN client' = [client EXCEPT ![t] = pool] /\ UNCHANGED <<pool, process, poisoned>>
       ELSE /\ client' = [client EXCEPT ![t] = Fresh]
            /\ pool' = Fresh
            /\ process' = [process EXCEPT ![Fresh] = "up"]
            /\ poisoned' = [poisoned EXCEPT ![Fresh] = FALSE]
  /\ pc' = [pc EXCEPT ![t] = "waiting"]
  /\ drv' = [drv EXCEPT ![t] = "opening"]
  /\ sink' = [sink EXCEPT ![t] = FALSE]
  /\ error' = [error EXCEPT ![t] = "none"] /\ late' = [late EXCEPT ![t] = "none"]
  /\ srv' = [srv EXCEPT ![t] = "none"]
  /\ UNCHANGED after

\* _abort_turn, shielded: a turn that never started gets drain_s to come back.
AbortTurn(t) == IF Done(t) THEN "join" ELSE IF Started(t) THEN "wants_interrupt" ELSE "starting"

\* Mutant: a failing sink is raised without interrupting the turn.
WakeAnyway(t) ==
  /\ pc[t] = "waiting" /\ Settled(t)
  /\ pc' = [pc EXCEPT ![t] = "join"]
  /\ UNCHANGED <<drv, cell, after, client, srv, pool, process, poisoned>>

\* The wait ends by itself: with the stream, or because the sink failed.
Wake(t) ==
  /\ pc[t] = "waiting" /\ Settled(t)
  /\ pc' = [pc EXCEPT ![t] = IF sink[t] THEN AbortTurn(t) ELSE "join"]
  /\ UNCHANGED <<drv, cell, after, client, srv, pool, process, poisoned>>

\* The deadline fires before the wait is over, or the task is cancelled.
GiveUp(t, why) ==
  /\ pc[t] = "waiting" /\ (why = "timeout" => ~Settled(t))
  /\ pc' = [pc EXCEPT ![t] = AbortTurn(t)]
  /\ late' = [late EXCEPT ![t] = why]
  /\ UNCHANGED <<drv, error, sink, after, client, srv, pool, process, poisoned>>

StartReturns(t) ==
  /\ pc[t] = "starting" /\ Started(t)
  /\ pc' = [pc EXCEPT ![t] = AbortTurn(t)]
  /\ UNCHANGED <<drv, cell, after, client, srv, pool, process, poisoned>>

\* The start did not come back within drain_s.
StartHangs(t) ==
  /\ pc[t] = "starting" /\ ~Started(t)
  /\ Poison(t, "await_done")
  /\ UNCHANGED <<drv, cell, client, srv, process>>

\* interrupt() takes a worker: the server interrupts the turn, had just completed it, or does
\* nothing; a dead one raises, which is logged.
Interrupt(t) ==
  /\ pc[t] = "wants_interrupt" /\ FreeWorker
  /\ \E s \in {srv[t]} \union IF srv[t] = "running" THEN {"ended", "completed"} ELSE {} :
        srv' = [srv EXCEPT ![t] = s]
  /\ pc' = [pc EXCEPT ![t] = "drain"]
  /\ UNCHANGED <<drv, cell, after, client, pool, process, poisoned>>

\* The drain ends with the driver, or after drain_s.
Drained(t) ==
  /\ pc[t] = "drain"
  /\ IF Done(t) THEN pc' = [pc EXCEPT ![t] = "join"] /\ UNCHANGED <<pool, poisoned, after>>
                ELSE Poison(t, "await_done")
  /\ UNCHANGED <<drv, cell, client, srv, process>>

\* close() takes a worker, ends the process and wakes every call that waits for it.
Close(t) ==
  /\ pc[t] = "wants_close" /\ FreeWorker
  /\ Ends(client[t], "closed")
  /\ pc' = [pc EXCEPT ![t] = after[t]]
  /\ after' = [after EXCEPT ![t] = "finish"]
  /\ UNCHANGED <<drv, cell, client, pool, poisoned>>

AwaitDone(t) ==
  /\ pc[t] = "await_done" /\ Done(t)
  /\ pc' = [pc EXCEPT ![t] = "join"]
  /\ UNCHANGED <<drv, cell, after, client, srv, pool, process, poisoned>>

(***************************************************************************)
(* After the task group: a cancelled run() raises at once, the others      *)
(* look at the error first.                                                *)
(***************************************************************************)
\* run() is over: its cell is gone, the token is free.
Return(t) ==
  /\ pc' = [pc EXCEPT ![t] = "idle"] /\ drv' = [drv EXCEPT ![t] = "none"]
  /\ sink' = [sink EXCEPT ![t] = FALSE]
  /\ error' = [error EXCEPT ![t] = "none"] /\ late' = [late EXCEPT ![t] = "none"]
  /\ srv' = [srv EXCEPT ![t] = IF @ = "running" THEN @ ELSE "none"]
  /\ client' = [client EXCEPT ![t] = IF srv[t] = "running" THEN @ ELSE NoClient]
  /\ UNCHANGED <<after, pool, process, poisoned>>

\* A cancelled run() leaves the task group by the cancellation.
Cancelled(t) == pc[t] = "join" /\ late[t] = "cancel" /\ Return(t)

Join(t) ==
  /\ pc[t] = "join" /\ late[t] # "cancel"
  /\ IF error[t] \in {"transport", "codex"}
       THEN Poison(t, "finish")
       ELSE pc' = [pc EXCEPT ![t] = "finish"] /\ UNCHANGED <<pool, poisoned, after>>
  /\ UNCHANGED <<drv, cell, client, srv, process>>

\* Mutant: the deadline outranks the answer.
GradedLate(t) ==
  IF late[t] = "timeout" THEN "timeout"
  ELSE IF error[t] = "none" /\ srv[t] = "completed" THEN "success"
  ELSE "failed"

\* _result: of a stream that ended without an error, or of our own deadline.
Graded(t) ==
  IF error[t] = "none" /\ srv[t] = "completed" THEN "success"
  ELSE IF late[t] = "timeout" THEN "timeout"
  ELSE "failed"

\* What _run raises or returns; _translate makes a dead transport worth a retry.
Outcome(t) ==
  IF sink[t] THEN "sink"
  ELSE IF error[t] # "none" /\ late[t] # "timeout"
    THEN IF error[t] = "transport" THEN "transient" ELSE "raised"
  ELSE Graded(t)

Finish(t) == pc[t] = "finish" /\ Return(t)

(***************************************************************************)
(* The driver.                                                             *)
(***************************************************************************)
\* thread_start and turn() return: the server runs the turn.
Opened(t) ==
  /\ drv[t] = "opening" /\ Up(t)
  /\ srv' = [srv EXCEPT ![t] = "running"]
  /\ drv' = [drv EXCEPT ![t] = "streaming"]
  /\ UNCHANGED <<pc, cell, after, client, pool, process, poisoned>>

\* They raise: the transport died, the server refused, or the runtime or a parameter is bad.
OpenFails(t) ==
  /\ drv[t] = "opening"
  /\ \E e \in IF Up(t) THEN {"codex", "other"} ELSE {"transport"} :
        error' = [error EXCEPT ![t] = e]
  /\ drv' = [drv EXCEPT ![t] = "done"]
  /\ UNCHANGED <<pc, sink, late, after, client, srv, pool, process, poisoned>>

\* A notification arrives and emit raises; later ones are dropped.
SinkFails(t) ==
  /\ drv[t] = "streaming" /\ srv[t] # "gone" /\ ~sink[t]
  /\ sink' = [sink EXCEPT ![t] = TRUE]
  /\ UNCHANGED <<pc, drv, error, late, after, client, srv, pool, process, poisoned>>

\* turn/completed ends the stream; a dead transport breaks it after what it had sent.
StreamEnds(t) ==
  /\ drv[t] = "streaming" /\ srv[t] # "running"
  /\ error' = [error EXCEPT ![t] = IF srv[t] = "gone" THEN "transport" ELSE "none"]
  /\ drv' = [drv EXCEPT ![t] = "done"]
  /\ UNCHANGED <<pc, sink, late, after, client, srv, pool, process, poisoned>>

(***************************************************************************)
(* The server, and the end of the run.                                     *)
(***************************************************************************)
TurnEnds(t) ==
  /\ srv[t] = "running"
  /\ \E s \in {"completed", "ended"} : srv' = [srv EXCEPT ![t] = s]
  /\ UNCHANGED <<pc, drv, cell, after, client, pool, process, poisoned>>

ProcessDies(c) ==
  /\ process[c] = "up"
  /\ Ends(c, "dead")
  /\ UNCHANGED <<pc, drv, cell, after, client, pool, poisoned>>

\* aclose of a run whose steps have ended.
Aclose ==
  /\ \A t \in Turn : pc[t] = "idle"
  /\ pool # NoClient
  /\ pool' = NoClient
  /\ poisoned' = [poisoned EXCEPT ![pool] = TRUE]
  /\ Ends(pool, "closed")
  /\ UNCHANGED <<pc, drv, cell, after, client>>

Driver(t) == Opened(t) \/ OpenFails(t) \/ SinkFails(t) \/ StreamEnds(t)
Caller(t) ==
  \/ Wake(t) \/ StartReturns(t) \/ StartHangs(t) \/ Interrupt(t) \/ Drained(t) \/ Close(t)
  \/ AwaitDone(t) \/ Cancelled(t) \/ Join(t) \/ Finish(t)

Next ==
  \/ \E t \in Turn : Enter(t) \/ Caller(t) \/ Driver(t) \/ TurnEnds(t)
  \/ \E t \in Turn, why \in {"timeout", "cancel"} : GiveUp(t, why)
  \/ \E c \in Client : ProcessDies(c)
  \/ Aclose

Spec == Init /\ [][Next]_vars

\* What does not wait for a server that may hang.
Proceeds(t) == Caller(t) \/ StreamEnds(t) \/ (~Up(t) /\ OpenFails(t))

\* Workers are served in order, the calls of a closed client fail, interrupt() and close() return,
\* and the drains of run() are bounded.  Nothing makes a server start, finish or break a turn.
FairSpec == Spec /\ \A t \in Turn : WF_vars(Proceeds(t))

(***************************************************************************)
(* Properties.                                                             *)
(***************************************************************************)
\* A turn that timed out, was cancelled or lost its sink returns, whatever the server does: there
\* is a worker for interrupt() and close() however many streams hang, and close wakes the driver.
\* Calls are interchangeable, so one of them is asked.
AbortedTurnReturns ==
  LET t == CHOOSE t \in Turn : TRUE IN (late[t] # "none" \/ sink[t]) ~> pc[t] = "idle"

\* aclose() reaches every process that is still up: it only closes what the pool holds, so a client
\* that nobody has closed must be the pooled one, whoever poisons which client in which order.
NoClientLeaks == \A c \in Client : process[c] # "closed" /\ ~poisoned[c] => pool = c

\* When run() is over the server does not go on with its turn in the worktree.
NoOrphanTurn == \A t \in Turn : pc[t] = "idle" => srv[t] # "running"

\* An answer the server gave is kept, though the deadline fired or another turn closed the client;
\* only a failing sink has no use for it (and a cancelled run(), which does not finish).
AnswerIsKept ==
  \A t \in Turn : pc[t] = "finish" /\ srv[t] = "completed" => Outcome(t) \in {"success", "sink"}
=============================================================================
