-------------------------- MODULE CodexTurnsProofs ---------------------------
(***************************************************************************)
(* For any number of turns, workers and clients: no app-server outlives    *)
(* the provider, no turn outlives its run(), and no answer is thrown away. *)
(***************************************************************************)
EXTENDS CodexTurns, FiniteSetTheorems, TLAPS

\* A call has a driver and a client while it runs, and its task group is left with the driver done.
CallInv ==
  \A t \in Turn :
    /\ pc[t] = "idle" <=> drv[t] = "none"
    /\ pc[t] = "idle" <=> client[t] = NoClient
    /\ pc[t] \in {"join", "finish"} => Done(t)
    /\ pc[t] = "wants_close" /\ after[t] = "finish" => Done(t)

\* The server has a turn only once the driver has opened one, and the driver is done with it only
\* when the server is; the error it leaves is that of the turn.
TurnInv ==
  \A t \in Turn :
    /\ srv[t] = "running" => drv[t] = "streaming"
    /\ drv[t] = "opening" => srv[t] = "none"
    /\ Done(t) /\ srv[t] = "completed" => error[t] = "none"

\* A poisoned client that is not closed is about to be, by the call that poisoned it.
ClosingInv ==
  \A c \in Client : process[c] # "closed" /\ poisoned[c] =>
    \E t \in Turn : pc[t] = "wants_close" /\ client[t] = c

CodexInv == TypeOK /\ CallInv /\ TurnInv /\ ClosingInv /\ NoClientLeaks

(***************************************************************************)
(* A call that may enter finds a client: the tokens are fewer than the     *)
(* workers, and every client in use is pooled or held by a call.           *)
(***************************************************************************)
LEMMA FreshIsUnused ==
  ASSUME CodexInv, FreeToken, ~Reusable PROVE Fresh \in Client /\ Unused(Fresh)
<1> DEFINE Busy == {t \in Turn : pc[t] # "idle"}
           Others == Client \ {pool}
<1>1. /\ IsFiniteSet(Busy) /\ Cardinality(Busy) \in Nat
      /\ Cardinality(Busy) < Workers - Spare
  BY FS_Subset, FS_CardinalityType, CodexAssumption, Busy \subseteq Turn DEF FreeToken, Tokens
<1>2. /\ IsFiniteSet(Others) /\ Cardinality(Others) \in Nat
      /\ Cardinality(Others) >= Workers - 1
  <2>1. IsFiniteSet(Client) /\ Cardinality(Client) \in Nat /\ Cardinality(Client) >= Workers
    BY FS_CardinalityType, CodexAssumption
  <2>2. /\ IsFiniteSet(Others)
        /\ Cardinality(Others) = IF pool \in Client THEN Cardinality(Client) - 1
                                ELSE Cardinality(Client)
    BY <2>1, FS_RemoveElement
  <2>3. Cardinality(Others) \in Nat
    BY <2>2, FS_CardinalityType
  <2>4. QED
    BY <2>1, <2>2, <2>3, CodexAssumption
<1>3. Cardinality(Busy) < Cardinality(Others)
  BY <1>1, <1>2, CodexAssumption
<1>4. \E c \in Client : Unused(c)
  <2> SUFFICES ASSUME \A c \in Client : ~Unused(c) PROVE FALSE
    OBVIOUS
  <2>1. ASSUME NEW c \in Others PROVE \E t \in Busy : client[t] = c
    <3>1. c # NoClient /\ c \in Client /\ c # pool
      BY CodexAssumption
    <3>2. process[c] = "closed" \/ poisoned[c]
      BY <3>1 DEF CodexInv, NoClientLeaks
    <3>3. \E t \in Turn : client[t] = c
      BY <3>1, <3>2 DEF CodexInv, ClosingInv, Unused
    <3>4. QED
      BY <3>1, <3>3 DEF CodexInv, CallInv
  <2> DEFINE f == [c \in Others |-> CHOOSE t \in Busy : client[t] = c]
  <2>2. \A c \in Others : f[c] \in Busy /\ client[f[c]] = c
    BY <2>1
  <2>3. f \in [Others -> Busy]
    BY <2>2
  <2> HIDE DEF f, Busy, Others
  <2>4. PICK c, d \in Others : c # d /\ f[c] = f[d]
    BY <1>1, <1>2, <1>3, <2>3, FS_PigeonHole
  <2>5. QED
    BY <2>2, <2>4
<1>5. QED
  BY <1>4 DEF Fresh

LEMMA CodexInit == Init => CodexInv
BY CodexAssumption
   DEF Init, CodexInv, TypeOK, CallInv, TurnInv, ClosingInv, NoClientLeaks, Done

\* A new call takes the pooled client, or starts one that nobody uses.
LEMMA EnterKeeps == ASSUME CodexInv, NEW t \in Turn, Enter(t) PROVE CodexInv'
<1> USE CodexAssumption
<1>1. CASE Reusable
  BY <1>1 DEF CodexInv, TypeOK, CallInv, TurnInv, ClosingInv, NoClientLeaks, Done, Enter, Reusable
<1>2. CASE ~Reusable
  <2>1. Fresh \in Client /\ Unused(Fresh)
    BY <1>2, FreshIsUnused DEF Enter
  <2> DEFINE c == Fresh
  <2>2. /\ c \in Client /\ process[c] = "closed" /\ c # pool /\ \A u \in Turn : client[u] # c
        /\ pool # NoClient => poisoned[pool]
        /\ client' = [client EXCEPT ![t] = c] /\ pool' = c
        /\ process' = [process EXCEPT ![c] = "up"]
        /\ poisoned' = [poisoned EXCEPT ![c] = FALSE]
    BY <1>2, <2>1 DEF Enter, Unused, Reusable
  <2> HIDE DEF c
  <2> QED
    BY <2>2 DEF CodexInv, TypeOK, CallInv, TurnInv, ClosingInv, NoClientLeaks, Done, Enter
<1>3. QED
  BY <1>1, <1>2

\* A client is poisoned together with its way out of the pool, and closed by the one who did it.
LEMMA PoisonKeeps ==
  ASSUME CodexInv, NEW t \in Turn, NEW next \in {"await_done", "finish"}, Poison(t, next),
         pc[t] \in {"starting", "drain", "join"}, next = "finish" => Done(t),
         UNCHANGED <<drv, cell, client, srv, process>>
  PROVE  CodexInv'
<1> USE CodexAssumption
<1>1. client[t] \in Client
  BY DEF CodexInv, TypeOK, CallInv
<1>2. TypeOK' /\ CallInv' /\ TurnInv'
  BY <1>1 DEF CodexInv, TypeOK, CallInv, TurnInv, Done, Poison, cell
<1>3. NoClientLeaks'
  BY <1>1 DEF CodexInv, TypeOK, NoClientLeaks, Poison
<1>4. ClosingInv'
  BY <1>1 DEF CodexInv, TypeOK, ClosingInv, Poison
<1>5. QED
  BY <1>2, <1>3, <1>4 DEF CodexInv

\* run() without the calls that poison: what is left of the caller's steps.
LEMMA CallerKeeps == ASSUME CodexInv, NEW t \in Turn, Caller(t) PROVE CodexInv'
<1> USE CodexAssumption DEF CodexInv, TypeOK, CallInv, TurnInv, ClosingInv, NoClientLeaks, Done, cell
<1>1. CASE Wake(t)
  BY <1>1 DEF Wake, AbortTurn, Settled
<1>2. CASE StartReturns(t)
  BY <1>2 DEF StartReturns, AbortTurn
<1>3. CASE StartHangs(t)
  BY <1>3, PoisonKeeps DEF StartHangs
<1>4. CASE Interrupt(t)
  BY <1>4 DEF Interrupt
<1>5. CASE Drained(t)
  <2>1. CASE Done(t)
    BY <1>5, <2>1 DEF Drained
  <2>2. CASE ~Done(t)
    BY <1>5, <2>2, PoisonKeeps DEF Drained
  <2>3. QED
    BY <2>1, <2>2
<1>6. CASE Close(t)
  BY <1>6 DEF Close, Ends
<1>7. CASE AwaitDone(t)
  BY <1>7 DEF AwaitDone
<1>8. CASE Cancelled(t)
  BY <1>8 DEF Cancelled, Return
<1>9. CASE Join(t)
  <2>1. CASE error[t] \in {"transport", "codex"}
    BY <1>9, <2>1, PoisonKeeps DEF Join
  <2>2. CASE error[t] \notin {"transport", "codex"}
    BY <1>9, <2>2 DEF Join
  <2>3. QED
    BY <2>1, <2>2
<1>10. CASE Finish(t)
  BY <1>10 DEF Finish, Return
<1>11. QED
  BY <1>1, <1>2, <1>3, <1>4, <1>5, <1>6, <1>7, <1>8, <1>9, <1>10 DEF Caller

LEMMA DriverKeeps == ASSUME CodexInv, NEW t \in Turn, Driver(t) PROVE CodexInv'
<1> USE CodexAssumption DEF CodexInv, TypeOK, CallInv, TurnInv, ClosingInv, NoClientLeaks, Done
<1>1. CASE Opened(t)
  BY <1>1 DEF Opened, cell
<1>2. CASE OpenFails(t)
  BY <1>2 DEF OpenFails
<1>3. CASE SinkFails(t)
  BY <1>3 DEF SinkFails
<1>4. CASE StreamEnds(t)
  BY <1>4 DEF StreamEnds
<1>5. QED
  BY <1>1, <1>2, <1>3, <1>4 DEF Driver

\* Every step keeps the invariant: a call, its driver, the server, and the end of the run.
LEMMA CodexStep == ASSUME CodexInv, [Next]_vars PROVE CodexInv'
<1> USE CodexAssumption
<1>1. ASSUME NEW t \in Turn, NEW why \in {"timeout", "cancel"}, GiveUp(t, why) PROVE CodexInv'
  BY <1>1 DEF CodexInv, TypeOK, CallInv, TurnInv, ClosingInv, NoClientLeaks, Done, GiveUp, AbortTurn
<1>2. ASSUME NEW t \in Turn, TurnEnds(t) PROVE CodexInv'
  BY <1>2 DEF CodexInv, TypeOK, CallInv, TurnInv, ClosingInv, NoClientLeaks, Done, TurnEnds, cell
<1>3. ASSUME NEW c \in Client, ProcessDies(c) PROVE CodexInv'
  BY <1>3 DEF CodexInv, TypeOK, CallInv, TurnInv, ClosingInv, NoClientLeaks, Done, ProcessDies,
              Ends, cell
<1>4. CASE Aclose
  BY <1>4 DEF CodexInv, TypeOK, CallInv, TurnInv, ClosingInv, NoClientLeaks, Done, Aclose, Ends, cell
<1>5. CASE UNCHANGED vars
  BY <1>5 DEF CodexInv, TypeOK, CallInv, TurnInv, ClosingInv, NoClientLeaks, Done, vars, cell
<1>6. QED
  BY <1>1, <1>2, <1>3, <1>4, <1>5, EnterKeeps, CallerKeeps, DriverKeeps DEF Next

\* Whichever call poisons, closes or outlives a client in which order: the inductive invariant of
\* the pool and of its turns holds in every state.
THEOREM PoolIsKept == Spec => []CodexInv
<1>1. QED
  BY CodexInit, CodexStep, PTL DEF Spec

\* aclose() reaches every app-server that is up: a client that nobody poisoned is the pooled one.
THEOREM ClientsAreClosed == Spec => []NoClientLeaks
<1>1. CodexInv => NoClientLeaks
  BY DEF CodexInv
<1>2. QED
  BY <1>1, PoolIsKept, PTL

\* run() returns only when the server has ended its turn, or has no turn of it.
THEOREM TurnsEndWithTheirRun == Spec => []NoOrphanTurn
<1>1. CodexInv => NoOrphanTurn
  BY DEF CodexInv, CallInv, TurnInv, NoOrphanTurn
<1>2. QED
  BY <1>1, PoolIsKept, PTL

\* A completed turn is graded a success, whatever else happened to its call, unless its sink failed.
THEOREM AnswersAreKept == Spec => []AnswerIsKept
<1>1. CodexInv => AnswerIsKept
  BY DEF CodexInv, TypeOK, CallInv, TurnInv, AnswerIsKept, Outcome, Graded, Done
<1>2. QED
  BY <1>1, PoolIsKept, PTL
=============================================================================
