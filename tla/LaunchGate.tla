------------------------------ MODULE LaunchGate ------------------------------
(***************************************************************************)
(* The concurrency primitives of one run (engine/runtime.py, Runtime): the *)
(* launch gate, the max_parallel slots and the count of active leaves, and *)
(* the approve: steps that close the gate to ask a human in peace          *)
(* (executors/approve.py, _ask).                                           *)
(*                                                                         *)
(* One event loop: what a task does between two awaits is one action, and  *)
(* a task woken by an event runs later than the task that set it.          *)
(***************************************************************************)
EXTENDS Permits, FiniteSets

CONSTANTS
  Leaf, \* the leaf steps; each asks for a permit once per attempt
  Gate  \* the approve: steps that have to ask

ASSUME LeafAssumption == IsFiniteSet(Leaf)

Free == "free"
ASSUME FreeAssumption == Free \notin Gate

VARIABLES
  leaf, \* where each leaf attempt is in leaf_permit
  gate, \* where each approve: step is
  open, \* Runtime._gate is set
  idle, \* Runtime._idle is set
  active, \* Runtime.active_leaves
  lock  \* the holder of Runtime.approval_lock

launchVars == <<leaf, gate, open, idle, active, lock>>

LeafPcs == {"out", "blocked", "passed", "queued", "slotted", "running"}
GatePcs == {"out", "locking", "held", "quiescing", "woken", "asking", "recording"}

\* Between close_gate and the finally that opens the gate again.
Closers == {g \in Gate : gate[g] \in {"quiescing", "woken", "asking"}}

SlotsTaken == {l \in Leaf : leaf[l] \in {"slotted", "running"}}
SlotFree   == Cardinality(SlotsTaken) < MaxParallel

LaunchTypeOK ==
  /\ leaf \in [Leaf -> LeafPcs] /\ gate \in [Gate -> GatePcs]
  /\ open \in BOOLEAN /\ idle \in BOOLEAN
  /\ active \in 0..Cardinality(Leaf) /\ lock \in Gate \union {Free}

LaunchInit ==
  /\ leaf = [l \in Leaf |-> "out"] /\ gate = [g \in Gate |-> "out"]
  /\ open = TRUE /\ idle = TRUE /\ active = 0 /\ lock = Free

------------------------------------------------------------------------------
(* leaf_permit *)

gateFrame == UNCHANGED <<gate, open, lock>>

\* Mutant: the launch gate is not waited for.
AskPermitUngated(l) ==
  /\ leaf[l] = "out"
  /\ leaf' = [leaf EXCEPT ![l] = "passed"]
  /\ UNCHANGED <<idle, active>> /\ gateFrame

\* wait_launch: a closed gate blocks; an open one is only a checkpoint.
AskPermit(l) ==
  /\ leaf[l] = "out"
  /\ leaf' = [leaf EXCEPT ![l] = IF open THEN "passed" ELSE "blocked"]
  /\ UNCHANGED <<idle, active>> /\ gateFrame

\* The limiter: a free slot is taken at once and yields, else the leaf queues for one.
TakeSlot(l) ==
  /\ leaf[l] = "passed"
  /\ leaf' = [leaf EXCEPT ![l] = IF SlotFree THEN "slotted" ELSE "queued"]
  /\ UNCHANGED <<idle, active>> /\ gateFrame

\* The slot is held: the leaf counts as active from here on.
EnterLeaf(l) ==
  /\ \/ leaf[l] = "slotted"
     \/ leaf[l] = "queued" /\ SlotFree
  /\ leaf' = [leaf EXCEPT ![l] = "running"]
  /\ active' = active + 1 /\ idle' = FALSE
  /\ gateFrame

\* The attempt ended, failed or was cancelled: finally counts it out, the slot is released.
Leave(l) ==
  /\ leaf[l] = "running"
  /\ leaf' = [leaf EXCEPT ![l] = "out"]
  /\ active' = active - 1
  /\ idle' = (idle \/ active' = 0)
  /\ gateFrame

\* A cancelled task leaves whatever it waits for; a slot just taken is not given back first.
CutLeaf(l) ==
  /\ leaf[l] \in {"blocked", "passed", "queued"}
  /\ leaf' = [leaf EXCEPT ![l] = "out"]
  /\ UNCHANGED <<idle, active>> /\ gateFrame

------------------------------------------------------------------------------
(* run_approve, from the lock to the recorded decision *)

leafFrame == UNCHANGED <<idle, active>>

Move(g, pc) == gate' = [gate EXCEPT ![g] = pc]

AskLock(g) ==
  /\ gate[g] = "out"
  /\ Move(g, "locking")
  /\ UNCHANGED <<leaf, open, lock>> /\ leafFrame

\* Mutant: gates do not wait for each other.
LockUnasked(g) ==
  /\ gate[g] = "locking"
  /\ Move(g, "held") /\ lock' = g
  /\ UNCHANGED <<leaf, open>> /\ leafFrame

Lock(g) ==
  /\ gate[g] = "locking" /\ lock = Free
  /\ Move(g, "held") /\ lock' = g
  /\ UNCHANGED <<leaf, open>> /\ leafFrame

\* close_gate: leaves that have not passed the gate are held from now on.
Close(g) ==
  /\ gate[g] = "held"
  /\ Move(g, "quiescing") /\ open' = FALSE
  /\ UNCHANGED <<leaf, lock>> /\ leafFrame

\* wait_quiesced: the idle event is set, so the approver is queued to run again; a leaf that
\* took its slot before is ahead of it in the loop's queue ...
Wake(g) ==
  /\ gate[g] = "quiescing" /\ idle
  /\ \A l \in Leaf : leaf[l] # "slotted"
  /\ Move(g, "woken")
  /\ UNCHANGED <<leaf, open, lock>> /\ leafFrame

\* ... but a queued leaf may have got in first: look again, or wait again.
Recheck(g) ==
  /\ gate[g] = "woken"
  /\ Move(g, IF active = 0 /\ idle THEN "asking" ELSE "quiescing")
  /\ UNCHANGED <<leaf, open, lock>> /\ leafFrame

\* Mutant: open_gate on a fresh event, which wakes nobody.
OpenGateUnheard == open' = TRUE /\ leaf' = leaf

\* open_gate: every leaf that waits on the gate may go, also if the gate is closed again.
OpenGate ==
  /\ open' = TRUE
  /\ leaf' = [l \in Leaf |-> IF leaf[l] = "blocked" THEN "passed" ELSE leaf[l]]

\* An answer leaves the lock at once.
Answer(g) ==
  /\ gate[g] = "asking"
  /\ Move(g, "out") /\ OpenGate /\ lock' = Free
  /\ leafFrame

\* Nobody to ask, or Ctrl-C at the prompt: the pause is recorded under the lock.
NoAnswer(g) ==
  /\ gate[g] = "asking"
  /\ Move(g, "recording") /\ OpenGate
  /\ UNCHANGED lock /\ leafFrame

Recorded(g) ==
  /\ gate[g] = "recording"
  /\ Move(g, "out") /\ lock' = Free
  /\ UNCHANGED <<leaf, open>> /\ leafFrame

\* A cancelled approver gives back what it holds.
CutGate(g) ==
  /\ gate[g] \in {"locking", "held", "quiescing", "woken"}
  /\ Move(g, "out")
  /\ lock' = IF lock = g THEN Free ELSE lock
  /\ IF g \in Closers THEN OpenGate ELSE UNCHANGED <<leaf, open>>
  /\ leafFrame

------------------------------------------------------------------------------

LeafMoves(l) == TakeSlot(l) \/ EnterLeaf(l) \/ Leave(l)
GateMoves(g) == \/ Close(g) \/ Wake(g) \/ Recheck(g) \/ Answer(g) \/ NoAnswer(g) \/ Recorded(g)

LaunchNext ==
  \/ \E l \in Leaf : AskPermit(l) \/ LeafMoves(l) \/ CutLeaf(l)
  \/ \E g \in Gate : AskLock(g) \/ Lock(g) \/ GateMoves(g) \/ CutGate(g)

LaunchSpec == LaunchInit /\ [][LaunchNext]_launchVars

\* The loop runs every ready task, attempts end, a prompt is answered, and the lock and the
\* limiter serve their waiters first come, first served.  No leaf or gate is forced to ask.
LaunchFairness ==
  /\ \A l \in Leaf :
       /\ WF_launchVars(TakeSlot(l))
       /\ SF_launchVars(EnterLeaf(l))
       /\ WF_launchVars(Leave(l))
  /\ \A g \in Gate : SF_launchVars(Lock(g)) /\ WF_launchVars(GateMoves(g))

FairLaunch == LaunchSpec /\ LaunchFairness

------------------------------------------------------------------------------

\* Gates quiesce and ask one at a time, under a closed launch gate, and the launch gate is
\* closed only as long as one of them needs it: no cancelled gate leaves the run shut, and no
\* gate that finishes opens it under another one that is asking.
ClosedForOne ==
  /\ open = (Closers = {})
  /\ \A g, h \in Closers : g = h
  /\ \A g \in Closers : lock = g

\* The count the approver reads is the number of leaves that really run.
CountIsTrue ==
  /\ active = Cardinality({l \in Leaf : leaf[l] = "running"})
  /\ idle = (active = 0)

\* A leaf held by the launch gate is let go again, however often gates close it.
LeafIsLetGo == \A l \in Leaf : leaf[l] = "blocked" ~> leaf[l] # "blocked"

\* A gate that has to ask gets to ask (unless it is cancelled): leaves cannot keep it out.
GateIsAsked == \A g \in Gate : gate[g] = "locking" ~> gate[g] \in {"asking", "out"}

==============================================================================
