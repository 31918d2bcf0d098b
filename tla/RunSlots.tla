------------------------------ MODULE RunSlots ------------------------------
(***************************************************************************)
(* max_concurrent_runs (limits/slots.py): one flock file per provider and  *)
(* index.  A run holds one slot of every capped provider it uses for as    *)
(* long as it executes.  It takes the providers in sorted order, walks the *)
(* files of each one without blocking, and sleeps between walks.           *)
(***************************************************************************)
EXTENDS Integers, FiniteSets, Runs

CONSTANTS
  Providers, \* how many
  MaxSlot,   \* the bound on a limit
  Demands,   \* what the runs may ask for: functions, see Demand
  Free

\* Numbered in sorted order.
Provider == 1..Providers

Patience == {"none", "deadline", "forever"}

\* The limits of the capped providers a run uses, as its own policy states them, and --wait-slot.
Demand == [limit: UNION {[P -> 0..MaxSlot] : P \in SUBSET Provider}, wait: Patience]

ASSUME ProviderAssumption == Providers \in Nat
ASSUME SlotAssumption     == MaxSlot \in Nat /\ Free \notin Run
ASSUME DemandAssumption   == Demands \subseteq [Run -> Demand]

VARIABLES
  demand, \* chosen once: what each run asks for
  slot,   \* slot[p][i]: who has the flock of provider p's file i
  stage,  \* where each run is
  at      \* the next index of its walk

slotVars == <<demand, slot, stage, at>>

Stages == {"idle", "walking", "inside", "backing"}

SlotTypeOK ==
  /\ demand \in Demands
  /\ slot \in [Provider -> [1..MaxSlot -> Run \union {Free}]]
  /\ stage \in [Run -> Stages]
  /\ at \in [Run -> 1..(MaxSlot + 1)]

SlotInit ==
  /\ demand \in Demands
  /\ slot = [p \in Provider |-> [i \in 1..MaxSlot |-> Free]]
  /\ stage = [r \in Run |-> "idle"]
  /\ at = [r \in Run |-> 1]

Capped(r)    == DOMAIN demand[r].limit
Held(r)      == {p \in Provider : \E i \in 1..MaxSlot : slot[p][i] = r}
Inside       == {r \in Run : stage[r] = "inside"}

\* Mutant: the providers in the order the workflow names them.
NextUnsorted(r, p) == p \in Capped(r) \ Held(r)

\* The next provider of the walk: sorted order, so that no two runs wait for each other.
NextProvider(r, p) ==
  /\ p \in Capped(r) \ Held(r)
  /\ \A q \in Capped(r) \ Held(r) : p <= q

Move(r, to) == stage' = [stage EXCEPT ![r] = to]

\* On to the next provider, or into the block.
Walk(r, held) ==
  /\ Move(r, IF Capped(r) \subseteq held THEN "inside" ELSE "walking")
  /\ at' = [at EXCEPT ![r] = 1]

Enter(r) ==
  /\ stage[r] = "idle"
  /\ Walk(r, {}) /\ UNCHANGED <<demand, slot>>

\* _try_one: flock, without blocking, of one file of the walk.
Try(r) ==
  /\ stage[r] = "walking"
  /\ \E p \in Provider :
       /\ NextProvider(r, p) /\ at[r] <= demand[r].limit[p]
       /\ \/ /\ slot[p][at[r]] = Free
             /\ slot' = [slot EXCEPT ![p][at[r]] = r]
             /\ Walk(r, Held(r) \union {p})
          \/ /\ slot[p][at[r]] # Free
             /\ at' = [at EXCEPT ![r] = @ + 1]
             /\ UNCHANGED <<slot, stage>>
  /\ UNCHANGED demand

Walked(r, p) == NextProvider(r, p) /\ at[r] > demand[r].limit[p]

\* A walk that found nothing is repeated by a run that waits, for a limit that is not zero ...
Again(r) ==
  /\ stage[r] = "walking"
  /\ \E p \in Provider : Walked(r, p) /\ demand[r].limit[p] > 0
  /\ demand[r].wait # "none"
  /\ at' = [at EXCEPT ![r] = 1]
  /\ UNCHANGED <<demand, slot, stage>>

\* ... and refuses one that does not wait, or whose time is up, or that no slot exists for.
Busy(r) ==
  /\ stage[r] = "walking"
  /\ \E p \in Provider :
       Walked(r, p) /\ (demand[r].wait # "forever" \/ demand[r].limit[p] = 0)
  /\ Move(r, "backing") /\ UNCHANGED <<demand, slot, at>>

\* A file that cannot be opened or written.
SlotError(r) ==
  /\ stage[r] = "walking"
  /\ Move(r, "backing") /\ UNCHANGED <<demand, slot, at>>

\* The block is over: the run ended, paused or was refused by its engine.
LeaveBlock(r) ==
  /\ stage[r] = "inside"
  /\ Move(r, "backing") /\ UNCHANGED <<demand, slot, at>>

Unlocked(r, P) == [p \in Provider |->
                    [i \in 1..MaxSlot |-> IF p \in P /\ slot[p][i] = r THEN Free ELSE slot[p][i]]]

\* Everything acquired is released on the way out, the last one first.
GiveBack(r) ==
  /\ stage[r] = "backing"
  /\ \/ /\ \E p \in Held(r) : (\A q \in Held(r) : q <= p) /\ slot' = Unlocked(r, {p})
        /\ UNCHANGED stage
     \/ Held(r) = {} /\ Move(r, "idle") /\ UNCHANGED slot
  /\ UNCHANGED <<demand, at>>

\* The process dies: the kernel drops its locks.
SlotCrash(r) ==
  /\ stage[r] # "idle"
  /\ slot' = Unlocked(r, Provider) /\ Move(r, "idle")
  /\ UNCHANGED <<demand, at>>

Acquiring(r) == Try(r) \/ Again(r) \/ Busy(r)

SlotNext == \E r \in Run : \/ Enter(r) \/ Acquiring(r) \/ SlotError(r) \/ LeaveBlock(r)
                           \/ GiveBack(r) \/ SlotCrash(r)

SlotSpec == SlotInit /\ [][SlotNext]_slotVars

------------------------------------------------------------------------------

\* No more runs execute with a provider than the highest limit one of them was given, though
\* every policy states its own and files are tried one by one while others are let go.
CapacityHolds ==
  \A p \in Provider :
    LET users == {r \in Inside : p \in Capped(r)} IN
      users # {} => \E r \in users : Cardinality(users) <= demand[r].limit[p]

\* A run that executes holds a slot of every capped provider it uses; a run that is over, refused
\* half-way or killed holds none.
SlotsFollowTheRun ==
  \A r \in Run : /\ stage[r] = "inside" => Capped(r) \subseteq Held(r)
                 /\ stage[r] = "idle" => Held(r) = {}

\* r sleeps between walks for a slot of p, and every file it may take is locked by one of S.
Waits(r, S) ==
  /\ stage[r] = "walking"
  /\ \E p \in Provider : /\ NextProvider(r, p) /\ demand[r].limit[p] > 0
                         /\ \A i \in 1..demand[r].limit[p] : slot[p][i] \in S

\* No runs wait for each other's slots: whoever waits, somebody it waits for can go on.
NobodyWaitsInARing == \A S \in SUBSET Run : S # {} => \E r \in S : ~Waits(r, S)
==============================================================================
