------------------------- MODULE RunLifecycleProofs -------------------------
(***************************************************************************)
(* For any number of engines and commands: the workdir lock, the pid in    *)
(* run.json and the guard of a resume keep two engines from writing one    *)
(* record and an engine from undoing the work of another, but for --force  *)
(* and a command's save; a cancel stops only whom it was meant for; and a  *)
(* follower prints the end it read.                                        *)
(***************************************************************************)
EXTENDS RunLifecycle, TLAPS

------------------------------------------------------------------------------
(* Types *)

LEMMA CorrectedType == ASSUME NEW r \in Record PROVE Corrected(r) \in Record
BY DEF Record, Corrected, Statuses

LEMMA NoRecordType == NoRecord \in Record
<1>1. 0 \in 0..MaxWork /\ 0 \in 0..MaxEvents
  BY BoundAssumption
<1>2. QED
  BY <1>1 DEF NoRecord, Record, Statuses

LEMMA TypeInit == ASSUME Init PROVE TypeOK
<1>1. NoRecord \in Record /\ Created \in Record
  BY NoRecordType, EngineAssumption DEF Record, Created, Statuses
<1>2. 0 \in 0..MaxEvents
  BY BoundAssumption
<1>3. mem \in [Engine -> Record] /\ copy \in [Command -> Record] /\ read \in Record
  BY <1>1 DEF Init
<1>4. pc \in [Engine -> EnginePcs] /\ cpc \in [Command -> CommandPcs] /\ fpc \in FollowPcs
  BY DEF Init, EnginePcs, CommandPcs, FollowPcs
<1>5. QED
  BY <1>1, <1>2, <1>3, <1>4, EngineAssumption DEF Init, TypeOK

LEMMA LeaveType ==
  ASSUME TypeOK, NEW p \in Engine, NEW to \in EnginePcs, Leave(p, to)
  PROVE  /\ pc' \in [Engine -> EnginePcs] /\ mem' \in [Engine -> Record]
         /\ forced' \in [Engine -> BOOLEAN] /\ saw' \in [Engine -> BOOLEAN]
         /\ lock' \in Engine \union {Nobody}
<1>1. NoRecord \in Record
  BY NoRecordType
<1>2. QED
  BY <1>1 DEF Leave, Go, TypeOK

\* What a verdict makes of the record.
LEMMA EndRecord ==
  ASSUME NEW p \in Engine, End(p)
  PROVE  \E v \in Verdicts \union {"paused"} :
           /\ mem' = [mem EXCEPT ![p] = [mem[p] EXCEPT !.status = v,
                                                      !.pid = IF v = "paused" THEN p ELSE Nobody]]
           /\ flag' = (flag /\ v = "paused")
BY DEF End

LEMMA EngineTypeStep ==
  ASSUME TypeOK, NEW p \in Engine, EngineStep(p) \/ Crash(p) PROVE TypeOK'
<1> USE DEF TypeOK, Go, engineVars, commandVars, followVars
<1>1. CASE Ask(p)
  BY <1>1 DEF Ask, EnginePcs
<1>2. CASE TakeLock(p)
  <2>1. CASE lock = Nobody
    BY <1>2, <2>1 DEF TakeLock, EnginePcs
  <2>2. CASE lock # Nobody
    BY <1>2, <2>2, LeaveType DEF TakeLock, EnginePcs
  <2>3. QED
    BY <2>1, <2>2
<1>3. CASE Load(p)
  BY <1>3 DEF Load, EnginePcs
<1>4. CASE Refuse(p)
  BY <1>4, LeaveType DEF Refuse, EnginePcs
<1>5. CASE Accept(p)
  <2>1. mem[p] \in Record /\ 0 \in 0..MaxEvents
    BY BoundAssumption
  <2>2. Resumed(p) \in Record
    BY <2>1 DEF Resumed, Record, Statuses
  <2>3. QED
    BY <1>5, <2>2 DEF Accept, EnginePcs
<1>6. CASE Start(p) \/ Beat(p)
  <2>1. mem' = mem /\ file' = [mem[p] EXCEPT !.fresh = TRUE]
    BY <1>6 DEF Start, Beat, Save
  <2>2. mem[p] \in Record
    OBVIOUS
  <2>3. file' \in Record
    BY <2>1, <2>2 DEF Record
  <2>4. QED
    BY <1>6, <2>1, <2>3 DEF Start, Beat, EnginePcs
<1>7. CASE Work(p)
  <2>1. mem[p].done + 1 \in 0..MaxWork
    BY <1>7, BoundAssumption DEF Work, Record
  <2>2. [mem[p] EXCEPT !.done = mem[p].done + 1] \in Record
    BY <2>1 DEF Record
  <2>3. mem' = [mem EXCEPT ![p] = [mem[p] EXCEPT !.done = mem[p].done + 1]]
    BY <1>7 DEF Work
  <2>4. mem' \in [Engine -> Record]
    BY <2>2, <2>3
  <2>5. file' \in Record
    BY <1>7, <2>4 DEF Work, Save, Record
  <2>6. QED
    BY <1>7, <2>4, <2>5 DEF Work
<1>8. CASE SeeCancel(p)
  BY <1>8 DEF SeeCancel
<1>9. CASE End(p)
  <2>1. PICK v \in Verdicts \union {"paused"} :
          /\ mem' = [mem EXCEPT ![p] = [mem[p] EXCEPT !.status = v,
                                                     !.pid = IF v = "paused" THEN p ELSE Nobody]]
          /\ flag' = (flag /\ v = "paused")
    BY <1>9, EndRecord
  <2>2. mem' \in [Engine -> Record]
    <3>1. mem[p] \in Record /\ v \in Statuses
      BY DEF Statuses
    <3>2. ASSUME NEW o \in Engine \union {Nobody}
          PROVE  [mem[p] EXCEPT !.status = v, !.pid = o] \in Record
      BY <3>1 DEF Record
    <3>3. QED
      BY <2>1, <3>2
  <2>3. flag' \in BOOLEAN /\ meant' \subseteq Engine
    BY <1>9, <2>1 DEF End
  <2>4. QED
    BY <1>9, <2>2, <2>3 DEF End, EnginePcs
<1>10. CASE Release(p)
  BY <1>10 DEF Release, EnginePcs
<1>11. CASE Emit(p)
  <2>1. events' \in 0..MaxEvents
    BY <1>11, BoundAssumption DEF Emit
  <2>2. mem' \in [Engine -> Record]
    <3>1. [mem[p] EXCEPT !.closing = events'] \in Record
      BY <2>1 DEF Record
    <3>2. mem' = [mem EXCEPT ![p] = [mem[p] EXCEPT !.closing = events']]
      BY <1>11 DEF Emit
    <3>3. QED
      BY <3>1, <3>2
  <2>3. QED
    BY <1>11, <2>1, <2>2 DEF Emit, EnginePcs
<1>12. CASE SaveEnd(p)
  <2>1. file' \in Record
    BY <1>12 DEF SaveEnd, Record
  <2>2. QED
    BY <1>12, <2>1, LeaveType DEF SaveEnd, EnginePcs
<1>13. CASE Crash(p)
  BY <1>13, LeaveType DEF Crash, EnginePcs
<1>14. QED
  BY <1>1, <1>2, <1>3, <1>4, <1>5, <1>6, <1>7, <1>8, <1>9, <1>10, <1>11, <1>12, <1>13
     DEF EngineStep

LEMMA CommandTypeStep ==
  ASSUME TypeOK, NEW c \in Command, CommandStep(c) PROVE TypeOK'
<1> USE DEF TypeOK, CommandGo, engineVars, followVars
<1>1. CASE CommandLoad(c)
  <2>1. NoRecord \in Record /\ Corrected(file) \in Record
    BY NoRecordType, CorrectedType
  <2>2. QED
    BY <1>1, <2>1 DEF CommandLoad, CommandPcs
<1>2. CASE Reconcile(c)
  <2>1. NoRecord \in Record
    BY NoRecordType
  <2>2. QED
    BY <1>2, <2>1 DEF Reconcile, CommandSaves, CommandPcs
<1>3. CASE WriteFlag(c)
  <2>1. NoRecord \in Record
    BY NoRecordType
  <2>2. QED
    BY <1>3, <2>1 DEF WriteFlag, AtWork, Writers, CommandPcs
<1>4. CASE Mark(c)
  <2>1. events' \in 0..MaxEvents
    BY <1>4, BoundAssumption DEF Mark
  <2>2. [Corrected(copy[c]) EXCEPT !.status = "cancelled", !.closing = events'] \in Record
    BY <2>1, CorrectedType DEF Record, Statuses, Verdicts
  <2>3. QED
    BY <1>4, <2>1, <2>2 DEF Mark, CommandPcs
<1>5. CASE CommandSave(c)
  <2>1. NoRecord \in Record
    BY NoRecordType
  <2>2. QED
    BY <1>5, <2>1 DEF CommandSave, CommandSaves, CommandPcs
<1>6. QED
  BY <1>1, <1>2, <1>3, <1>4, <1>5 DEF CommandStep

LEMMA FollowTypeStep == ASSUME TypeOK, Follow \/ GoesStale PROVE TypeOK'
<1> USE DEF TypeOK, FollowGo, engineVars, commandVars, followVars
<1>1. NoRecord \in Record /\ Corrected(file) \in Record /\ [file EXCEPT !.fresh = FALSE] \in Record
  BY NoRecordType, CorrectedType DEF Record
<1>2. CASE FollowPoll \/ FollowDrain
  BY <1>1, <1>2 DEF FollowPoll, FollowDrain, FollowPcs
<1>3. CASE FollowLoad
  BY <1>1, <1>3 DEF FollowLoad, FollowPcs
<1>4. CASE FollowCorrect
  BY <1>4 DEF FollowCorrect, CommandSaves, FollowPcs
<1>5. CASE GoesStale
  BY <1>1, <1>5 DEF GoesStale
<1>6. QED
  BY <1>2, <1>3, <1>4, <1>5 DEF Follow

LEMMA TypeStep == ASSUME TypeOK, [Next]_vars PROVE TypeOK'
<1>1. CASE UNCHANGED vars
  BY <1>1 DEF vars, engineVars, commandVars, followVars, TypeOK
<1>2. QED
  BY <1>1, EngineTypeStep, CommandTypeStep, FollowTypeStep DEF Next

\* Every variable keeps its type, for any number of engines and commands.
THEOREM TypeCorrect == Spec => []TypeOK
<1>1. Init => TypeOK
  BY TypeInit
<1>2. TypeOK /\ [Next]_vars => TypeOK'
  BY TypeStep
<1>3. QED
  BY <1>1, <1>2, PTL DEF Spec

------------------------------------------------------------------------------
(* One engine writes *)

Holding == {"locked", "loaded", "prepared", "running", "ended"}

\* The workdir lock is held from before the record is loaded until after the verdict, and the
\* record an engine works on names it.
LockInv ==
  \A p \in Engine :
    /\ pc[p] \in Holding => lock = p
    /\ pc[p] \in {"prepared", "running"} => mem[p].status = "running" /\ mem[p].pid = p

LEMMA LockInvInit == ASSUME Init PROVE LockInv
BY EngineAssumption DEF Init, LockInv, Holding, Created, NoRecord

LEMMA LockInvStep == ASSUME TypeOK, LockInv, [Next]_vars PROVE LockInv'
<1> USE EngineAssumption DEF TypeOK, LockInv, Holding, Go
<1>1. ASSUME NEW p \in Engine, Ask(p) \/ Load(p) \/ Start(p) \/ Beat(p) \/ SeeCancel(p)
      PROVE  LockInv'
  BY <1>1 DEF Ask, Load, Start, Beat, SeeCancel
<1>2. ASSUME NEW p \in Engine, Leave(p, "idle") \/ Leave(p, "gone") PROVE LockInv'
  BY <1>2 DEF Leave
<1>3. ASSUME NEW p \in Engine, TakeLock(p) PROVE LockInv'
  BY <1>2, <1>3 DEF TakeLock
<1>4. ASSUME NEW p \in Engine, Accept(p) PROVE LockInv'
  <2>1. mem[p] \in Record
    OBVIOUS
  <2>2. Resumed(p).status = "running" /\ Resumed(p).pid = p
    BY <2>1 DEF Resumed, Record
  <2>3. QED
    BY <1>4, <2>2 DEF Accept
<1>5. ASSUME NEW p \in Engine, Work(p) PROVE LockInv'
  <2>1. mem[p] \in Record
    OBVIOUS
  <2>2. mem' = [mem EXCEPT ![p] = [mem[p] EXCEPT !.done = mem[p].done + 1]]
    BY <1>5 DEF Work
  <2>3. mem'[p].status = mem[p].status /\ mem'[p].pid = mem[p].pid
    BY <2>1, <2>2 DEF Record
  <2>4. QED
    BY <1>5, <2>2, <2>3 DEF Work
<1>6. ASSUME NEW p \in Engine, End(p) \/ Release(p) \/ Emit(p) PROVE LockInv'
  <2>1. pc'[p] \in {"ended", "released", "emitted"} /\ \A q \in Engine \ {p} : pc'[q] = pc[q]
    BY <1>6 DEF End, Release, Emit
  <2>2. \A q \in Engine \ {p} : mem'[q] = mem[q]
    <3>1. CASE End(p)
      BY <3>1 DEF End
    <3>2. CASE Release(p) \/ Emit(p)
      BY <3>2 DEF Release, Emit
    <3>3. QED
      BY <1>6, <3>1, <3>2
  <2>3. lock' = lock \/ (lock = p /\ lock' = Nobody /\ pc'[p] = "released")
    BY <1>6 DEF End, Release, Emit
  <2>4. pc'[p] \in Holding => lock = p /\ lock' = lock
    BY <1>6 DEF End, Release, Emit
  <2>5. QED
    BY <2>1, <2>2, <2>3, <2>4
<1>7. ASSUME NEW p \in Engine, Refuse(p) \/ SaveEnd(p) \/ Crash(p) PROVE LockInv'
  BY <1>2, <1>7 DEF Refuse, SaveEnd, Crash
<1>8. ASSUME NEW c \in Command, CommandStep(c) PROVE LockInv'
  BY <1>8 DEF CommandStep, CommandLoad, Reconcile, WriteFlag, Mark, CommandSave, engineVars
<1>9. CASE Follow \/ GoesStale \/ UNCHANGED vars
  BY <1>9 DEF Follow, FollowPoll, FollowLoad, FollowCorrect, FollowDrain, GoesStale, vars, engineVars
<1>10. QED
  BY <1>1, <1>3, <1>4, <1>5, <1>6, <1>7, <1>8, <1>9 DEF Next, EngineStep

\* But for --force and a save of a command: run.json names the engine that writes it, an engine
\* that has just loaded it sees that engine, one that goes on has it to itself, and all of them
\* have the step records run.json has.
AloneInv ==
  ~overridden /\ ~disowned =>
    /\ \A p \in Writers : file.status = "running" /\ file.pid = p
    /\ \A p \in Engine : pc[p] = "loaded" =>
         \A q \in Writers : mem[p].status = "running" /\ mem[p].pid = q
    /\ \A p \in Engine : pc[p] = "prepared" => Writers = {}
    /\ \A p \in AtWork : mem[p].done = file.done

LEMMA AloneInit == ASSUME Init PROVE AloneInv
BY EngineAssumption DEF Init, AloneInv, Writers, AtWork, Created, NoRecord

LEMMA AloneEngineStep ==
  ASSUME TypeOK, LockInv, AloneInv, NEW p \in Engine, EngineStep(p) \/ Crash(p)
  PROVE  AloneInv'
<1> USE DEF TypeOK, AloneInv, Writers, AtWork, Go
<1>1. CASE Ask(p) \/ SeeCancel(p) \/ Release(p)
  BY <1>1 DEF Ask, SeeCancel, Release
<1>2. ASSUME Leave(p, "idle") \/ Leave(p, "gone"), UNCHANGED <<file, overridden, disowned>>
      PROVE  AloneInv'
  BY <1>2 DEF Leave
<1>3. CASE TakeLock(p)
  BY <1>2, <1>3 DEF TakeLock
<1>4. CASE Refuse(p) \/ Crash(p)
  BY <1>2, <1>4 DEF Refuse, Crash
<1>5. CASE Load(p)
  BY <1>5 DEF Load
<1>6. CASE Accept(p)
  <2>1. SUFFICES ASSUME ~overridden', ~disowned' PROVE AloneInv'
    OBVIOUS
  <2>2. ~overridden /\ ~disowned /\ ~Guarded(p) /\ pc[p] = "loaded"
    BY <1>6, <2>1 DEF Accept
  <2>3. Writers = {}
    BY <2>2 DEF Guarded, Alive
  <2>4. /\ \A q \in Engine \ {p} : pc'[q] = pc[q] /\ mem'[q] = mem[q]
        /\ pc'[p] = "prepared" /\ mem'[p] = Resumed(p) /\ file' = file
    BY <1>6 DEF Accept
  <2>5. Writers' = {}
    BY <2>3, <2>4
  <2>6. mem[p] \in Record
    OBVIOUS
  <2>7. mem'[p].done = mem[p].done
    BY <2>4, <2>6 DEF Resumed, Record
  <2>8. QED
    BY <2>2, <2>4, <2>5, <2>7
<1>7. ASSUME lock = p PROVE \A q \in Engine \ {p} : pc[q] \notin {"loaded", "prepared", "running", "ended"}
  BY <1>7 DEF LockInv, Holding
<1>8. ASSUME ~overridden, ~disowned, p \in Writers PROVE Writers = {p}
  BY <1>8
<1>9. CASE Start(p)
  <2>1. SUFFICES ASSUME ~overridden, ~disowned PROVE AloneInv'
    BY <1>9 DEF Start
  <2>2. mem[p] \in Record /\ mem[p].status = "running" /\ mem[p].pid = p /\ lock = p
    BY <1>9 DEF Start, LockInv, Holding
  <2>3. file' = [mem[p] EXCEPT !.fresh = TRUE] /\ mem' = mem /\ pc' = [pc EXCEPT ![p] = "running"]
    BY <1>9 DEF Start, Save
  <2>4. file'.status = "running" /\ file'.pid = p /\ file'.done = mem[p].done
    BY <2>2, <2>3 DEF Record
  <2>5. Writers = {} /\ mem[p].done = file.done
    BY <1>9, <2>1 DEF Start
  <2>6. Writers' = {p} /\ AtWork' = {p}
    BY <1>7, <2>2, <2>3, <2>5
  <2>7. \A q \in Engine : pc'[q] \notin {"loaded", "prepared"}
    BY <1>7, <2>2, <2>3
  <2>8. QED
    BY <2>3, <2>4, <2>6, <2>7
<1>10. CASE Beat(p)
  <2>1. SUFFICES ASSUME ~overridden, ~disowned PROVE AloneInv'
    BY <1>10 DEF Beat
  <2>2. mem[p] \in Record /\ mem[p].status = "running" /\ mem[p].pid = p /\ lock = p
    BY <1>10 DEF Beat, LockInv, Holding
  <2>3. file' = [mem[p] EXCEPT !.fresh = TRUE] /\ mem' = mem /\ pc' = pc
    BY <1>10 DEF Beat, Save
  <2>4. file'.status = "running" /\ file'.pid = p /\ file'.done = mem[p].done
    BY <2>2, <2>3 DEF Record
  <2>5. Writers = {p}
    BY <1>8, <1>10, <2>1 DEF Beat
  <2>6. AtWork = {p} /\ \A q \in Engine : pc[q] \notin {"loaded", "prepared"}
    BY <1>7, <1>10, <2>2, <2>5 DEF Beat
  <2>7. QED
    BY <2>3, <2>4, <2>5, <2>6
<1>11. CASE Work(p)
  <2>1. SUFFICES ASSUME ~overridden, ~disowned PROVE AloneInv'
    BY <1>11 DEF Work
  <2>2. mem[p] \in Record /\ mem[p].status = "running" /\ mem[p].pid = p /\ lock = p
    BY <1>11 DEF Work, LockInv, Holding
  <2>3. /\ mem' = [mem EXCEPT ![p] = [mem[p] EXCEPT !.done = mem[p].done + 1]]
        /\ file' = [mem'[p] EXCEPT !.fresh = TRUE] /\ pc' = pc
    BY <1>11 DEF Work, Save
  <2>4. mem'[p] = [mem[p] EXCEPT !.done = mem[p].done + 1]
    BY <2>3
  <2>5. file'.status = "running" /\ file'.pid = p /\ file'.done = mem'[p].done
    BY <2>2, <2>3, <2>4 DEF Record
  <2>6. Writers = {p}
    BY <1>8, <1>11, <2>1 DEF Work
  <2>7. AtWork = {p} /\ \A q \in Engine : pc[q] \notin {"loaded", "prepared"}
    BY <1>7, <1>11, <2>2, <2>6 DEF Work
  <2>8. QED
    BY <2>3, <2>5, <2>6, <2>7
<1>12. CASE End(p) \/ Emit(p)
  <2>1. /\ pc[p] \in {"running", "released"} /\ pc'[p] \in {"ended", "emitted"}
        /\ \A q \in Engine \ {p} : pc'[q] = pc[q]
        /\ UNCHANGED <<file, overridden, disowned>>
    BY <1>12 DEF End, Emit
  <2>2. mem[p] \in Record
    OBVIOUS
  <2>3. mem'[p].done = mem[p].done /\ \A q \in Engine \ {p} : mem'[q] = mem[q]
    <3>1. CASE End(p)
      <4>1. PICK v \in Verdicts \union {"paused"} :
              mem' = [mem EXCEPT ![p] = [mem[p] EXCEPT !.status = v,
                                                     !.pid = IF v = "paused" THEN p ELSE Nobody]]
        BY <3>1, EndRecord
      <4>2. QED
        BY <2>2, <4>1 DEF Record
    <3>2. CASE Emit(p)
      <4>1. mem' = [mem EXCEPT ![p] = [mem[p] EXCEPT !.closing = events']]
        BY <3>2 DEF Emit
      <4>2. QED
        BY <2>2, <4>1 DEF Record
    <3>3. QED
      BY <1>12, <3>1, <3>2
  <2>4. Writers' = Writers /\ AtWork' = AtWork
    BY <2>1
  <2>5. \A q \in Engine : pc'[q] \in {"loaded", "prepared"} => pc'[q] = pc[q] /\ mem'[q] = mem[q]
    BY <2>1, <2>3
  <2>6. \A q \in AtWork : mem'[q].done = mem[q].done
    BY <2>3
  <2>7. QED
    BY <2>1, <2>4, <2>5, <2>6
<1>13. CASE SaveEnd(p)
  <2>1. SUFFICES ASSUME ~overridden, ~disowned PROVE AloneInv'
    BY <1>13 DEF SaveEnd
  <2>2. mem[p] \in Record /\ Writers = {p} /\ mem[p].done = file.done
    BY <1>8, <1>13, <2>1 DEF SaveEnd
  <2>3. file'.done = file.done
    BY <1>13, <2>2 DEF SaveEnd, Record
  <2>4. pc'[p] = "gone" /\ \A q \in Engine \ {p} : pc'[q] = pc[q] /\ mem'[q] = mem[q]
    BY <1>13 DEF SaveEnd, Leave
  <2>5. Writers' = {} /\ AtWork' \subseteq AtWork \ {p}
    BY <2>2, <2>4
  <2>6. QED
    BY <2>1, <2>3, <2>4, <2>5
<1>14. QED
  BY <1>1, <1>3, <1>4, <1>5, <1>6, <1>9, <1>10, <1>11, <1>12, <1>13 DEF EngineStep

LEMMA AloneStep ==
  ASSUME TypeOK, LockInv, AloneInv, [Next]_vars PROVE AloneInv'
<1> USE DEF TypeOK, AloneInv
<1>1. ASSUME NEW c \in Command, CommandStep(c) PROVE AloneInv'
  <2>1. UNCHANGED <<pc, mem, overridden>>
    BY <1>1 DEF CommandStep, CommandLoad, Reconcile, WriteFlag, Mark, CommandSave, engineVars
  <2>2. \/ UNCHANGED <<file, disowned>>
        \/ disowned' = (disowned \/ AtWork # {})
    BY <1>1 DEF CommandStep, CommandLoad, Reconcile, WriteFlag, Mark, CommandSave, CommandSaves
  <2>3. AtWork' = AtWork /\ Writers' = Writers /\ Writers \subseteq AtWork
    BY <2>1 DEF AtWork, Writers
  <2>4. \A p \in Engine : pc[p] \in {"loaded", "prepared"} => p \in AtWork
    BY DEF AtWork
  <2>5. QED
    BY <2>1, <2>2, <2>3, <2>4
<1>2. CASE Follow
  <2>1. UNCHANGED <<pc, mem, overridden>>
    BY <1>2 DEF Follow, FollowPoll, FollowLoad, FollowCorrect, FollowDrain, engineVars
  <2>2. \/ UNCHANGED <<file, disowned>>
        \/ disowned' = (disowned \/ AtWork # {})
    BY <1>2 DEF Follow, FollowPoll, FollowLoad, FollowCorrect, FollowDrain, CommandSaves
  <2>3. AtWork' = AtWork /\ Writers' = Writers /\ Writers \subseteq AtWork
    BY <2>1 DEF AtWork, Writers
  <2>4. \A p \in Engine : pc[p] \in {"loaded", "prepared"} => p \in AtWork
    BY DEF AtWork
  <2>5. QED
    BY <2>1, <2>2, <2>3, <2>4
<1>3. CASE GoesStale
  <2>1. UNCHANGED <<pc, mem, overridden, disowned>> /\ file' = [file EXCEPT !.fresh = FALSE]
    BY <1>3 DEF GoesStale, engineVars
  <2>2. file'.status = file.status /\ file'.pid = file.pid /\ file'.done = file.done
    BY <2>1 DEF Record
  <2>3. QED
    BY <2>1, <2>2 DEF AtWork, Writers
<1>4. CASE UNCHANGED vars
  BY <1>4 DEF vars, engineVars, AtWork, Writers
<1>5. QED
  BY <1>1, <1>2, <1>3, <1>4, AloneEngineStep DEF Next

EngineInv == TypeOK /\ LockInv /\ AloneInv

LEMMA EngineInvariant == Spec => []EngineInv
<1>1. Init => EngineInv
  BY TypeInit, LockInvInit, AloneInit DEF EngineInv
<1>2. EngineInv /\ [Next]_vars => EngineInv'
  BY TypeStep, LockInvStep, AloneStep DEF EngineInv
<1>3. QED
  BY <1>1, <1>2, PTL DEF Spec

\* _acquire_lock, _prepare_record and _release_lock: two engines write one record only after
\* --force or a command's save, and then one of them is past its verdict.
THEOREM OneEngineWrites == Spec => []OneWriter
<1>1. ASSUME EngineInv PROVE OneWriter
  <2>1. ASSUME NEW p \in Writers, NEW q \in Writers, p # q
        PROVE  {pc[p], pc[q]} \intersect {"released", "emitted"} # {}
    BY <1>1, <2>1 DEF EngineInv, LockInv, Holding, Writers
  <2>2. ASSUME NEW p \in Writers, NEW q \in Writers, p # q
        PROVE  overridden \/ disowned
    BY <1>1, <2>2 DEF EngineInv, AloneInv
  <2>3. QED
    BY <2>1, <2>2 DEF OneWriter
<1>2. QED
  BY <1>1, EngineInvariant, PTL

LEMMA EngineKeepsStep ==
  ASSUME EngineInv, NEW p \in Engine, EngineStep(p), ~disowned, ~overridden
  PROVE  file'.done >= file.done
<1> USE DEF EngineInv, TypeOK, AloneInv
<1>1. file.done \in Nat /\ mem[p] \in Record /\ (p \in AtWork => mem[p].done = file.done)
  BY BoundAssumption DEF Record
<1>2. CASE Start(p) \/ Beat(p) \/ SaveEnd(p)
  <2>1. p \in AtWork /\ file' = [mem[p] EXCEPT !.fresh = TRUE]
    BY <1>2 DEF Start, Beat, SaveEnd, Save, AtWork, Writers
  <2>2. QED
    BY <1>1, <2>1 DEF Record
<1>3. CASE Work(p)
  <2>1. /\ p \in AtWork /\ file' = [mem'[p] EXCEPT !.fresh = TRUE]
        /\ mem'[p] = [mem[p] EXCEPT !.done = mem[p].done + 1]
    BY <1>3 DEF Work, Save, AtWork, Writers
  <2>2. file'.done = mem[p].done + 1
    BY <1>1, <2>1 DEF Record
  <2>3. QED
    BY <1>1, <2>1, <2>2
<1>4. CASE UNCHANGED file
  BY <1>1, <1>4
<1>5. QED
  BY <1>2, <1>3, <1>4
     DEF EngineStep, Ask, TakeLock, Load, Refuse, Accept, SeeCancel, End, Release, Emit

\* The save of a whole record: but for --force and a command's save no engine takes back step
\* records run.json holds, however the engine before it ended.
THEOREM EnginesKeepWork == Spec => EngineKeepsWork
<1>1. EngineInv => ((\E p \in Engine : EngineStep(p)) /\ ~disowned /\ ~overridden
                      => file'.done >= file.done)
  BY EngineKeepsStep
<1>2. QED
  BY <1>1, EngineInvariant, PTL DEF EngineKeepsWork

------------------------------------------------------------------------------
(* A cancel is for whoever is at work *)

\* An engine that passes the flag on to itself clears it before it saves the record.
CancelInv ==
  flag => \A p \in Engine : pc[p] = "prepared" \/ p \in Writers => p \in meant

LEMMA CancelInvStep == ASSUME TypeOK, CancelInv, [Next]_vars PROVE CancelInv'
<1> USE DEF TypeOK, CancelInv, Writers, Go
<1>1. ASSUME NEW p \in Engine, EngineStep(p) \/ Crash(p) PROVE CancelInv'
  <2>1. CASE Accept(p)
    BY <2>1 DEF Accept
  <2>2. CASE End(p)
    <3>1. flag' => flag /\ meant' = meant
      BY <2>2 DEF End
    <3>2. pc' = [pc EXCEPT ![p] = "ended"] /\ pc[p] = "running"
      BY <2>2 DEF End
    <3>3. QED
      BY <3>1, <3>2
  <2>3. CASE Ask(p) \/ TakeLock(p) \/ Load(p) \/ Refuse(p) \/ SaveEnd(p) \/ Crash(p)
    BY <2>3 DEF Ask, TakeLock, Load, Refuse, SaveEnd, Crash, Leave
  <2>4. CASE Start(p) \/ Beat(p) \/ Work(p) \/ SeeCancel(p) \/ Release(p) \/ Emit(p)
    BY <2>4 DEF Start, Beat, Work, SeeCancel, Release, Emit
  <2>5. QED
    BY <1>1, <2>1, <2>2, <2>3, <2>4 DEF EngineStep
<1>2. ASSUME NEW c \in Command, CommandStep(c) PROVE CancelInv'
  <2>1. CASE WriteFlag(c)
    BY <2>1 DEF WriteFlag, AtWork, engineVars
  <2>2. CASE CommandLoad(c) \/ Reconcile(c) \/ Mark(c) \/ CommandSave(c)
    BY <2>2 DEF CommandLoad, Reconcile, Mark, CommandSave, engineVars
  <2>3. QED
    BY <1>2, <2>1, <2>2 DEF CommandStep
<1>3. CASE Follow \/ GoesStale \/ UNCHANGED vars
  BY <1>3 DEF Follow, FollowPoll, FollowLoad, FollowCorrect, FollowDrain, GoesStale, vars, engineVars
<1>4. QED
  BY <1>1, <1>2, <1>3 DEF Next

\* clear_cancel_flag in _prepare_record and _finalize: an engine sees only a request that was
\* written while it was at work.
THEOREM CancelHitsItsEngine == Spec => CancelIsForThisEngine
<1>1. Init => TypeOK /\ CancelInv
  BY TypeInit DEF Init, CancelInv
<1>2. TypeOK /\ CancelInv /\ [Next]_vars => (TypeOK /\ CancelInv)'
  BY TypeStep, CancelInvStep
<1>3. CancelInv => \A p \in Engine : SeeCancel(p) => p \in meant
  BY DEF CancelInv, SeeCancel, Writers
<1>4. QED
  BY <1>1, <1>2, <1>3, PTL DEF Spec, CancelIsForThisEngine

------------------------------------------------------------------------------
(* The follower *)

\* No record is announced by a line that is not in the log yet.
ClosingInv ==
  /\ file.closing <= events /\ read.closing <= events
  /\ \A p \in Engine : mem[p].closing <= events
  /\ \A c \in Command : copy[c].closing <= events
  /\ fpc = "done" => seen >= read.closing

LEMMA NoRecordClosing == NoRecord.closing = 0 /\ \A r \in Record : Corrected(r).closing = r.closing
BY DEF NoRecord, Corrected, Record

LEMMA ClosingEngineStep ==
  ASSUME TypeOK, ClosingInv, NEW p \in Engine, EngineStep(p) \/ Crash(p) PROVE ClosingInv'
<1> USE DEF TypeOK, ClosingInv, Go, commandVars, followVars
<1>1. events \in Nat /\ mem[p] \in Record /\ \A r \in Record : r.closing \in Nat
  BY BoundAssumption DEF Record
<1>2. UNCHANGED <<copy, fpc, seen, read>>
  BY DEF EngineStep, Ask, TakeLock, Load, Refuse, Accept, Start, Beat, Work, SeeCancel, End,
         Release, Emit, SaveEnd, Crash
<1>3. ASSUME Leave(p, "idle") \/ Leave(p, "gone"), events' = events,
             file' = file \/ file'.closing = mem[p].closing
      PROVE  ClosingInv'
  <2>1. mem' = [mem EXCEPT ![p] = NoRecord] /\ NoRecord.closing <= events
    BY <1>1, <1>3, NoRecordClosing DEF Leave
  <2>2. \A q \in Engine : mem'[q].closing <= events
    BY <2>1
  <2>3. file'.closing <= events
    BY <1>3
  <2>4. QED
    BY <1>2, <1>3, <2>2, <2>3
<1>4. CASE Refuse(p) \/ Crash(p)
  BY <1>3, <1>4 DEF Refuse, Crash
<1>5. CASE TakeLock(p)
  BY <1>2, <1>3, <1>5 DEF TakeLock
<1>6. CASE SaveEnd(p)
  BY <1>1, <1>3, <1>6 DEF SaveEnd, Record
<1>7. CASE Ask(p) \/ Load(p) \/ SeeCancel(p) \/ Release(p)
  BY <1>2, <1>7 DEF Ask, Load, SeeCancel, Release
<1>8. CASE Accept(p)
  <2>1. Resumed(p).closing = 0
    BY <1>1 DEF Resumed, Record
  <2>2. QED
    BY <1>1, <1>2, <1>8, <2>1 DEF Accept
<1>9. CASE Start(p) \/ Beat(p)
  <2>1. mem' = mem /\ file'.closing = mem[p].closing /\ events' = events
    BY <1>1, <1>9 DEF Start, Beat, Save, Record
  <2>2. QED
    BY <1>2, <2>1
<1>10. CASE Work(p)
  <2>1. /\ mem' = [mem EXCEPT ![p] = [mem[p] EXCEPT !.done = mem[p].done + 1]]
        /\ file' = [mem'[p] EXCEPT !.fresh = TRUE] /\ events' = events
    BY <1>10 DEF Work, Save
  <2>2. mem'[p] = [mem[p] EXCEPT !.done = mem[p].done + 1]
    BY <2>1
  <2>3. mem'[p].closing = mem[p].closing /\ file'.closing = mem[p].closing
    BY <1>1, <2>1, <2>2 DEF Record
  <2>4. QED
    BY <1>2, <2>1, <2>3
<1>11. CASE End(p)
  <2>1. PICK v \in Verdicts \union {"paused"} :
          mem' = [mem EXCEPT ![p] = [mem[p] EXCEPT !.status = v,
                                                 !.pid = IF v = "paused" THEN p ELSE Nobody]]
    BY <1>11, EndRecord
  <2>2. mem'[p].closing = mem[p].closing
    BY <1>1, <2>1 DEF Record
  <2>3. file' = file /\ events' = events
    BY <1>11 DEF End
  <2>4. QED
    BY <1>2, <2>1, <2>2, <2>3
<1>12. CASE Emit(p)
  <2>1. events' = events + 1 /\ file' = file
        /\ mem' = [mem EXCEPT ![p] = [mem[p] EXCEPT !.closing = events']]
    BY <1>12 DEF Emit
  <2>2. mem'[p].closing = events'
    BY <1>1, <2>1 DEF Record
  <2>3. \A q \in Engine : mem[q].closing <= events'
    BY <1>1, <2>1
  <2>4. QED
    BY <1>1, <1>2, <2>1, <2>2, <2>3
<1>13. QED
  BY <1>4, <1>5, <1>6, <1>7, <1>8, <1>9, <1>10, <1>11, <1>12 DEF EngineStep

LEMMA ClosingStep == ASSUME TypeOK, ClosingInv, [Next]_vars PROVE ClosingInv'
<1> USE NoRecordClosing DEF TypeOK, ClosingInv, engineVars
<1>1. events \in Nat
  BY BoundAssumption
<1>2. ASSUME NEW c \in Command, CommandStep(c) PROVE ClosingInv'
  <2>1. CASE CommandLoad(c)
    BY <1>1, <2>1 DEF CommandLoad, CommandGo, followVars
  <2>2. CASE Reconcile(c) \/ WriteFlag(c) \/ CommandSave(c)
    BY <1>1, <2>2 DEF Reconcile, WriteFlag, CommandSave, CommandSaves, CommandGo, followVars
  <2>3. CASE Mark(c)
    <3>1. Corrected(copy[c]) \in Record
      BY CorrectedType
    <3>2. [Corrected(copy[c]) EXCEPT !.status = "cancelled", !.closing = events'].closing = events'
      BY <3>1 DEF Record
    <3>3. events' = events + 1 /\ UNCHANGED <<file, mem, fpc, seen, read>>
      BY <2>3 DEF Mark, followVars
    <3>4. \A d \in Command : copy'[d].closing <= events'
      BY <1>1, <2>3, <3>2, <3>3 DEF Mark, CommandGo, Record
    <3>5. QED
      BY <1>1, <3>3, <3>4 DEF Record
  <2>4. QED
    BY <1>2, <2>1, <2>2, <2>3 DEF CommandStep
<1>3. CASE FollowPoll \/ FollowLoad \/ FollowDrain
  BY <1>1, <1>3 DEF FollowPoll, FollowLoad, FollowDrain, FollowGo, commandVars
<1>4. CASE FollowCorrect
  BY <1>4 DEF FollowCorrect, CommandSaves, FollowGo, commandVars
<1>5. CASE GoesStale
  <2>1. file'.closing = file.closing
    BY <1>5 DEF GoesStale, Record
  <2>2. QED
    BY <1>5, <2>1 DEF GoesStale, commandVars, followVars
<1>6. CASE UNCHANGED vars
  BY <1>6 DEF vars, commandVars, followVars
<1>7. QED
  BY <1>2, <1>3, <1>4, <1>5, <1>6, ClosingEngineStep DEF Next, Follow

\* run.finished is appended before run.json turns terminal, by engines and by cancel alike: a
\* follower that has read the end of a run and drains the log once more has printed its last line.
THEOREM FollowersSeeTheEnd == Spec => []FollowerSawTheEnd
<1>1. Init => TypeOK /\ ClosingInv
  <2> SUFFICES ASSUME Init PROVE TypeOK /\ ClosingInv
    OBVIOUS
  <2>1. Created.closing = 0 /\ NoRecord.closing = 0
    BY DEF Created, NoRecord
  <2>2. file.closing = 0 /\ read.closing = 0 /\ events = 0 /\ fpc = "poll"
    BY <2>1 DEF Init
  <2>3. (\A p \in Engine : mem[p].closing = 0) /\ \A c \in Command : copy[c].closing = 0
    BY <2>1 DEF Init
  <2>4. QED
    BY <2>2, <2>3, TypeInit DEF ClosingInv
<1>2. TypeOK /\ ClosingInv /\ [Next]_vars => (TypeOK /\ ClosingInv)'
  BY TypeStep, ClosingStep
<1>3. ClosingInv => FollowerSawTheEnd
  BY DEF ClosingInv, FollowerSawTheEnd
<1>4. QED
  BY <1>1, <1>2, <1>3, PTL DEF Spec
==============================================================================
