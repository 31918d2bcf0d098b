-------------------------- MODULE WorkdirLockProofs --------------------------
(***************************************************************************)
(* For any number of runs and commands: a lock file names whoever holds    *)
(* it, and two runs never share a directory unless it was unlinked - by    *)
(* itself (Spec) and among everything done to the worktree (WtSpec).       *)
(***************************************************************************)
EXTENDS Worktrees, TLAPS

Locking == {"write", "held", "unlink", "truncate", "unlock"}
Opened  == Locking \union {"flock"}
Named   == {"held", "unlink", "truncate"}
GitPcs  == {"remove", "delete", "drop"} \* of worktrees clean, before it opens the lock file

\* What each process knows of the file it has open.
FileInv ==
  /\ pc \in [Proc -> Pcs \union GitPcs] /\ fd \in [Proc -> {0} \union File]
  /\ path \in {0} \union File /\ made \in {0} \union File
  /\ owner \in [File -> Proc \union {Nil}] /\ content \in [File -> Proc \union {Nil}]
  /\ \A p \in Proc : /\ pc[p] \in Opened  => fd[p] \in File
                     /\ pc[p] \in Locking => owner[fd[p]] = p
                     /\ pc[p] \in Named   => content[fd[p]] = p

LEMMA FileInit == Init => FileInv
BY DEF Init, FileInv, Pcs, GitPcs, Opened, Locking, Named

LEMMA FileStep == ASSUME FileInv, [Next]_vars PROVE FileInv'
<1> USE RolesAssumption DEF FileInv, Go, GitPcs, Opened, Locking, Named
<1>1. ASSUME NEW p \in Proc, Start(p) PROVE FileInv'
  BY <1>1 DEF Start, Pcs
<1>2. ASSUME NEW p \in Proc, Open(p) PROVE FileInv'
  <2>1. made' \in {0} \union File /\ path' \in File
    BY <1>2, FilesAssumption DEF Open, File
  <2>2. QED
    BY <1>2, <2>1 DEF Open, Pcs
<1>3. ASSUME NEW p \in Proc, Flock(p) PROVE FileInv'
  BY <1>3 DEF Flock, Pcs
<1>4. ASSUME NEW p \in Proc, Refused(p) PROVE FileInv'
  BY <1>4 DEF Refused, Close, Pcs
<1>5. ASSUME NEW p \in Proc, Write(p) PROVE FileInv'
  BY <1>5 DEF Write, Close, Pcs
<1>6. ASSUME NEW p \in Proc, Leave(p) PROVE FileInv'
  BY <1>6 DEF Leave, Pcs
<1>7. ASSUME NEW p \in Proc, Unlink(p) PROVE FileInv'
  BY <1>7 DEF Unlink, Pcs
<1>8. ASSUME NEW p \in Proc, Truncate(p) PROVE FileInv'
  BY <1>8 DEF Truncate, Pcs
<1>9. ASSUME NEW p \in Proc, Unlock(p) PROVE FileInv'
  BY <1>9 DEF Unlock, Close, Pcs
<1>10. ASSUME NEW p \in Proc, Die(p) PROVE FileInv'
  BY <1>10 DEF Die, Close, Pcs
<1>11. CASE UNCHANGED vars
  BY <1>11 DEF vars
<1>12. QED
  BY <1>1, <1>2, <1>3, <1>4, <1>5, <1>6, <1>7, <1>8, <1>9, <1>10, <1>11 DEF Next, Step

LEMMA NamedWhileHeld == FileInv => HolderIsNamed
BY DEF FileInv, HolderIsNamed, Held, Opened, Locking, Named

\* PathLock.acquire and release: whatever other processes do to the path, the file a process
\* has locked names it until it empties it itself, under the lock.
THEOREM LockNamesItsHolder == Spec => []HolderIsNamed
<1>1. FileInv /\ [Next]_vars => FileInv'
  BY FileStep
<1>2. QED
  BY FileInit, <1>1, NamedWhileHeld, PTL DEF Spec

\* Without a cleaner the path names one file for ever, and every descriptor is of that file.
OneFile == /\ \A p \in Proc : fd[p] \in {0, path}
           /\ path = 0 => \A p \in Proc : pc[p] \notin Opened
           /\ \A p \in Proc : pc[p] # "unlink"

LEMMA OneFileStep ==
  ASSUME Cleaner = {}, FileInv, OneFile, [Next]_vars PROVE OneFile'
<1> USE DEF FileInv, OneFile, Go, Opened, Locking
<1>1. ASSUME NEW p \in Proc, Open(p) PROVE OneFile'
  <2>1. path # 0 => path' = path
    BY <1>1 DEF Open
  <2>2. path' \in File /\ 0 \notin File
    BY <1>1, FilesAssumption DEF Open, File
  <2>3. \A q \in Proc : fd'[q] \in {0, path'}
    BY <1>1, <2>1 DEF Open
  <2>4. QED
    BY <1>1, <2>2, <2>3 DEF Open, Pcs
<1>2. ASSUME NEW p \in Proc, Unlink(p) PROVE OneFile'
  BY <1>2 DEF Unlink
<1>3. ASSUME NEW p \in Proc,
             Start(p) \/ Flock(p) \/ Refused(p) \/ Write(p) \/ Leave(p) \/ Truncate(p)
               \/ Unlock(p) \/ Die(p)
      PROVE OneFile'
  <2>1. path' = path /\ \A q \in Proc : fd'[q] \in {fd[q], 0}
    BY <1>3 DEF Start, Flock, Refused, Write, Leave, Truncate, Unlock, Die, Close
  <2>2. QED
    BY <1>3, <2>1 DEF Start, Flock, Refused, Write, Leave, Truncate, Unlock, Die, Pcs
<1>4. CASE UNCHANGED vars
  BY <1>4 DEF vars
<1>5. QED
  BY <1>1, <1>2, <1>3, <1>4 DEF Next, Step

\* lock.py: two runs never share a working directory - proved for any number of runs and cancel
\* commands, as long as no clean command unlinks the file.
THEOREM ExclusionWithoutUnlink == ASSUME Cleaner = {} PROVE Spec => []MutualExclusion
<1>1. Init => OneFile
  BY DEF Init, OneFile, Opened, Locking
<1>2. FileInv /\ OneFile /\ [Next]_vars => FileInv' /\ OneFile'
  BY FileStep, OneFileStep
<1>3. FileInv /\ OneFile => MutualExclusion
  <2>1. 0 \notin File
    BY DEF File
  <2>2. QED
    BY <2>1 DEF FileInv, OneFile, MutualExclusion, Held, Locking, Opened, Proc
<1>4. QED
  BY FileInit, <1>1, <1>2, <1>3, PTL DEF Spec

\* No descriptor is of a file the path has not named yet.
MadeInv == path <= made /\ \A p \in Proc : fd[p] <= made

LEMMA MadeStep == ASSUME FileInv, MadeInv, [Next]_vars PROVE MadeInv'
<1> USE DEF FileInv, MadeInv, Go, File
<1>1. ASSUME NEW p \in Proc, Open(p) PROVE MadeInv'
  <2>1. made <= made' /\ path' <= made'
    BY <1>1, FilesAssumption DEF Open
  <2>2. made \in Nat /\ made' \in Nat /\ path' \in Nat /\ \A q \in Proc : fd[q] \in Nat
    BY <1>1, FilesAssumption DEF Open
  <2>3. \A q \in Proc : fd'[q] \in {fd[q], path'}
    BY <1>1 DEF Open
  <2>4. QED
    BY <2>1, <2>2, <2>3
<1>2. ASSUME NEW p \in Proc, Step(p), ~Open(p) PROVE MadeInv'
  <2>1. made' = made /\ path' \in {0, path} /\ \A q \in Proc : fd'[q] \in {fd[q], 0}
    BY <1>2 DEF Step, Start, Flock, Refused, Write, Leave, Unlink, Truncate, Unlock, Die, Close
  <2>2. QED
    BY <2>1, FilesAssumption
<1>3. CASE UNCHANGED vars
  BY <1>3 DEF vars
<1>4. QED
  BY <1>1, <1>2, <1>3 DEF Next

LEMMA OpenedOnce == FileInv /\ MadeInv => SharedOnlyIfRemade
<1>1. SUFFICES ASSUME FileInv, MadeInv, made <= 1,
                      NEW p \in Held \intersect Runner, NEW q \in Held \intersect Runner
               PROVE  p = q
  BY DEF SharedOnlyIfRemade, MutualExclusion
<1>2. fd[p] \in File /\ fd[q] \in File /\ owner[fd[p]] = p /\ owner[fd[q]] = q
  BY <1>1 DEF FileInv, Held, Locking, Opened, Proc
<1>3. fd[p] = 1 /\ fd[q] = 1
  BY <1>1, <1>2, FilesAssumption DEF FileInv, MadeInv, Proc, File, Held
<1>4. QED
  BY <1>2, <1>3

\* worktrees clean included: two runs share a directory only once its lock file was unlinked
\* and made anew, which is the one way lock.py's promise can break.
THEOREM SharedMeansRemade == Spec => []SharedOnlyIfRemade
<1>1. Init => MadeInv
  BY DEF Init, MadeInv
<1>2. FileInv /\ MadeInv /\ [Next]_vars => FileInv' /\ MadeInv'
  BY FileStep, MadeStep
<1>3. QED
  BY FileInit, <1>1, <1>2, OpenedOnce, PTL DEF Spec

------------------------------------------------------------------------------
\* The same of the whole worktree: its git commands and edits leave the lock file alone.

\* What no step but a lock step does: touch the lock file, or enter its protocol past "open".
Aside == /\ UNCHANGED lock
         /\ \E p \in Proc : /\ pc[p] \in {"idle"} \union GitPcs
                            /\ \E to \in {"idle", "open"} \union GitPcs : Go(p, to)

LEMMA WtStep == ASSUME WtNext PROVE Next \/ Aside \/ UNCHANGED vars
<1>1. ASSUME NEW p \in Proc, Resume(p) \/ ClearLock(p) \/ LockStep(p) PROVE Next
  BY <1>1 DEF Resume, ClearLock, LockStep, Next, Step
<1>2. ASSUME NEW p \in Proc,
             Create(p) \/ List(p) \/ RemoveTree(p) \/ DeleteBranch(p) \/ Skipped(p) \/ DropLock(p)
      PROVE Aside
  BY <1>2 DEF Create, List, RemoveTree, DeleteBranch, Skipped, DropLock, Aside, GitPcs
<1>3. ASSUME Edit \/ Commit \/ Merge \/ RemoveByHand \/ Pin \/ Recreate PROVE UNCHANGED vars
  BY <1>3 DEF Edit, Commit, Merge, RemoveByHand, Pin, Recreate
<1>4. QED
  BY <1>1, <1>2, <1>3 DEF WtNext

LEMMA WtInvStep ==
  ASSUME FileInv, MadeInv, [WtNext]_wtVars PROVE FileInv' /\ MadeInv'
<1>1. CASE [Next]_vars
  BY <1>1, FileStep, MadeStep
<1>2. CASE Aside
  <2>1. UNCHANGED <<fd, path, made, owner, content>>
    BY <1>2 DEF Aside, lock
  <2>2. \A p \in Proc : pc'[p] \in Opened => pc'[p] = pc[p]
    BY <1>2 DEF Aside, Go, FileInv, Opened, Locking, GitPcs
  <2>3. pc' \in [Proc -> Pcs \union GitPcs]
    BY <1>2 DEF Aside, Go, FileInv, Pcs, GitPcs
  <2>4. QED
    BY <2>1, <2>2, <2>3 DEF FileInv, MadeInv, Opened, Locking, Named
<1>3. QED
  BY <1>1, <1>2, WtStep DEF wtVars

\* PathLock among everything done to the worktree: two processes of the run work in it at once
\* only after worktrees clean has unlinked its lock file, and a holder is named all along.
THEOREM WorktreeShared == WtSpec => [](SharedOnlyIfRemade /\ HolderIsNamed)
<1>1. WtInit => FileInv /\ MadeInv
  BY FileInit DEF WtInit, Init, MadeInv
<1>2. FileInv /\ MadeInv /\ [WtNext]_wtVars => FileInv' /\ MadeInv'
  BY WtInvStep
<1>3. FileInv /\ MadeInv => SharedOnlyIfRemade /\ HolderIsNamed
  BY OpenedOnce, NamedWhileHeld
<1>4. QED
  BY <1>1, <1>2, <1>3, PTL DEF WtSpec

\* What a clean without --force goes by is still true when it acts, but for later commits.
CleanInv ==
  /\ pc \in [Proc -> Pcs \union GitPcs]
  /\ tip \in Nat /\ merged \in Nat /\ merged <= tip
  /\ force \in [Cleaner -> BOOLEAN] /\ seen \in [Cleaner -> [gone : BOOLEAN, tip : Nat]]
  /\ \A c \in Cleaner : pc[c] \in {"remove", "delete"} =>
       force[c] \/ seen[c].gone \/ seen[c].tip <= merged

LEMMA CleanInit == WtInit => CleanInv
BY DEF WtInit, Init, CleanInv, Nothing, Pcs

LEMMA CleanStep == ASSUME CleanInv, FileInv, [WtNext]_wtVars PROVE CleanInv'
<1> USE DEF CleanInv
<1>1. ASSUME NEW c \in Cleaner, List(c) PROVE CleanInv'
  <2>1. PICK forced, mergedOnly \in BOOLEAN :
          Candidate(forced, mergedOnly) /\ force' = [force EXCEPT ![c] = forced]
    BY <1>1 DEF List
  <2>2. forced \/ Gone \/ tip <= merged
    BY <2>1 DEF Candidate, IsMerged
  <2>3. seen' = [seen EXCEPT ![c] = [gone |-> Gone, tip |-> tip]] /\ UNCHANGED <<tip, merged>>
    BY <1>1 DEF List, git
  <2>4. Gone \in BOOLEAN
    BY DEF Gone
  <2>5. pc' = [pc EXCEPT ![c] = "remove"]
    BY <1>1 DEF List, Go
  <2>6. QED
    BY <2>1, <2>2, <2>3, <2>4, <2>5 DEF GitPcs, Proc
<1>2. ASSUME NEW p \in Proc,
             Create(p) \/ Resume(p) \/ ClearLock(p) \/ LockStep(p) \/ RemoveTree(p) \/ DeleteBranch(p)
      PROVE CleanInv'
  <2>1. UNCHANGED <<tip, merged, force, seen>>
    BY <1>2 DEF Create, Resume, ClearLock, LockStep, RemoveTree, DeleteBranch, git, cmd
  <2>2. pc' \in [Proc -> Pcs \union GitPcs] /\ \A c \in Cleaner :
          pc'[c] \in {"remove", "delete"} => pc[c] \in {"remove", "delete"}
    BY <1>2, RolesAssumption DEF Create, Resume, ClearLock, LockStep, RemoveTree, DeleteBranch, Go, Proc,
       Start, Open, Flock, Refused, Write, Leave, Unlink, Truncate, Unlock, Die, Pcs, GitPcs
  <2>3. QED
    BY <2>1, <2>2
<1>3. ASSUME NEW c \in Cleaner, Skipped(c) \/ DropLock(c) PROVE CleanInv'
  <2>1. UNCHANGED <<tip, merged>> /\ Nothing \in [gone : BOOLEAN, tip : Nat]
    BY <1>3 DEF Skipped, DropLock, git, Nothing
  <2>2. /\ force' = [force EXCEPT ![c] = FALSE]
        /\ seen' = [seen EXCEPT ![c] = Nothing]
    BY <1>3 DEF Skipped, DropLock, Forget
  <2>3. \E to \in {"idle", "open"} : pc' = [pc EXCEPT ![c] = to]
    BY <1>3 DEF Skipped, DropLock, Go
  <2>4. pc' \in [Proc -> Pcs \union GitPcs]
    BY <2>3 DEF Pcs
  <2>5. \A d \in Cleaner : pc'[d] \in {"remove", "delete"} =>
          d # c /\ pc[d] \in {"remove", "delete"} /\ force'[d] = force[d] /\ seen'[d] = seen[d]
    BY <2>2, <2>3 DEF Proc
  <2>6. /\ force' \in [Cleaner -> BOOLEAN]
        /\ seen' \in [Cleaner -> [gone : BOOLEAN, tip : Nat]]
    BY <2>1, <2>2
  <2>7. QED
    BY <2>1, <2>4, <2>5, <2>6
<1>4. CASE Commit \/ Merge
  BY <1>4 DEF Commit, Merge, cmd, vars
<1>5. CASE Edit \/ RemoveByHand \/ Pin \/ Recreate \/ UNCHANGED wtVars
  BY <1>5 DEF Edit, RemoveByHand, Pin, Recreate, cmd, vars, wtVars, git
<1>6. QED
  BY <1>1, <1>2, <1>3, <1>4, <1>5 DEF WtNext, List, Skipped, DropLock

\* clean_worktrees, with other processes between its listing and its removals: without --force no
\* uncommitted change goes, and of unmerged commits only later ones or those of a lost checkout.
THEOREM CleanKeepsWork == WtSpec => WorkIsKept
<1> DEFINE Kept == \A c \in Cleaner :
      /\ pc[c] = "remove" /\ pc'[c] = "delete" /\ tree = "dirty" => force[c]
      /\ pc[c] = "delete" /\ pc'[c] = "drop" /\ branch /\ tip > merged =>
           force[c] \/ seen[c].gone \/ seen[c].tip < tip
<1>1. CleanInv /\ FileInv /\ MadeInv /\ [WtNext]_wtVars => CleanInv' /\ FileInv' /\ MadeInv'
  BY CleanStep, WtInvStep
<1>2. CleanInv /\ [WtNext]_wtVars => [Kept]_wtVars
  <2>1. SUFFICES ASSUME CleanInv, WtNext, NEW c \in Cleaner PROVE
          /\ pc[c] = "remove" /\ pc'[c] = "delete" /\ tree = "dirty" => force[c]
          /\ pc[c] = "delete" /\ pc'[c] = "drop" /\ branch /\ tip > merged =>
               force[c] \/ seen[c].gone \/ seen[c].tip < tip
    BY DEF Kept
  <2>2. ASSUME pc[c] = "remove", pc'[c] = "delete", tree = "dirty" PROVE force[c]
    <3>1. PICK p \in Proc : RemoveTree(p)
      BY <2>1, <2>2 DEF CleanInv, Proc, WtNext, Create, Resume, ClearLock, LockStep, List, DeleteBranch,
         Skipped, DropLock, Go, Start, Open, Flock, Refused, Write, Leave, Unlink, Truncate, Unlock,
         Die, Edit, Commit, Merge, RemoveByHand, Pin, Recreate, vars
    <3>2. p = c
      BY <2>1, <2>2, <3>1 DEF RemoveTree, Go, CleanInv, Proc
    <3>3. QED
      BY <2>2, <3>1, <3>2 DEF RemoveTree
  <2>3. ASSUME pc[c] = "delete", branch, tip > merged
        PROVE force[c] \/ seen[c].gone \/ seen[c].tip < tip
    BY <2>1, <2>3 DEF CleanInv
  <2>4. QED
    BY <2>2, <2>3
<1>3. WtInit => FileInv /\ MadeInv
  BY FileInit DEF WtInit, Init, MadeInv
<1>4. QED
  BY CleanInit, <1>1, <1>2, <1>3, PTL DEF WtSpec, WorkIsKept

------------------------------------------------------------------------------
\* A step of a process that is past its git commands is the same step of the lock protocol.

LEMMA GoMaps ==
  ASSUME FileInv, NEW p \in Proc, NEW to, Go(p, to)
  PROVE  lockPc' = [lockPc EXCEPT ![p] = IF to \in GitPcs THEN "idle" ELSE to]
BY DEF FileInv, Go, lockPc, GitPcs

LEMMA LockStepMaps == ASSUME FileInv, NEW p \in Proc, Step(p) PROVE Lock!Step(p)
<1>1. \A to \in Pcs : Go(p, to) => Lock!Go(p, to)
  BY GoMaps DEF Pcs, GitPcs, Lock!Go
<1>2. pc[p] \notin GitPcs => lockPc[p] = pc[p]
  BY DEF lockPc, GitPcs
<1>3. pc[p] # "dead" => lockPc[p] # "dead"
  BY DEF lockPc
<1> USE DEF Lock!Step, Lock!Nil, Nil, Lock!Close, Close, Lock!File, File
<1>4. CASE Start(p)
  BY <1>1, <1>2, <1>4 DEF Start, Lock!Start, Pcs, GitPcs
<1>5. CASE Open(p)
  BY <1>1, <1>2, <1>5 DEF Open, Lock!Open, Pcs, GitPcs
<1>6. CASE Flock(p)
  BY <1>1, <1>2, <1>6 DEF Flock, Lock!Flock, Pcs, GitPcs
<1>7. CASE Refused(p)
  BY <1>1, <1>2, <1>7 DEF Refused, Lock!Refused, Pcs, GitPcs
<1>8. CASE Write(p)
  BY <1>1, <1>2, <1>8 DEF Write, Lock!Write, Pcs, GitPcs
<1>9. CASE Leave(p)
  BY <1>1, <1>2, <1>9 DEF Leave, Lock!Leave, Pcs, GitPcs
<1>10. CASE Unlink(p)
  BY <1>1, <1>2, <1>10 DEF Unlink, Lock!Unlink, Pcs, GitPcs
<1>11. CASE Truncate(p)
  BY <1>1, <1>2, <1>11 DEF Truncate, Lock!Truncate, Pcs, GitPcs
<1>12. CASE Unlock(p)
  BY <1>1, <1>2, <1>12 DEF Unlock, Lock!Unlock, Pcs, GitPcs
<1>13. CASE Die(p)
  BY <1>1, <1>3, <1>13 DEF Die, Lock!Die, Pcs
<1>14. QED
  BY <1>4, <1>5, <1>6, <1>7, <1>8, <1>9, <1>10, <1>11, <1>12, <1>13 DEF Step

\* A git command of a clean is no step of the lock protocol, and asking for the lock after it is
\* the start of one, as it is for a run that has just made its worktree.
LEMMA GitMaps ==
  ASSUME FileInv, NEW p \in Proc,
         Create(p) \/ List(p) \/ RemoveTree(p) \/ DeleteBranch(p) \/ Skipped(p) \/ DropLock(p)
  PROVE  Lock!Step(p) \/ UNCHANGED Lock!vars
<1> USE DEF lock
<1>1. CASE Create(p) \/ (DropLock(p) /\ path # 0)
  <2>1. lockPc[p] = "idle" /\ Go(p, "open") /\ UNCHANGED lock /\ (p \in Runner \/ path # 0)
    BY <1>1 DEF Create, DropLock, lockPc
  <2>2. Lock!Go(p, "open")
    BY <2>1, GoMaps DEF Lock!Go, GitPcs
  <2>3. QED
    BY <2>1, <2>2 DEF Lock!Step, Lock!Start
<1>2. CASE \/ List(p) \/ RemoveTree(p) \/ DeleteBranch(p) \/ Skipped(p)
           \/ (DropLock(p) /\ path = 0)
  <2>1. lockPc[p] = "idle" /\ UNCHANGED lock
    BY <1>2 DEF List, RemoveTree, DeleteBranch, Skipped, DropLock, lockPc
  <2>2. PICK to \in GitPcs \union {"idle"} : Go(p, to)
    BY <1>2 DEF List, RemoveTree, DeleteBranch, Skipped, DropLock, GitPcs
  <2>3. lockPc' = [lockPc EXCEPT ![p] = "idle"]
    BY <2>2, GoMaps DEF GitPcs
  <2>4. lockPc' = lockPc
    BY <2>1, <2>3 DEF lockPc
  <2>5. QED
    BY <2>1, <2>4 DEF Lock!vars
<1>3. QED
  BY <1>1, <1>2

\* worktrees clean, and everything else done to a worktree, uses the lock file as workspace/lock.py
\* lays it down: with the git commands taken for idling, the whole is an execution of the lock.
THEOREM WorktreesImplementLock == WtSpec => ImplementsLock
<1>1. WtInit => Lock!Init
  BY DEF WtInit, Init, Lock!Init, Lock!File, File, Lock!Nil, Nil, Lock!Proc, Proc, lockPc
<1>2. FileInv /\ [WtNext]_wtVars => [Lock!Next]_(Lock!vars)
  <2>1. SUFFICES ASSUME FileInv, [WtNext]_wtVars PROVE Lock!Next \/ UNCHANGED Lock!vars
    OBVIOUS
  <2> USE DEF Lock!Next, Lock!Proc, Proc
  <2>2. ASSUME NEW p \in Proc, Resume(p) \/ ClearLock(p) \/ LockStep(p) PROVE Lock!Next
    BY <2>1, <2>2, LockStepMaps DEF Resume, ClearLock, LockStep, Step
  <2>3. ASSUME NEW p \in Proc,
               Create(p) \/ List(p) \/ RemoveTree(p) \/ DeleteBranch(p) \/ Skipped(p) \/ DropLock(p)
        PROVE Lock!Next \/ UNCHANGED Lock!vars
    BY <2>1, <2>3, GitMaps
  <2>4. ASSUME Edit \/ Commit \/ Merge \/ RemoveByHand \/ Pin \/ Recreate \/ UNCHANGED wtVars
        PROVE UNCHANGED Lock!vars
    <3>1. UNCHANGED vars
      BY <2>4 DEF Edit, Commit, Merge, RemoveByHand, Pin, Recreate, wtVars
    <3>2. QED
      BY <3>1 DEF vars, Lock!vars, lockPc
  <2>5. QED
    BY <2>1, <2>2, <2>3, <2>4 DEF WtNext
<1>3. WtInit => FileInv /\ MadeInv
  BY FileInit DEF WtInit, Init, MadeInv
<1>4. FileInv /\ MadeInv /\ [WtNext]_wtVars => FileInv' /\ MadeInv'
  BY WtInvStep
<1>5. QED
  BY <1>1, <1>2, <1>3, <1>4, PTL DEF WtSpec, ImplementsLock, Lock!Spec
==============================================================================
