------------------------------ MODULE Worktrees ------------------------------
(***************************************************************************)
(* The worktree of a run (workspace/worktrees.py) around its lock file:    *)
(* the run that creates it and the resumes that come back to it, people    *)
(* who edit, commit, merge and delete, and rayspec worktrees clean, which  *)
(* lists first, removes later and asks the lock last of all.  A git        *)
(* command is one action.                                                  *)
(***************************************************************************)
EXTENDS WorkdirLock

CONSTANT MaxCommits \* the bound on commits on the branch

ASSUME CommitsAssumption == MaxCommits \in Nat

VARIABLES
  run,    \* "none", "created" with its worktree, "recorded" in run.json
  tree,   \* the checkout: "none", "clean" or "dirty"
  entry,  \* git worktree list shows the worktree
  pinned, \* git worktree lock
  branch, \* the branch rayspec/<workflow>-<id> exists
  tip,    \* commits on it
  merged, \* commits of it the merge target reaches
  force,  \* each clean: --force
  seen    \* what each clean listed: the directory was gone, the commits on the branch

git    == <<tree, entry, pinned, branch, tip, merged>>
cmd    == <<force, seen>>
lock   == <<fd, path, made, owner, content>>
wtVars == <<vars, run, git, cmd>>

Info    == [gone : BOOLEAN, tip : 0..MaxCommits]
Nothing == [gone |-> FALSE, tip |-> 0]

WtInit ==
  /\ Init
  /\ run = "none" /\ tree = "none" /\ tip = 0 /\ merged = 0
  /\ entry = FALSE /\ pinned = FALSE /\ branch = FALSE
  /\ force = [c \in Cleaner |-> FALSE]
  /\ seen = [c \in Cleaner |-> Nothing]

\* git worktree add -b: the worktree is there before the run asks for its lock.
Create(p) ==
  /\ p \in Runner /\ pc[p] = "idle" /\ run = "none"
  /\ run' = "created" /\ tree' = "clean" /\ entry' = TRUE /\ branch' = TRUE
  /\ Go(p, "open")
  /\ UNCHANGED <<lock, pinned, tip, merged, cmd>>

\* A resume takes the recorded workdir as it is: nobody looks whether it is still there.
Resume(p) ==
  /\ p \in Runner /\ run = "recorded" /\ Start(p)
  /\ UNCHANGED <<run, git, cmd>>

\* release_workdir_lock of rayspec cancel: only a recorded run has a lock to clear.
ClearLock(p) ==
  /\ p \in Clearer /\ run = "recorded" /\ Start(p)
  /\ UNCHANGED <<run, git, cmd>>

\* The lock steps of every process; a run that has the lock saves its record next.
LockStep(p) ==
  /\ \/ Open(p) \/ Flock(p) \/ Refused(p) \/ Write(p) \/ Leave(p)
     \/ Unlink(p) \/ Truncate(p) \/ Unlock(p) \/ Die(p)
  /\ run' = IF p \in Runner /\ pc'[p] = "held" THEN "recorded" ELSE run
  /\ UNCHANGED <<git, cmd>>

\* What list_worktrees reports of the worktree.
Gone     == tree = "none"
Dirty    == tree = "dirty"
IsMerged == tip <= merged

\* Mutant: without --force, clean but unmerged worktrees go too.
CandidateUnmerged(forced, mergedOnly) ==
  /\ mergedOnly => IsMerged
  /\ ~forced => ~Dirty /\ ~pinned

\* clean_worktrees: the entries that are not skipped.
Candidate(forced, mergedOnly) ==
  /\ mergedOnly => IsMerged
  /\ ~forced => (IsMerged \/ Gone) /\ ~Dirty /\ ~pinned

\* The command lists; what it decides is only carried out later.
List(c) ==
  /\ c \in Cleaner /\ pc[c] = "idle" /\ entry
  /\ \E forced, mergedOnly \in BOOLEAN :
       /\ Candidate(forced, mergedOnly)
       /\ force' = [force EXCEPT ![c] = forced]
  /\ seen' = [seen EXCEPT ![c] = [gone |-> Gone, tip |-> tip]]
  /\ Go(c, "remove")
  /\ UNCHANGED <<lock, run, git>>

\* git worktree remove looks again: unforced, it refuses a dirty or locked worktree.  Of a missing
\* directory the entry is pruned, which leaves a locked one.
RemoveTree(c) ==
  /\ c \in Cleaner /\ pc[c] = "remove"
  /\ \/ /\ tree # "none" /\ (force[c] \/ (tree = "clean" /\ ~pinned))
        /\ tree' = "none" /\ entry' = FALSE /\ pinned' = FALSE
     \/ /\ tree = "none"
        /\ entry' = (entry /\ pinned)
        /\ UNCHANGED <<tree, pinned>>
  /\ Go(c, "delete")
  /\ UNCHANGED <<lock, run, branch, tip, merged, cmd>>

\* git branch -D refuses only a branch that is checked out.
DeleteBranch(c) ==
  /\ c \in Cleaner /\ pc[c] = "delete" /\ ~(branch /\ entry)
  /\ branch' = FALSE
  /\ Go(c, "drop")
  /\ UNCHANGED <<lock, run, tree, entry, pinned, tip, merged, cmd>>

Forget(c) ==
  /\ force' = [force EXCEPT ![c] = FALSE]
  /\ seen' = [seen EXCEPT ![c] = Nothing]

\* A git command fails: the worktree is reported as skipped and its lock file stays.
Skipped(c) ==
  /\ c \in Cleaner /\ pc[c] \in {"remove", "delete"}
  /\ Go(c, "idle") /\ Forget(c)
  /\ UNCHANGED <<lock, run, git>>

\* remove_lock_file returns when there is no file.
DropLock(c) ==
  /\ c \in Cleaner /\ pc[c] = "drop"
  /\ Go(c, IF path # 0 THEN "open" ELSE "idle") /\ Forget(c)
  /\ UNCHANGED <<lock, run, git>>

------------------------------------------------------------------------------
\* The steps of the run, or a person in the kept worktree.

Edit ==
  /\ tree = "clean" /\ tree' = "dirty"
  /\ UNCHANGED <<vars, run, entry, pinned, branch, tip, merged, cmd>>

Commit ==
  /\ tree = "dirty" /\ tip < MaxCommits
  /\ tree' = "clean" /\ tip' = tip + 1
  /\ UNCHANGED <<vars, run, entry, pinned, branch, merged, cmd>>

Merge ==
  /\ branch /\ merged' = tip
  /\ UNCHANGED <<vars, run, tree, entry, pinned, branch, tip, cmd>>

\* rm -r of the checkout: git keeps the entry and calls it prunable.
RemoveByHand ==
  /\ tree # "none" /\ tree' = "none"
  /\ UNCHANGED <<vars, run, entry, pinned, branch, tip, merged, cmd>>

\* git worktree lock and unlock
Pin ==
  /\ entry /\ pinned' = ~pinned
  /\ UNCHANGED <<vars, run, tree, entry, branch, tip, merged, cmd>>

\* recreate_worktree, or the same two commands by hand: prune, then git worktree add.
Recreate ==
  /\ branch /\ tree = "none" /\ ~pinned
  /\ tree' = "clean" /\ entry' = TRUE
  /\ UNCHANGED <<vars, run, pinned, branch, tip, merged, cmd>>

WtNext ==
  \/ \E p \in Proc : \/ Create(p) \/ Resume(p) \/ ClearLock(p) \/ LockStep(p)
                     \/ List(p) \/ RemoveTree(p) \/ DeleteBranch(p) \/ Skipped(p) \/ DropLock(p)
  \/ Edit \/ Commit \/ Merge \/ RemoveByHand \/ Pin \/ Recreate

WtSpec == WtInit /\ [][WtNext]_wtVars

------------------------------------------------------------------------------

WtTypeOK ==
  /\ run \in {"none", "created", "recorded"} /\ tree \in {"none", "clean", "dirty"}
  /\ entry \in BOOLEAN /\ pinned \in BOOLEAN /\ branch \in BOOLEAN
  /\ tip \in 0..MaxCommits /\ merged \in 0..tip
  /\ force \in [Cleaner -> BOOLEAN] /\ seen \in [Cleaner -> Info]

\* Whatever happens between its listing and its removals, a clean without --force deletes no
\* uncommitted change, and commits nobody merged only if they came after the listing or the
\* checkout had been deleted by hand.
WorkIsKept ==
  [][\A c \in Cleaner :
       /\ pc[c] = "remove" /\ pc'[c] = "delete" /\ tree = "dirty" => force[c]
       /\ pc[c] = "delete" /\ pc'[c] = "drop" /\ branch /\ tip > merged =>
            force[c] \/ seen[c].gone \/ seen[c].tip < tip]_wtVars

\* worktrees clean uses the lock file as the lock module allows: its git phases are idle to it.
lockPc == [p \in Proc |-> IF pc[p] \in {"remove", "delete", "drop"} THEN "idle" ELSE pc[p]]

Lock == INSTANCE WorkdirLock WITH pc <- lockPc

ImplementsLock == Lock!Spec
==============================================================================
