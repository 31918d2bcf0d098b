----------------------------- MODULE WorkdirLock -----------------------------
(***************************************************************************)
(* The lock file of one working directory (workspace/lock.py) and who uses *)
(* it: runs (Runner._acquire_lock), rayspec cancel clearing the record of  *)
(* a dead run (release_workdir_lock), and rayspec worktrees clean, which   *)
(* unlinks the file (remove_lock_file).  Every system call is an action:   *)
(* they are separate processes.                                            *)
(***************************************************************************)
EXTENDS Naturals

CONSTANTS
  Runner,  \* processes that run in the directory, one run at a time each
  Clearer, \* rayspec cancel commands
  Cleaner, \* rayspec worktrees clean commands
  MaxFiles \* the bound on files the path ever names

Proc == Runner \union Clearer \union Cleaner
Nil  == "nil"
File == 1..MaxFiles

ASSUME RolesAssumption == /\ Runner \intersect (Clearer \union Cleaner) = {}
                          /\ Clearer \intersect Cleaner = {} /\ Nil \notin Proc
ASSUME FilesAssumption == MaxFiles \in Nat \ {0}

VARIABLES
  pc,      \* the system call each process is about to make
  fd,      \* the file each process has open, 0 if none
  path,    \* the file the lock path names, 0 if none
  made,    \* how many files the path has named
  owner,   \* the process whose flock the kernel holds on each file
  content  \* the process each file names as its holder; Nil: empty

vars == <<pc, fd, path, made, owner, content>>

Pcs == {"idle", "open", "flock", "write", "held", "unlink", "truncate", "unlock", "dead"}

TypeOK ==
  /\ pc \in [Proc -> Pcs] /\ fd \in [Proc -> {0} \union File]
  /\ path \in {0} \union File /\ made \in {0} \union File
  /\ owner \in [File -> Proc \union {Nil}] /\ content \in [File -> Proc \union {Nil}]

Init ==
  /\ pc = [p \in Proc |-> "idle"] /\ fd = [p \in Proc |-> 0]
  /\ path = 0 /\ made = 0
  /\ owner = [f \in File |-> Nil] /\ content = [f \in File |-> Nil]

Go(p, to) == pc' = [pc EXCEPT ![p] = to]

\* close(fd): the kernel drops the lock the process held on the file.
Close(p) ==
  /\ fd' = [fd EXCEPT ![p] = 0]
  /\ owner' = [f \in File |-> IF f = fd[p] /\ owner[f] = p THEN Nil ELSE owner[f]]

\* A run takes the lock; the two commands only do when the path exists.
Start(p) ==
  /\ pc[p] = "idle" /\ (p \in Runner \/ path # 0)
  /\ Go(p, "open")
  /\ UNCHANGED <<fd, path, made, owner, content>>

\* os.open(O_CREAT): the file the path names now, or a new one.
Open(p) ==
  /\ pc[p] = "open" /\ (path # 0 \/ made < MaxFiles)
  /\ made' = IF path = 0 THEN made + 1 ELSE made
  /\ path' = IF path = 0 THEN made' ELSE path
  /\ fd' = [fd EXCEPT ![p] = path']
  /\ Go(p, "flock")
  /\ UNCHANGED <<owner, content>>

\* Mutant: flock without LOCK_EX.
FlockShared(p) ==
  /\ pc[p] = "flock"
  /\ owner' = [owner EXCEPT ![fd[p]] = p]
  /\ Go(p, "write")
  /\ UNCHANGED <<fd, path, made, content>>

\* flock(LOCK_EX | LOCK_NB)
Flock(p) ==
  /\ pc[p] = "flock" /\ owner[fd[p]] = Nil
  /\ owner' = [owner EXCEPT ![fd[p]] = p]
  /\ Go(p, "write")
  /\ UNCHANGED <<fd, path, made, content>>

\* WorkdirLockedError: the file is closed again.
Refused(p) ==
  /\ pc[p] = "flock" /\ owner[fd[p]] # Nil
  /\ Close(p) /\ Go(p, "idle")
  /\ UNCHANGED <<path, made, content>>

\* The holder is written; a failing write closes the file, and with it the lock.
Write(p) ==
  /\ pc[p] = "write"
  /\ \/ /\ content' = [content EXCEPT ![fd[p]] = p]
        /\ Go(p, "held") /\ UNCHANGED <<fd, owner>>
     \/ /\ content' = [content EXCEPT ![fd[p]] = Nil]
        /\ Close(p) /\ Go(p, "idle")
  /\ UNCHANGED <<path, made>>

\* The run ended or paused, or the command has the lock: remove_lock_file unlinks first.
Leave(p) ==
  /\ pc[p] = "held"
  /\ Go(p, IF p \in Cleaner THEN "unlink" ELSE "truncate")
  /\ UNCHANGED <<fd, path, made, owner, content>>

\* path.unlink removes whatever the path names by now, or fails.
Unlink(p) ==
  /\ pc[p] = "unlink"
  /\ path' \in {0, path}
  /\ Go(p, "truncate")
  /\ UNCHANGED <<fd, made, owner, content>>

\* release: the file is emptied (best effort) while it is still locked ...
Truncate(p) ==
  /\ pc[p] = "truncate"
  /\ content' \in {content, [content EXCEPT ![fd[p]] = Nil]}
  /\ Go(p, "unlock")
  /\ UNCHANGED <<fd, path, made, owner>>

\* ... then unlocked and closed.
Unlock(p) ==
  /\ pc[p] = "unlock"
  /\ Close(p) /\ Go(p, "idle")
  /\ UNCHANGED <<path, made, content>>

\* A process may die at any moment; the kernel closes its files.
Die(p) ==
  /\ pc[p] # "dead"
  /\ Close(p) /\ Go(p, "dead")
  /\ UNCHANGED <<path, made, content>>

Step(p) == \/ Start(p) \/ Open(p) \/ Flock(p) \/ Refused(p) \/ Write(p) \/ Leave(p)
           \/ Unlink(p) \/ Truncate(p) \/ Unlock(p) \/ Die(p)

Next == \E p \in Proc : Step(p)

Spec == Init /\ [][Next]_vars

------------------------------------------------------------------------------

Held == {p \in Proc : pc[p] = "held"}

\* lock.py: two runs never share a working directory.
MutualExclusion == \A p, q \in Held \intersect Runner : p = q

\* Whatever runs die, are refused, fail to write or are cleared by a cancel: two of them share the
\* directory only if its lock file was unlinked and made anew.
SharedOnlyIfRemade == made <= 1 => MutualExclusion

\* The file a holder has locked names it, to every run it refuses, until it releases it: no
\* release, death, refusal or unlink of another process empties or overwrites it.
HolderIsNamed ==
  \A p \in Held : owner[fd[p]] = p /\ content[fd[p]] = p
==============================================================================
