---------------------------- MODULE SpendLedger -----------------------------
(***************************************************************************)
(* The spend ledger of a project (limits/ledger.py) and the runs that      *)
(* commit to it and ask it (limits/envelope.py, engine/context.py          *)
(* check_envelope, engine/scheduler.py, engine/runner.py).  Every          *)
(* operation holds a flock on a sibling file while it reads spend.json,    *)
(* changes it and replaces it whole.  A run commits a total, never a       *)
(* difference: the loop adds it up, and a worker thread commits it later.  *)
(* Steps of one run do this side by side.  The month bucket follows the    *)
(* rule of the day bucket and is left out, as is pruning: runs are resumed *)
(* within RETAIN_DAYS.  Amounts are whole units.                           *)
(***************************************************************************)
EXTENDS Integers, Functions, Runs

CONSTANTS
  Caps,      \* the policies to choose from, each with its bounds: see Envelope
  Uncapped,  \* no ceiling
  Tasks,     \* the highest bound on the steps of one run under way at once
  Days,      \* the highest bound on days
  MaxTotal,  \* the highest bound on what one run spends
  MaxCost,   \* the bound on what one attempt of a leaf spends
  Nobody

Task == 1..Tasks
Job  == 0..Tasks \* what a run does at once: 0 is the runner, the others are steps

\* The ceilings of a policy and the max_parallel of the runs under it.  The rest are bounds: on the
\* steps of a run at once, the days that pass, what a run spends and the entries into each run, its
\* start and its resumes.
Envelope == [run: Nat \union {Uncapped}, day: Nat \union {Uncapped},
             streak: (Nat \ {0}) \union {Uncapped}, parallel: Nat,
             steps: 0..Tasks, days: 1..Days, most: 0..MaxTotal, entries: [Run -> Nat]]

ASSUME LedgerAssumption ==
  /\ {Tasks, Days, MaxTotal, MaxCost} \subseteq Nat
  /\ Nobody \notin Run \X Job /\ Nobody \notin Run /\ Uncapped \notin Nat
  /\ Caps \subseteq Envelope

Controls == {"money", "streak"}
Statuses == {"fresh", "live", "dead", "succeeded", "failed", "paused"}

\* Operations of the ledger: the runner's before and after the graph, and a step's.
Checks == {"first", "launch", "judge", "account", "settle"}
Asking == Checks \union {"waive", "final", "outcome"}
\* The rest: a step let start, an attempt under way, a failed one that waits to be tried again, an
\* outcome that is saved; the runner's last save.
Acts    == Asking \union {"none", "cleared", "fly", "backoff", "persist", "save"}
Holding == {"launch", "cleared", "fly"}

VARIABLES
  caps,     \* chosen once: the policy
  today,
  book,     \* spend.json: per day totals, what each run has booked, the failure streak
  flock,    \* who holds the lock file
  status,   \* of each run, as run.json and the process table show it
  known,    \* what the attempts it remembers have cost
  saved,    \* what its records in run.json add up to
  waived,   \* the controls an operator retired for this entry
  why,      \* the control that tripped, or "none"
  entry,    \* entries so far
  act,      \* of each job: what it is at
  view,     \* the document it read under the lock, or Nobody
  moment,   \* the day of its operation: asked for, then stamped
  amount,   \* the total it is about to commit
  prior,    \* what earlier attempts of its step have cost
  spent,    \* history: what a run really spent
  committed, \* history: its last committed total
  excused,  \* history: a money ceiling was waived for some run
  asked,    \* history: known, when an operation was asked for
  extra     \* history: what its checks did not see, see Blind

runVars    == <<status, known, saved, waived, why, entry>>
jobVars    == <<act, view, moment, amount, prior, asked>>
histories  == <<spent, committed, excused, extra>>
ledgerVars == <<caps, today, book, flock, runVars, jobVars, histories>>

Books == [day: [1..Days -> Int], booked: [Run -> Int], streak: Nat]
Empty == [day |-> [d \in 1..Days |-> 0], booked |-> [r \in Run |-> 0], streak |-> 0]

LedgerTypeOK ==
  /\ caps \in Caps /\ today \in 1..Days /\ book \in Books /\ flock \in (Run \X Job) \union {Nobody}
  /\ status \in [Run -> Statuses] /\ act \in [Run -> [Job -> Acts]]
  /\ view \in [Run -> [Job -> Books \union {Nobody}]] /\ moment \in [Run -> [Job -> 1..Days]]
  /\ {known, saved} \subseteq [Run -> 0..MaxTotal]
  /\ {amount, prior, asked} \subseteq [Run -> [Job -> 0..MaxTotal]]
  /\ waived \in [Run -> SUBSET Controls] /\ why \in [Run -> Controls \union {"none"}]
  /\ \A r \in Run : entry[r] \in 0..caps.entries[r]
  /\ {spent, committed, extra} \subseteq [Run -> Nat] /\ excused \in BOOLEAN

\* v for every job of a run.
All(v) == [j \in Job |-> v]

LedgerInit ==
  /\ caps \in Caps /\ today = 1 /\ book = Empty /\ flock = Nobody
  /\ status = [r \in Run |-> "fresh"]
  /\ known = [r \in Run |-> 0] /\ saved = [r \in Run |-> 0]
  /\ waived = [r \in Run |-> {}] /\ why = [r \in Run |-> "none"] /\ entry = [r \in Run |-> 0]
  /\ act = [r \in Run |-> All("none")] /\ view = [r \in Run |-> All(Nobody)]
  /\ moment = [r \in Run |-> All(1)] /\ amount = [r \in Run |-> All(0)]
  /\ prior = [r \in Run |-> All(0)] /\ asked = [r \in Run |-> All(0)]
  /\ spent = [r \in Run |-> 0] /\ committed = [r \in Run |-> 0]
  /\ excused = FALSE /\ extra = [r \in Run |-> 0]

------------------------------------------------------------------------------
(* What a run's records say *)

\* While a step is tried again its record holds nothing of its earlier attempts.
Hidden(r) == SumFunction([t \in Task |-> IF act[r][t] = "fly" THEN prior[r][t] ELSE 0])

\* run_totals, over every record.
Total(r) == known[r] - Hidden(r)

\* What a job is at next; an operation is asked for with the total of the moment.
Turn(r, j, a) ==
  /\ act' = [act EXCEPT ![r][j] = a]
  /\ moment' = [moment EXCEPT ![r][j] = IF a \in Asking THEN today ELSE 1]
  /\ amount' = [amount EXCEPT ![r][j] = IF a \in Asking THEN Total(r)' ELSE 0]
  /\ asked' = [asked EXCEPT ![r][j] = IF a \in Asking THEN known'[r] ELSE 0]

\* A run goes on, or may do so later, with c more spent than its checks have seen.
Blind(r, c) == extra' = [extra EXCEPT ![r] = @ + c]

------------------------------------------------------------------------------
(* The controls (limits/envelope.py) *)

Parallel == caps.parallel

Spends == caps.run # Uncapped \/ caps.day # Uncapped

ChecksMoney(r)  == Spends /\ "money" \notin waived[r]
ChecksStreak(r) == caps.streak # Uncapped /\ "streak" \notin waived[r]
Active(r)       == ChecksMoney(r) \/ ChecksStreak(r)

\* Strictly more trips, and a ceiling of zero before anything is spent.
Exceeds(sum, cap) == cap # Uncapped /\ (cap = 0 \/ sum > cap)

MoneyTrips(r, j, b) == ChecksMoney(r) /\ (Exceeds(amount[r][j], caps.run)
                                          \/ Exceeds(b.day[moment[r][j]], caps.day))
StreakTrips(r, b) == ChecksStreak(r) /\ b.streak >= caps.streak

\* Mutant: the ceilings are read before the total is committed.
VerdictBefore(r, j, b) ==
  IF StreakTrips(r, b) THEN "streak" ELSE IF MoneyTrips(r, j, view[r][j]) THEN "money" ELSE "none"

Verdict(r, j, b) ==
  IF StreakTrips(r, b) THEN "streak" ELSE IF MoneyTrips(r, j, b) THEN "money" ELSE "none"

------------------------------------------------------------------------------
(* The ledger (limits/ledger.py) *)

\* Mutant: the total is added to the day, not the difference.
CommitTotal(r, j, b) ==
  [b EXCEPT !.booked[r] = amount[r][j], !.day[moment[r][j]] = @ + amount[r][j]]

\* commit: the total replaces the one the run had; the difference is the day's.
Commit(r, j, b) ==
  [b EXCEPT !.booked[r] = amount[r][j], !.day[moment[r][j]] = @ + amount[r][j] - b.booked[r]]

Commits(a) == Spends /\ a \in Checks \union {"final"}

\* What each operation makes of the document it read.
Changed(r, j, b) ==
  CASE Commits(act[r][j])      -> Commit(r, j, b)
    [] act[r][j] = "outcome"   -> [b EXCEPT !.streak = IF status[r] = "failed" THEN @ + 1 ELSE 0]
    [] act[r][j] = "waive"     -> [b EXCEPT !.streak = 0]
    [] OTHER -> b

\* Mutant: the document is read before the lock is had.
LockUnasked(r, j) ==
  /\ act[r][j] \in Asking /\ view[r][j] = Nobody
  /\ flock' = <<r, j>> /\ view' = [view EXCEPT ![r][j] = book]
  /\ \E d \in moment[r][j]..today : moment' = [moment EXCEPT ![r][j] = d]
  /\ UNCHANGED <<caps, today, book, runVars, act, amount, prior, asked, histories>>

\* The thread stamps the operation with the day; _locked: the flock, then the document.
Lock(r, j) ==
  /\ act[r][j] \in Asking /\ view[r][j] = Nobody /\ flock = Nobody
  /\ flock' = <<r, j>> /\ view' = [view EXCEPT ![r][j] = book]
  /\ \E d \in moment[r][j]..today : moment' = [moment EXCEPT ![r][j] = d]
  /\ UNCHANGED <<caps, today, book, runVars, act, amount, prior, asked, histories>>

\* What follows the operation a when the controls let the run go on, or name one.
Following(r, a, control) ==
  CASE a = "waive"  -> "first"
    [] a = "launch" -> IF control = "none" THEN "cleared" ELSE "persist"
    [] a = "judge"  -> IF control = "none" THEN "backoff" ELSE "persist"
    [] a = "settle" -> IF Spends THEN "final" ELSE "save"
    [] a = "final" /\ status[r] # "paused" /\ caps.streak # Uncapped -> "outcome"
    [] a \in {"final", "outcome"} -> "save"
    [] OTHER -> "none"

\* What a commit takes back; and for a leaf that may start now, what the records hid when its check
\* was asked for, and all of its cost when that was on another day.
Unseen(r, j, b, next) ==
  (IF Commits(act[r][j]) /\ b.booked[r] > amount[r][j] THEN b.booked[r] - amount[r][j] ELSE 0)
    + (IF next = "cleared" THEN asked[r][j] - amount[r][j] ELSE 0)
    + (IF next = "cleared" /\ moment[r][j] < today THEN MaxCost ELSE 0)

\* The document is replaced and the lock let go.  A check tells the run whether to go on, unless
\* its step was called off meanwhile.
Write(r, j) ==
  /\ view[r][j] # Nobody
  /\ book' = Changed(r, j, view[r][j]) /\ flock' = Nobody
  /\ view' = [view EXCEPT ![r][j] = Nobody]
  /\ committed' = [committed EXCEPT ![r] = IF Commits(act[r][j]) THEN amount[r][j] ELSE @]
  /\ UNCHANGED <<known, prior>>
  /\ \E off \in BOOLEAN :
       LET control == IF act[r][j] \in Checks /\ ~off THEN Verdict(r, j, book') ELSE "none"
           next    == IF off THEN "persist" ELSE Following(r, act[r][j], control)
       IN
       /\ off => j # 0
       /\ why' = [why EXCEPT ![r] = IF control = "none" THEN @ ELSE control]
       /\ Turn(r, j, next) /\ Blind(r, Unseen(r, j, view[r][j], next))
  /\ UNCHANGED <<caps, today, status, saved, waived, entry, spent, excused>>

------------------------------------------------------------------------------
(* A run (engine/runner.py, engine/context.py) *)

Resumable(r) == status[r] \in {"fresh", "dead", "failed", "paused"} /\ entry[r] < caps.entries[r]

\* Mutant: any decision on a ceiling pause retires the control, a rejection too.
BeginWaiving(r) ==
  /\ Resumable(r) /\ act[r][0] = "none"
  /\ known' = [known EXCEPT ![r] = saved[r]] /\ UNCHANGED prior
  /\ waived' = [waived EXCEPT ![r] = IF status[r] = "paused" THEN {why[r]} ELSE {}]
  /\ Turn(r, 0, "first")
  /\ status' = [status EXCEPT ![r] = "live"] /\ entry' = [entry EXCEPT ![r] = @ + 1]
  /\ why' = [why EXCEPT ![r] = "none"]
  /\ UNCHANGED <<caps, today, book, flock, saved, view, spent, committed, excused, extra>>

\* run or resume: the decision on a ceiling pause is consumed, and the first check is due.  An
\* approval retires the one control that tripped.
Begin(r) ==
  /\ Resumable(r) /\ act[r][0] = "none"
  /\ known' = [known EXCEPT ![r] = saved[r]] /\ UNCHANGED prior
  /\ \E approved \in BOOLEAN :
       LET retired == IF approved /\ status[r] = "paused" THEN {why[r]} ELSE {} IN
         /\ approved => status[r] = "paused"
         /\ waived' = [waived EXCEPT ![r] = retired]
         /\ excused' = (excused \/ "money" \in retired)
         /\ Turn(r, 0, IF "streak" \in retired THEN "waive" ELSE "first")
  /\ status' = [status EXCEPT ![r] = "live"] /\ entry' = [entry EXCEPT ![r] = @ + 1]
  /\ why' = [why EXCEPT ![r] = "none"]
  /\ UNCHANGED <<caps, today, book, flock, saved, view, spent, committed, extra>>

\* An envelope with nothing left to check is not asked.
Unasked(r, j) ==
  /\ act[r][j] \in Checks \ {"settle"} /\ view[r][j] = Nobody /\ ~Active(r)
  /\ UNCHANGED <<known, prior>> /\ Turn(r, j, Following(r, act[r][j], "none"))
  /\ UNCHANGED <<caps, today, book, flock, status, saved, waived, why, entry, view, histories>>

\* Its graph runs.
AtWork(r) == status[r] = "live" /\ act[r][0] = "none"

\* The steps that hold a permit.
Holders(r) == {t \in Task : act[r][t] \in Holding}

\* The bound on what a run spends.
Affordable(r) == known[r] + (Cardinality(Holders(r)) + 1) * MaxCost <= caps.most

\* What an earlier process may have spent on the step that starts.
Carried(r) == IF entry[r] = 1 THEN {0}
              ELSE {c \in 0..known[r] : c + SumFunction([t \in Task |-> prior[r][t]]) <= known[r]}

\* A step that is decided, or to be tried again, gets its permit; one that is never skipped starts
\* without a check.  After a trip it would come to nothing.
Launch(r, t) ==
  /\ AtWork(r) /\ act[r][t] \in {"none", "backoff"} /\ why[r] = "none"
  /\ Cardinality(Holders(r)) < Parallel /\ t <= caps.steps /\ Affordable(r)
  /\ \E c \in IF act[r][t] = "backoff" THEN {prior[r][t]} ELSE Carried(r) :
       prior' = [prior EXCEPT ![r][t] = c]
  /\ UNCHANGED known
  /\ \/ Turn(r, t, "launch") /\ UNCHANGED extra
     \/ Turn(r, t, "cleared") /\ Blind(r, MaxCost)
  /\ UNCHANGED <<caps, today, book, flock, status, saved, waived, why, entry, view,
                 spent, committed, excused>>

\* run_prompt reads once more whether the ceiling was reached; then the turn is opened.
Open(r, t) ==
  /\ act[r][t] = "cleared"
  /\ UNCHANGED <<known, prior>> /\ Turn(r, t, IF why[r] = "none" THEN "fly" ELSE "persist")
  /\ UNCHANGED <<caps, today, book, flock, status, saved, waived, why, entry, view, histories>>

\* An attempt is over and paid for; a failed one asks whether it may be tried again.
LeafEnds(r, t) ==
  /\ act[r][t] = "fly"
  /\ \E cost \in 1..MaxCost, failed \in BOOLEAN :
       /\ known' = [known EXCEPT ![r] = @ + cost] /\ spent' = [spent EXCEPT ![r] = @ + cost]
       /\ prior' = [prior EXCEPT ![r][t] = IF failed THEN @ + cost ELSE 0]
       /\ Turn(r, t, IF failed /\ why[r] = "none" THEN "judge" ELSE "persist")
  /\ UNCHANGED <<caps, today, book, flock, status, saved, waived, why, entry, view,
                 committed, excused, extra>>

\* It is not tried again.
GiveUp(r, t) ==
  /\ act[r][t] = "backoff"
  /\ UNCHANGED <<known, prior>> /\ Turn(r, t, "persist")
  /\ UNCHANGED <<caps, today, book, flock, status, saved, waived, why, entry, view, histories>>

\* finish: the record is saved, then accounted for.
Persist(r, t) ==
  /\ act[r][t] = "persist"
  /\ saved' = [saved EXCEPT ![r] = Total(r)] /\ prior' = [prior EXCEPT ![r][t] = 0]
  /\ UNCHANGED known /\ Turn(r, t, IF why[r] = "none" THEN "account" ELSE "none")
  /\ UNCHANGED <<caps, today, book, flock, status, waived, why, entry, view, histories>>

\* The heartbeat saves run.json as it is.
Beat(r) ==
  /\ AtWork(r) /\ saved' = [saved EXCEPT ![r] = Total(r)]
  /\ UNCHANGED <<caps, today, book, flock, status, known, waived, why, entry, jobVars, histories>>

\* _finalize: a tripped run pauses, the others end; then the ledger is settled.
End(r) ==
  /\ AtWork(r) /\ \A t \in Task : act[r][t] = "none"
  /\ \E v \in IF why[r] = "none" THEN {"succeeded", "failed"} ELSE {"paused"} :
       status' = [status EXCEPT ![r] = v]
  /\ UNCHANGED <<known, prior>>
  /\ Turn(r, 0, IF why[r] # "none" THEN "settle" ELSE
                  IF Spends THEN "final" ELSE IF caps.streak # Uncapped THEN "outcome" ELSE "save")
  /\ UNCHANGED <<caps, today, book, flock, saved, waived, why, entry, view, histories>>

\* The terminal save of run.json.
Finish(r) ==
  /\ act[r][0] = "save"
  /\ saved' = [saved EXCEPT ![r] = Total(r)]
  /\ UNCHANGED <<known, prior>> /\ Turn(r, 0, "none")
  /\ UNCHANGED <<caps, today, book, flock, status, waived, why, entry, view, histories>>

\* Killed: what was not saved is forgotten, the lock dropped, spend.json as it was or replaced.
LedgerCrash(r) ==
  /\ status[r] = "live" \/ act[r][0] # "none"
  /\ status' = [status EXCEPT ![r] = "dead"]
  /\ flock' = IF flock # Nobody /\ flock[1] = r THEN Nobody ELSE flock
  /\ known' = [known EXCEPT ![r] = saved[r]]
  /\ act' = [act EXCEPT ![r] = All("none")] /\ view' = [view EXCEPT ![r] = All(Nobody)]
  /\ moment' = [moment EXCEPT ![r] = All(1)] /\ amount' = [amount EXCEPT ![r] = All(0)]
  /\ prior' = [prior EXCEPT ![r] = All(0)] /\ asked' = [asked EXCEPT ![r] = All(0)]
  /\ why' = [why EXCEPT ![r] = "none"] /\ waived' = [waived EXCEPT ![r] = {}]
  /\ UNCHANGED <<caps, today, book, saved, entry, histories>>

Midnight ==
  /\ today < caps.days /\ today' = today + 1
  /\ UNCHANGED <<caps, book, flock, runVars, jobVars, histories>>

\* Steps of a run that is under way.
LedgerStep(r) ==
  \/ \E j \in Job : Lock(r, j) \/ Write(r, j) \/ Unasked(r, j)
  \/ \E t \in Task : Launch(r, t) \/ Open(r, t) \/ LeafEnds(r, t) \/ GiveUp(r, t) \/ Persist(r, t)
  \/ Beat(r) \/ End(r)

LedgerNext == Midnight \/ \E r \in Run : Begin(r) \/ LedgerStep(r) \/ Finish(r) \/ LedgerCrash(r)

LedgerSpec == LedgerInit /\ [][LedgerNext]_ledgerVars

------------------------------------------------------------------------------

\* No commit is lost to another run's or another step's: the ledger holds what each run committed
\* last, whoever else wrote it since or died holding its lock.
CommitsLand == book.booked = committed

\* No run books more than it really spent, across totals that land late, crashes between a commit
\* and the save of the record, and resumes.
BookedWasSpent == \A r \in Run : book.booked[r] <= spent[r]

\* ... and the days add up to what the runs have booked, also across midnight.
NothingBookedTwice ==
  /\ SumFunction(book.day) = SumFunction(book.booked)
  /\ BookedWasSpent
==============================================================================
