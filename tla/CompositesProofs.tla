--------------------------- MODULE CompositesProofs ---------------------------
(***************************************************************************)
(* For any number of items, iterations and body steps: a failure below a   *)
(* composite reaches the verdict, the strongest signal is passed on, and a *)
(* cancel is no failure.  For any number of leaves, approve: steps and     *)
(* permits: the launch gate is closed for exactly one asking step, and the *)
(* count it waits on is the number of running leaves.  In both, no more    *)
(* leaves run than there are permits.                                      *)
(***************************************************************************)
EXTENDS Composites, LaunchGate, FiniteSetTheorems, TLAPS

\* A body: nothing is recorded before it starts, all of it is decided once it returned, and a step
\* is interrupted only where the body was cut, for the reason its scope names.
BodyInv ==
  \A i \in Body :
    /\ stage[i] \in {"none", "queued"} => \A p \in Pos : rec[i][p] = Pending
    /\ stage[i] = "returned" => \A p \in Pos : Decided(i, p)
    /\ \A p \in Pos : rec[i][p].status = "interrupted" =>
         stage[i] = "cut" /\ (torn = "none" => Each /\ rec[i][p].why = reason /\ reason # "none")
    /\ PausedIn(i) => answer
    /\ \A p \in Pos : rec[i][p] = Record("skipped", "budget_exceeded") => budget

\* Which bodies there are: the items there are of an each:, one iteration after the other.
OrderInv ==
  /\ \A i \in Body :
       /\ stage[i] = "queued" => Each
       /\ stage[i] # "none" /\ Each => i <= plan.total
       /\ stage[i] # "none" /\ plan.kind = "include" => i = 1
  /\ ~Each => \A i, j \in Body :
       j < i /\ stage[i] # "none" => stage[j] = "returned" /\ ~FailedBody(j)

RaisedPause == \E i \in Body : stage[i] = "raised" /\ PausedIn(i)
RaisedStop  == \E i \in Body : stage[i] = "raised" /\ ~PausedIn(i)

\* The signal each: holds is the strongest raised so far.
SignalInv ==
  /\ control = "pause" <=> RaisedPause
  /\ control = "stop" <=> RaisedStop /\ ~RaisedPause
  /\ Each => (control = "none" <=> reason = "none") /\ (control = "stop" => reason = "stopped")
  /\ torn = "paused" => answer

\* What each way a composite ends says of its bodies.
Ends(c) ==
  \/ /\ c.status = "succeeded" /\ control = "none" /\ torn = "none"
     /\ NoFailedStep \/ (Each /\ plan.lenient)
  \/ c.status = "paused" /\ control = "pause" /\ torn = "none" /\ answer
  \/ c.status = "interrupted" /\ c.why = torn /\ torn # "none"
  \/ c.status = "interrupted" /\ c.why = "stopped" /\ control = "stop" /\ torn = "none"
  \/ /\ c.status = "interrupted" /\ c.why = "cancelled" /\ control = "none" /\ torn = "none"
     /\ NoFailedStep
  \/ /\ c.status = "failed" /\ control = "none" /\ torn = "none" /\ c.error # "none"
     /\ c.error \in {"items", "body", "budget"} => budget \/ ~NoFailedStep
     /\ c.error \in {"until", "outputs"} => \E i \in Body : Unreadable(i)

EndInv ==
  comp.status # "running" => Ends(comp) /\ \A i \in Body : stage[i] \notin {"queued", "body"}

VerdictInv ==
  verdict # "none" =>
    /\ comp.status # "running"
    /\ verdict = IF answer THEN "paused"
                 ELSE IF budget THEN "failed"
                 ELSE IF cancel THEN IF Failed THEN "failed" ELSE "cancelled"
                 ELSE IF Failed THEN "failed"
                 ELSE IF comp.why = "stopped" THEN "stopped" ELSE "succeeded"

CompositesInv == TypeOK /\ BodyInv /\ OrderInv /\ SignalInv /\ EndInv /\ VerdictInv

------------------------------------------------------------------------------

Statuses == Terminal \union {"pending", "queued", "asked", "running", "paused"}
RecType  == [status : Statuses, why : Reasons]

LEMMA CompositesInit == ASSUME Init PROVE CompositesInv
<1>1. plan \in Plan
  BY PlansAssumption DEF Init
<1>2. TypeOK
  BY <1>1 DEF Init, TypeOK, Pending, Record, Reasons, Errors
<1>3. \A i \in Body, p \in Pos : rec[i][p] = Pending /\ stage[i] = "none"
  BY DEF Init
<1>4. Pending.status = "pending"
  BY DEF Pending, Record
<1>5. BodyInv
  BY <1>3, <1>4 DEF BodyInv, PausedIn, Decided, Record
<1>6. OrderInv /\ SignalInv /\ EndInv /\ VerdictInv
  BY <1>3 DEF Init, OrderInv, SignalInv, EndInv, VerdictInv, RaisedPause, RaisedStop
<1>7. QED
  BY <1>2, <1>5, <1>6 DEF CompositesInv

\* The writes of a body at work: the record of one of its steps, and flags that only ever rise.
LEMMA WriteKeeps ==
  ASSUME CompositesInv, NEW i \in Body, NEW p \in Pos, NEW r \in RecType,
         stage[i] = "body", Write(i, p, r),
         r.status # "interrupted", r.status = "paused" => answer',
         r = Record("skipped", "budget_exceeded") => budget',
         answer' \in BOOLEAN, budget' \in BOOLEAN, answer => answer', budget => budget',
         UNCHANGED <<outer, stage, comp, cancel>>
  PROVE  CompositesInv'
<1>1. /\ rec' \in [Body -> [Pos -> RecType]] /\ rec \in [Body -> [Pos -> RecType]]
      /\ rec'[i][p] = r /\ \A q \in Pos \ {p} : rec'[i][q] = rec[i][q]
      /\ \A j \in Body \ {i} : rec'[j] = rec[j]
  BY DEF CompositesInv, TypeOK, Write, RecType, Statuses
<1>2. /\ UNCHANGED <<plan, control, reason, torn, verdict, stage, comp, cancel>>
      /\ comp.status = "running" /\ verdict = "none"
  BY DEF outer, CompositesInv, EndInv, VerdictInv
<1>3. TypeOK'
  BY <1>1, <1>2 DEF CompositesInv, TypeOK, RecType, Statuses
<1>4. BodyInv'
  <2> SUFFICES ASSUME NEW j \in Body
      PROVE /\ stage[j] \in {"none", "queued"} => \A q \in Pos : rec'[j][q] = Pending
            /\ stage[j] = "returned" => \A q \in Pos : rec'[j][q].status \in Terminal
            /\ \A q \in Pos : rec'[j][q].status = "interrupted" =>
                 stage[j] = "cut" /\ (torn = "none" => Each /\ rec'[j][q].why = reason /\ reason # "none")
            /\ (\E q \in Pos : rec'[j][q].status = "paused") => answer'
            /\ \A q \in Pos : rec'[j][q] = Record("skipped", "budget_exceeded") => budget'
    BY <1>2 DEF BodyInv, Decided, PausedIn, Each
  <2>1. CASE j # i
    BY <1>1, <2>1 DEF CompositesInv, BodyInv, Decided, PausedIn
  <2>2. CASE j = i
    <3>1. /\ stage[j] = "body"
          /\ \A q \in Pos : rec'[j][q] = IF q = p THEN r ELSE rec[j][q]
      BY <1>1, <2>2
    <3>2. \A q \in Pos : rec[j][q].status # "interrupted"
      BY <3>1 DEF CompositesInv, BodyInv
    <3>3. \A q \in Pos : rec'[j][q].status # "interrupted"
      BY <3>1, <3>2
    <3>4. (\E q \in Pos : rec'[j][q].status = "paused") => answer'
      BY <3>1 DEF CompositesInv, BodyInv, PausedIn
    <3>5. \A q \in Pos : rec'[j][q] = Record("skipped", "budget_exceeded") => budget'
      BY <3>1 DEF CompositesInv, BodyInv
    <3>6. QED
      BY <3>1, <3>3, <3>4, <3>5
  <2>3. QED
    BY <2>1, <2>2
<1>5. \A j \in Body :
        stage[j] # "body" =>
          (PausedIn(j) <=> PausedIn(j)') /\ (FailedBody(j) <=> FailedBody(j)')
  BY <1>1 DEF PausedIn, FailedBody
<1>6. OrderInv'
  BY <1>2, <1>5 DEF CompositesInv, OrderInv, Each
<1>7. SignalInv'
  BY <1>2, <1>5 DEF CompositesInv, SignalInv, RaisedPause, RaisedStop, Each
<1>8. EndInv' /\ VerdictInv'
  BY <1>2 DEF EndInv, VerdictInv
<1>9. QED
  BY <1>3, <1>4, <1>6, <1>7, <1>8 DEF CompositesInv

LEMMA RecordTypes ==
  /\ \A s \in Statuses, w \in Reasons : Record(s, w) \in RecType
  /\ \A s, w : Record(s, w).status = s /\ Record(s, w).why = w
BY DEF Record, RecType

LEMMA BodyStepKeeps ==
  ASSUME CompositesInv, NEW i \in Body,
         Decide(i) \/ \E p \in Pos : \/ AskLeaf(i, p) \/ StartLeaf(i, p) \/ EndLeaf(i, p)
                                    \/ EndStop(i, p) \/ EndGate(i, p)
  PROVE  CompositesInv'
<1>1. {answer, budget, cancel} \subseteq BOOLEAN
  BY DEF CompositesInv, TypeOK
<1>2. Breaker \in Reasons /\ (Breaker = "budget_exceeded" => budget)
  BY DEF Breaker, Reasons
<1>3. CASE Decide(i)
  <2>1. PICK p \in Pos : LET why == SkipReason(i, p) IN
            Write(i, p, IF why # "none" THEN Record("skipped", why)
                        ELSE IF plan.what[p] = "leaf" THEN Record("queued", "none")
                        ELSE Record("running", "none"))
    BY <1>3 DEF Decide
  <2>2. SkipReason(i, p) \in Reasons /\ (SkipReason(i, p) = "budget_exceeded" => budget)
    BY <1>2 DEF SkipReason, Reasons
  <2> DEFINE why == SkipReason(i, p)
             r == IF why # "none" THEN Record("skipped", why)
                  ELSE IF plan.what[p] = "leaf" THEN Record("queued", "none")
                  ELSE Record("running", "none")
  <2>3. r \in RecType /\ r.status \notin {"interrupted", "paused"}
        /\ (r = Record("skipped", "budget_exceeded") => budget)
    BY <2>2, RecordTypes DEF Statuses, Terminal, Reasons
  <2>4. stage[i] = "body" /\ UNCHANGED <<outer, flags, stage, comp>> /\ Write(i, p, r)
    BY <1>3, <2>1 DEF Decide
  <2> HIDE DEF r
  <2>5. QED
    BY <1>1, <2>3, <2>4, WriteKeeps DEF flags
<1>9. ASSUME NEW p \in Pos, StartLeaf(i, p) PROVE CompositesInv'
  <2>1. /\ Record("running", "none") \in RecType
        /\ Record("running", "none").status \notin {"interrupted", "paused", "skipped"}
    BY RecordTypes DEF Statuses, Terminal, Reasons
  <2>2. Record("running", "none") # Record("skipped", "budget_exceeded")
    BY <2>1, RecordTypes
  <2>3. /\ stage[i] = "body" /\ UNCHANGED <<outer, flags, stage, comp>>
        /\ Write(i, p, Record("running", "none"))
    BY <1>9 DEF StartLeaf
  <2>4. QED
    BY <1>1, <2>1, <2>2, <2>3, WriteKeeps DEF flags
<1>4. ASSUME NEW p \in Pos, AskLeaf(i, p) PROVE CompositesInv'
  <2> DEFINE r == IF Breaker # "none" /\ p \notin plan.cleanup THEN Record("skipped", Breaker)
                  ELSE Record("asked", "none")
  <2>1. r \in RecType /\ r.status \notin {"interrupted", "paused"}
        /\ (r = Record("skipped", "budget_exceeded") => budget)
    BY <1>2, RecordTypes DEF Statuses, Terminal, Reasons
  <2>2. stage[i] = "body" /\ UNCHANGED <<outer, flags, stage, comp>> /\ Write(i, p, r)
    BY <1>4 DEF AskLeaf
  <2> HIDE DEF r
  <2>3. QED
    BY <1>1, <2>1, <2>2, WriteKeeps DEF flags
<1>5. ASSUME NEW p \in Pos, EndLeaf(i, p) PROVE CompositesInv'
  <2>1. PICK s \in {"succeeded", "failed"} : Write(i, p, Record(s, "none"))
    BY <1>5 DEF EndLeaf
  <2>2. Record(s, "none") \in RecType /\ Record(s, "none").status \notin {"interrupted", "paused", "skipped"}
    BY RecordTypes DEF Statuses, Terminal, Reasons
  <2>3. Record(s, "none") # Record("skipped", "budget_exceeded")
    BY <2>2, RecordTypes
  <2>4. budget' \in BOOLEAN /\ (budget => budget')
    <3>1. plan \in Plan
      BY DEF CompositesInv, TypeOK
    <3>2. plan.capped \in BOOLEAN
      BY <3>1 DEF Plan
    <3>3. QED
      BY <1>1, <1>5, <3>2 DEF EndLeaf
  <2>5. stage[i] = "body" /\ UNCHANGED <<outer, stage, comp, answer, cancel>>
    BY <1>5 DEF EndLeaf
  <2>6. QED
    BY <1>1, <2>1, <2>2, <2>3, <2>4, <2>5, WriteKeeps
<1>6. ASSUME NEW p \in Pos, EndStop(i, p) PROVE CompositesInv'
  <2>1. Record("succeeded", "none") \in RecType
        /\ Record("succeeded", "none").status \notin {"interrupted", "paused", "skipped"}
    BY RecordTypes DEF Statuses, Terminal, Reasons
  <2>2. Record("succeeded", "none") # Record("skipped", "budget_exceeded")
    BY <2>1, RecordTypes
  <2>3. QED
    BY <1>1, <1>6, <2>1, <2>2, WriteKeeps DEF EndStop, flags
<1>7. ASSUME NEW p \in Pos, EndGate(i, p) PROVE CompositesInv'
  <2>1. PICK r \in {Record("succeeded", "none"), Record("paused", "paused")} :
          /\ Write(i, p, r)
          /\ IF r.status = "paused" THEN answer' = TRUE ELSE UNCHANGED answer
    BY <1>7, RecordTypes DEF EndGate
  <2>2. r \in RecType /\ r.status \notin {"interrupted", "skipped"}
    BY RecordTypes DEF Statuses, Terminal, Reasons
  <2>3. r # Record("skipped", "budget_exceeded")
    BY <2>2, RecordTypes
  <2>4. stage[i] = "body" /\ UNCHANGED <<outer, stage, comp, budget, cancel>>
    BY <1>7 DEF EndGate
  <2>5. QED
    BY <1>1, <2>1, <2>2, <2>3, <2>4, WriteKeeps
<1>8. QED
  BY <1>3, <1>4, <1>5, <1>6, <1>7, <1>9

LEMMA ReturnKeeps == ASSUME CompositesInv, NEW i \in Body, Return(i) PROVE CompositesInv'
<1>1. /\ stage[i] = "body" /\ stage' = [stage EXCEPT ![i] = "returned"]
      /\ \A p \in Pos : Decided(i, p)
      /\ UNCHANGED <<plan, control, reason, torn, verdict, answer, budget, cancel, rec, comp>>
  BY DEF Return, Through, outer, flags
<1>2. /\ comp.status = "running" /\ verdict = "none"
      /\ stage \in [Body -> {"none", "queued", "body", "returned", "raised", "cut"}]
  BY <1>1 DEF CompositesInv, EndInv, VerdictInv, TypeOK
<1>3. TypeOK'
  BY <1>1, <1>2 DEF CompositesInv, TypeOK
<1>4. BodyInv'
  BY <1>1, <1>2 DEF CompositesInv, BodyInv, PausedIn, Decided, Each
<1>5. OrderInv'
  BY <1>1, <1>2 DEF CompositesInv, OrderInv, FailedBody, Each
<1>6. SignalInv'
  BY <1>1, <1>2 DEF CompositesInv, SignalInv, RaisedPause, RaisedStop, PausedIn, Each
<1>7. EndInv' /\ VerdictInv'
  BY <1>1, <1>2 DEF EndInv, VerdictInv
<1>8. QED
  BY <1>3, <1>4, <1>5, <1>6, <1>7 DEF CompositesInv

\* In a loop or an include, a body that raised is the last there is.
LEMMA RaiseKeeps == ASSUME CompositesInv, NEW i \in Body, Raise(i) PROVE CompositesInv'
<1>1. /\ stage[i] = "body" /\ stage' = [stage EXCEPT ![i] = "raised"]
      /\ control' = IF PausedIn(i) THEN "pause" ELSE IF control = "none" THEN "stop" ELSE control
      /\ reason' = IF reason # "none" \/ ~Each THEN reason
                   ELSE IF PausedIn(i) THEN "paused" ELSE "stopped"
      /\ UNCHANGED <<plan, torn, verdict, answer, budget, cancel, rec, comp>>
  BY DEF Raise, flags
<1>2. /\ comp.status = "running" /\ verdict = "none"
      /\ stage \in [Body -> {"none", "queued", "body", "returned", "raised", "cut"}]
      /\ control \in {"none", "stop", "pause"} /\ reason \in {"none", "stopped", "paused"}
  BY <1>1 DEF CompositesInv, EndInv, VerdictInv, TypeOK
<1>3. TypeOK'
  BY <1>1, <1>2 DEF CompositesInv, TypeOK
<1>4. BodyInv'
  <2>1. \A j \in Body, p \in Pos : rec[j][p].status = "interrupted" =>
          stage'[j] = "cut" /\ (torn = "none" => Each /\ rec[j][p].why = reason' /\ reason' # "none")
    BY <1>1, <1>2 DEF CompositesInv, BodyInv
  <2>2. QED
    BY <1>1, <1>2, <2>1 DEF CompositesInv, BodyInv, PausedIn, Decided, Each
<1>5. OrderInv'
  BY <1>1, <1>2 DEF CompositesInv, OrderInv, FailedBody, Each
<1>6. SignalInv'
  <2>1. /\ control = "pause" <=> RaisedPause
        /\ control = "stop" <=> RaisedStop /\ ~RaisedPause
    BY DEF CompositesInv, SignalInv
  <2>2. \A j \in Body : PausedIn(j)' <=> PausedIn(j)
    BY <1>1 DEF PausedIn
  <2>3. RaisedPause' <=> RaisedPause \/ PausedIn(i)
    BY <1>1, <1>2, <2>2 DEF RaisedPause
  <2>4. RaisedStop' <=> RaisedStop \/ ~PausedIn(i)
    BY <1>1, <1>2, <2>2 DEF RaisedStop
  <2>5. /\ control' = "pause" <=> RaisedPause'
        /\ control' = "stop" <=> RaisedStop' /\ ~RaisedPause'
    BY <1>1, <1>2, <2>1, <2>3, <2>4
  <2>6. Each => (control' = "none" <=> reason' = "none") /\ (control' = "stop" => reason' = "stopped")
    BY <1>1, <1>2 DEF CompositesInv, SignalInv
  <2>7. QED
    BY <1>1, <2>5, <2>6 DEF SignalInv, CompositesInv, Each
<1>7. EndInv' /\ VerdictInv'
  BY <1>1, <1>2 DEF EndInv, VerdictInv
<1>8. QED
  BY <1>3, <1>4, <1>5, <1>6, <1>7 DEF CompositesInv

\* Without a tear only the items of an each: are cut, and their scopes name the signal.
LEMMA CutKeeps == ASSUME CompositesInv, NEW i \in Body, Cut(i) PROVE CompositesInv'
<1> DEFINE why == IF reason = "none" THEN "interrupted" ELSE reason
           cutRec == [p \in Pos |-> IF rec[i][p].status \in {"queued", "asked", "running"}
                                    THEN Record("interrupted", why) ELSE rec[i][p]]
<1>1. /\ CutPending /\ stage[i] \in {"queued", "body"} /\ stage' = [stage EXCEPT ![i] = "cut"]
      /\ rec' = [rec EXCEPT ![i] = cutRec]
      /\ UNCHANGED <<plan, control, reason, torn, verdict, answer, budget, cancel, comp>>
  BY DEF Cut, outer, flags
<1>2. /\ comp.status = "running" /\ verdict = "none"
      /\ stage \in [Body -> {"none", "queued", "body", "returned", "raised", "cut"}]
      /\ rec \in [Body -> [Pos -> RecType]] /\ reason \in {"none", "stopped", "paused"}
  BY <1>1 DEF CompositesInv, EndInv, VerdictInv, TypeOK, RecType, Statuses
<1>3. Record("interrupted", why) \in RecType /\ Record("interrupted", why).status = "interrupted"
      /\ Record("interrupted", why).why = why
  BY <1>2, RecordTypes DEF Statuses, Terminal, Reasons
<1>4. /\ rec' \in [Body -> [Pos -> RecType]] /\ \A j \in Body \ {i} : rec'[j] = rec[j]
      /\ \A p \in Pos : \/ rec'[i][p] = rec[i][p] /\ rec[i][p].status \notin {"queued", "asked", "running"}
                        \/ rec'[i][p] = Record("interrupted", why)
  BY <1>1, <1>2, <1>3
<1>5. TypeOK'
  BY <1>1, <1>2, <1>4 DEF CompositesInv, TypeOK, RecType, Statuses
<1>6. torn = "none" => Each /\ reason # "none"
  <2>1. SUFFICES ASSUME torn = "none" PROVE Each
    BY <1>1 DEF CompositesInv, SignalInv, CutPending
  <2>2. PICK j \in Body : stage[j] = "raised"
    BY <1>1, <2>1 DEF CompositesInv, SignalInv, CutPending, RaisedPause, RaisedStop, TypeOK
  <2>3. i < j \/ j < i
    BY <1>1, <2>2 DEF Body
  <2>4. QED
    BY <1>1, <2>2, <2>3 DEF CompositesInv, OrderInv
<1>7. \A j \in Body : PausedIn(j)' => PausedIn(j)
  BY <1>3, <1>4 DEF PausedIn
<1>8. BodyInv'
  <2> SUFFICES ASSUME NEW j \in Body
      PROVE /\ stage'[j] \in {"none", "queued"} => \A q \in Pos : rec'[j][q] = Pending
            /\ stage'[j] = "returned" => \A q \in Pos : rec'[j][q].status \in Terminal
            /\ \A q \in Pos : rec'[j][q].status = "interrupted" =>
                 stage'[j] = "cut" /\ (torn = "none" => Each /\ rec'[j][q].why = reason /\ reason # "none")
            /\ PausedIn(j)' => answer
            /\ \A q \in Pos : rec'[j][q] = Record("skipped", "budget_exceeded") => budget
    BY <1>1 DEF BodyInv, Decided, Each
  <2>1. CASE j # i
    BY <1>1, <1>2, <1>4, <1>7, <2>1 DEF CompositesInv, BodyInv, Decided
  <2>2. CASE j = i
    <3>1. stage'[i] = "cut"
      BY <1>1, <1>2
    <3>2. ASSUME NEW q \in Pos, rec'[i][q] = Record("skipped", "budget_exceeded") PROVE budget
      BY <1>3, <1>4, <3>2, RecordTypes DEF CompositesInv, BodyInv
    <3>3. ASSUME NEW q \in Pos, rec'[i][q].status = "interrupted", torn = "none"
          PROVE  Each /\ rec'[i][q].why = reason /\ reason # "none"
      BY <1>1, <1>3, <1>4, <1>6, <3>3 DEF CompositesInv, BodyInv
    <3>4. QED
      BY <1>7, <2>2, <3>1, <3>2, <3>3 DEF CompositesInv, BodyInv
  <2>3. QED
    BY <2>1, <2>2
<1>9. OrderInv'
  <2>1. \A j \in Body \ {i} : FailedBody(j)' <=> FailedBody(j)
    BY <1>4 DEF FailedBody
  <2>2. \A j \in Body :
          (stage'[j] # "none" <=> stage[j] # "none") /\ (stage'[j] = "queued" => stage[j] = "queued")
    BY <1>1, <1>2
  <2>3. \A j \in Body : stage[j] = "returned" => stage'[j] = "returned" /\ j # i
    BY <1>1, <1>2
  <2>4. QED
    BY <1>1, <2>1, <2>2, <2>3 DEF CompositesInv, OrderInv, Each
<1>10. SignalInv'
  <2>1. \A j \in Body : stage'[j] = "raised" <=> stage[j] = "raised"
    BY <1>1, <1>2
  <2>2. \A j \in Body : stage[j] = "raised" => (PausedIn(j)' <=> PausedIn(j))
    BY <1>1, <1>4 DEF PausedIn
  <2>3. (RaisedPause' <=> RaisedPause) /\ (RaisedStop' <=> RaisedStop)
    BY <2>1, <2>2 DEF RaisedPause, RaisedStop
  <2>4. QED
    BY <1>1, <2>3 DEF CompositesInv, SignalInv, Each
<1>11. EndInv' /\ VerdictInv'
  BY <1>1, <1>2 DEF EndInv, VerdictInv
<1>12. QED
  BY <1>5, <1>8, <1>9, <1>10, <1>11 DEF CompositesInv

\* Bodies that start, or queue for their slot, while no signal is held.
LEMMA EnterKeeps ==
  ASSUME CompositesInv, NEW S, NEW where \in {"queued", "body"}, Enter(S, where),
         Running, where = "queued" => Each,
         \A i \in S \intersect Body :
           /\ stage[i] \in {"none", "queued"}
           /\ (Each => i <= plan.total) /\ (plan.kind = "include" => i = 1)
           /\ ~Each => \A j \in Body :
                /\ j < i => stage[j] = "returned" /\ ~FailedBody(j)
                /\ i < j => stage[j] = "none" /\ j \notin S
  PROVE  CompositesInv'
<1>1. /\ stage' = [i \in Body |-> IF i \in S THEN where ELSE stage[i]]
      /\ UNCHANGED <<plan, control, reason, torn, verdict, answer, budget, cancel, rec, comp>>
  BY DEF Enter, outer, flags
<1>2. /\ comp.status = "running" /\ verdict = "none"
      /\ stage \in [Body -> {"none", "queued", "body", "returned", "raised", "cut"}]
  BY DEF Running, CompositesInv, VerdictInv, TypeOK
<1>3. TypeOK'
  BY <1>1, <1>2 DEF CompositesInv, TypeOK
<1>4. \A i \in Body :
        /\ i \in S => stage'[i] = where /\ stage[i] \in {"none", "queued"}
        /\ i \notin S => stage'[i] = stage[i]
  BY <1>1
<1>5. BodyInv'
  <2>1. \A i \in Body, p \in Pos : i \in S => rec[i][p] = Pending /\ Pending.status = "pending"
    BY <1>4 DEF CompositesInv, BodyInv, Pending, Record
  <2>2. QED
    BY <1>1, <1>4, <2>1 DEF CompositesInv, BodyInv, PausedIn, Decided, Each
<1>6. OrderInv'
  <2>1. \A i \in Body :
          /\ stage'[i] = "queued" => Each
          /\ stage'[i] # "none" /\ Each => i <= plan.total
          /\ stage'[i] # "none" /\ plan.kind = "include" => i = 1
    BY <1>4 DEF CompositesInv, OrderInv
  <2>2. ASSUME ~Each, NEW i \in Body, NEW j \in Body, j < i, stage'[i] # "none"
        PROVE  stage'[j] = "returned" /\ ~FailedBody(j)
    <3>1. CASE i \in S
      <4>1. stage[j] = "returned" /\ ~FailedBody(j)
        BY <2>2, <3>1
      <4>2. j \notin S
        BY <1>4, <4>1
      <4>3. QED
        BY <1>4, <4>1, <4>2
    <3>2. CASE i \notin S
      BY <1>4, <2>2, <3>2 DEF CompositesInv, OrderInv
    <3>3. QED
      BY <3>1, <3>2
  <2>3. QED
    <3>1. \A j \in Body : FailedBody(j)' <=> FailedBody(j)
      BY <1>1 DEF FailedBody
    <3>2. Each' <=> Each
      BY <1>1 DEF Each
    <3>3. QED
      BY <1>1, <2>1, <2>2, <3>1, <3>2 DEF OrderInv
<1>7. SignalInv'
  <2>1. ASSUME NEW j \in Body PROVE stage'[j] = "raised" <=> stage[j] = "raised"
    <3>1. CASE j \in S
      BY <1>4, <3>1
    <3>2. CASE j \notin S
      BY <1>4, <3>2
    <3>3. QED
      BY <3>1, <3>2
  <2>2. \A j \in Body : PausedIn(j)' <=> PausedIn(j)
    BY <1>1 DEF PausedIn
  <2>3. (RaisedPause' <=> RaisedPause) /\ (RaisedStop' <=> RaisedStop)
    BY <2>1, <2>2 DEF RaisedPause, RaisedStop
  <2>4. QED
    BY <1>1, <2>3 DEF CompositesInv, SignalInv, Each
<1>8. EndInv' /\ VerdictInv'
  BY <1>1, <1>2 DEF EndInv, VerdictInv
<1>9. QED
  BY <1>3, <1>5, <1>6, <1>7, <1>8 DEF CompositesInv

\* The composite ends: its bodies and the signal stay what they are.
LEMMA EndKeeps ==
  ASSUME CompositesInv, comp.status = "running", NEW s, NEW w \in Reasons, NEW e \in Errors,
         End(s, w, e), s \in Terminal \union {"paused"},
         Ends([status |-> s, why |-> w, error |-> e]),
         \A i \in Body : stage[i] \notin {"queued", "body"}
  PROVE  CompositesInv'
<1>1. /\ comp' = [status |-> s, why |-> w, error |-> e]
      /\ UNCHANGED <<plan, control, reason, torn, verdict, answer, budget, cancel, stage, rec>>
  BY DEF End, outer, flags
<1>2. verdict = "none"
  BY DEF CompositesInv, VerdictInv
<1>3. TypeOK'
  BY <1>1 DEF CompositesInv, TypeOK
<1>4. BodyInv'
  BY <1>1 DEF CompositesInv, BodyInv, PausedIn, Decided, Each
<1>5. OrderInv'
  BY <1>1 DEF CompositesInv, OrderInv, FailedBody, Each
<1>6. SignalInv'
  BY <1>1 DEF CompositesInv, SignalInv, RaisedPause, RaisedStop, PausedIn, Each
<1>7. Ends(comp)' <=> Ends(comp')
  BY <1>1 DEF Ends, NoFailedStep, Unreadable, Each
<1>8. EndInv'
  BY <1>1, <1>7 DEF EndInv
<1>9. VerdictInv'
  BY <1>1, <1>2 DEF VerdictInv
<1>10. QED
  BY <1>3, <1>4, <1>5, <1>6, <1>8, <1>9 DEF CompositesInv

\* A body that did not fail its composite has no failed step; one that has not started, no step at
\* all.
LEMMA NoneFailed ==
  ASSUME CompositesInv,
         \A i \in Body : stage[i] = "none" \/ ~FailedBody(i)
  PROVE  NoFailedStep
<1>1. SUFFICES ASSUME NEW i \in Body, NEW p \in Pos PROVE rec[i][p].status # "failed"
  BY DEF NoFailedStep
<1>2. CASE stage[i] = "none"
  BY <1>2 DEF CompositesInv, BodyInv, Pending, Record
<1>3. CASE ~FailedBody(i)
  BY <1>3 DEF FailedBody
<1>4. QED
  BY <1>2, <1>3

\* What fails a composite, of a body that returned, is a failed step or one the budget skipped.
LEMMA ReturnedFails ==
  ASSUME CompositesInv, NEW i \in Body, stage[i] = "returned", FailedBody(i)
  PROVE  budget \/ ~NoFailedStep
<1>1. PICK p \in Pos : \/ rec[i][p].status \in {"failed", "interrupted", "paused"}
                       \/ rec[i][p] = Record("skipped", "budget_exceeded")
  BY DEF FailedBody
<1>2. rec[i][p].status \in Terminal /\ rec[i][p].status # "interrupted"
  BY DEF CompositesInv, BodyInv, Decided
<1>3. rec[i][p].status # "paused"
  BY <1>2 DEF Terminal
<1>4. QED
  BY <1>1, <1>2, <1>3 DEF CompositesInv, BodyInv, NoFailedStep

LEMMA Quiet ==
  ASSUME CompositesInv, Running
  PROVE  comp.status = "running" /\ control = "none" /\ torn = "none" /\ plan \in Plan
BY DEF Running, CutPending, CompositesInv, TypeOK

LEMMA FailKeeps ==
  ASSUME CompositesInv, Running, NEW e \in Errors \ {"none"}, Fail(e),
         e \in {"items", "body", "budget"} => budget \/ ~NoFailedStep,
         e \in {"until", "outputs"} => \E i \in Body : Unreadable(i),
         \A i \in Body : stage[i] \notin {"queued", "body"}
  PROVE  CompositesInv'
<1>1. Ends([status |-> "failed", why |-> "none", error |-> e])
  BY Quiet DEF Ends
<1>2. "none" \in Reasons /\ "failed" \in Terminal
  BY DEF Reasons, Terminal
<1>3. QED
  BY <1>1, <1>2, Quiet, EndKeeps DEF Fail

LEMMA SucceedKeeps ==
  ASSUME CompositesInv, Running, Succeed, NoFailedStep \/ (Each /\ plan.lenient),
         \A i \in Body : stage[i] \notin {"queued", "body"}
  PROVE  CompositesInv'
<1>1. Ends([status |-> "succeeded", why |-> "none", error |-> "none"])
  BY Quiet DEF Ends
<1>2. "none" \in Reasons /\ "none" \in Errors /\ "succeeded" \in Terminal
  BY DEF Reasons, Terminal, Errors
<1>3. QED
  BY <1>1, <1>2, Quiet, EndKeeps DEF Succeed

LEMMA RunEachKeeps == ASSUME CompositesInv, RunEach PROVE CompositesInv'
<1>1. Running /\ Each /\ \A i \in Body : stage[i] = "none"
  BY DEF RunEach, Unborn
<1>2. CASE Fail("each")
  BY <1>1, <1>2, FailKeeps DEF Errors
<1>3. CASE Succeed
  BY <1>1, <1>3, NoneFailed, SucceedKeeps
<1>4. CASE Enter(1..plan.total, "queued")
  <2>1. plan.total \in Nat /\ plan.kind = "each"
    BY <1>1, Quiet, SizeAssumption DEF Plan, Each
  <2>2. \A i \in (1..plan.total) \intersect Body : i <= plan.total
    BY <2>1
  <2>3. QED
    BY <1>1, <1>4, <2>1, <2>2, EnterKeeps DEF Each
<1>5. QED
  BY <1>2, <1>3, <1>4 DEF RunEach

LEMMA AdmitKeeps == ASSUME CompositesInv, NEW i \in Body, Admit(i) PROVE CompositesInv'
<1>1. Running /\ stage[i] = "queued" /\ Enter({i}, "body")
  BY DEF Admit
<1>2. Each /\ i <= plan.total /\ plan.kind = "each"
  BY <1>1 DEF CompositesInv, OrderInv, Each
<1>3. QED
  BY <1>1, <1>2, EnterKeeps DEF Each

LEMMA EachEndsKeeps == ASSUME CompositesInv, EachEnds PROVE CompositesInv'
<1>1. Running /\ Each /\ Returned = 1..plan.total
      /\ IF ~plan.lenient /\ \E i \in Returned : FailedBody(i) THEN Fail("items") ELSE Succeed
  BY DEF EachEnds
<1>2. plan.total \in Nat
  BY <1>1, Quiet, SizeAssumption DEF Plan
<1>3. ASSUME NEW i \in Body PROVE stage[i] = "none" \/ (i \in Returned /\ stage[i] = "returned")
  <2>1. CASE i \in Returned
    BY <2>1 DEF Returned
  <2>2. CASE i \notin Returned
    <3>1. ~(i <= plan.total)
      BY <1>1, <1>2, <2>2 DEF Body
    <3>2. QED
      BY <1>1, <3>1 DEF CompositesInv, OrderInv
  <2>3. QED
    BY <2>1, <2>2
<1>4. CASE ~plan.lenient /\ \E i \in Returned : FailedBody(i)
  <2>1. budget \/ ~NoFailedStep
    BY <1>4, ReturnedFails DEF Returned
  <2>2. "items" \in Errors
    BY DEF Errors
  <2>3. QED
    BY <1>1, <1>3, <1>4, <2>1, <2>2, FailKeeps
<1>5. CASE ~(~plan.lenient /\ \E i \in Returned : FailedBody(i))
  <2>1. NoFailedStep \/ plan.lenient
    BY <1>3, <1>5, NoneFailed
  <2>2. QED
    BY <1>1, <1>3, <1>5, <2>1, SucceedKeeps
<1>6. QED
  BY <1>4, <1>5

LEMMA RunIncludeKeeps == ASSUME CompositesInv, RunInclude PROVE CompositesInv'
<1>1. Running /\ plan.kind = "include" /\ ~Each /\ \A i \in Body : stage[i] = "none"
  BY DEF RunInclude, Unborn, Each
<1>2. CASE Fail("with")
  BY <1>1, <1>2, FailKeeps DEF Errors
<1>3. CASE Enter({1}, "body")
  <2>1. \A j \in Body : ~(j < 1)
    BY DEF Body
  <2>2. QED
    BY <1>1, <1>3, <2>1, EnterKeeps
<1>4. QED
  BY <1>2, <1>3 DEF RunInclude

LEMMA IncludeEndsKeeps == ASSUME CompositesInv, IncludeEnds PROVE CompositesInv'
<1>1. /\ Running /\ plan.kind = "include" /\ Returned = {1}
      /\ IF FailedBody(1) THEN Fail("body") ELSE IF Unreadable(1) THEN Fail("outputs") ELSE Succeed
  BY DEF IncludeEnds
<1>2. 1 \in Body /\ stage[1] = "returned"
  BY <1>1 DEF Returned
<1>3. \A i \in Body : stage[i] = "none" \/ (i = 1 /\ stage[i] = "returned")
  BY <1>1, <1>2 DEF CompositesInv, OrderInv
<1>4. {"body", "outputs"} \subseteq Errors
  BY DEF Errors
<1>5. CASE FailedBody(1)
  BY <1>1, <1>2, <1>3, <1>4, <1>5, ReturnedFails, FailKeeps
<1>6. CASE ~FailedBody(1) /\ Unreadable(1)
  BY <1>1, <1>2, <1>3, <1>4, <1>6, FailKeeps
<1>7. CASE ~FailedBody(1) /\ ~Unreadable(1)
  BY <1>1, <1>3, <1>7, NoneFailed, SucceedKeeps
<1>8. QED
  BY <1>5, <1>6, <1>7

LEMMA RunLoopKeeps == ASSUME CompositesInv, RunLoop PROVE CompositesInv'
<1> DEFINE n == Cardinality(Returned)
<1>1. /\ Running /\ plan.kind = "loop" /\ ~Each
      /\ \A i \in Body : stage[i] = IF i \in 1..n THEN "returned" ELSE "none"
  BY DEF RunLoop, Each
<1>2. n \in 0..N
  <2>1. IsFiniteSet(1..N) /\ Cardinality(1..N) = N
    BY SizeAssumption, FS_Interval
  <2>2. Returned \subseteq 1..N
    BY DEF Returned, Body
  <2>3. n \in Nat /\ n <= N
    BY <2>1, <2>2, FS_Subset, FS_CardinalityType
  <2>4. QED
    BY <2>3, SizeAssumption
<1>3. \A i \in Body : stage[i] \notin {"queued", "body"} /\ (i \in 1..n <=> stage[i] # "none")
  BY <1>1
<1> DEFINE next == IF n = plan.total
                   THEN IF plan.until /\ ~plan.lenient THEN Fail("exhausted") ELSE Succeed
                   ELSE CASE budget -> Fail("budget")
                          [] ~budget /\ cancel -> End("interrupted", "cancelled", "none")
                          [] OTHER -> Enter({n + 1}, "body")
<1>4. CASE n > 0 /\ FailedBody(n)
  <2>1. Fail("body")
    BY <1>4, <1>2 DEF RunLoop
  <2>2. n \in Body /\ stage[n] = "returned"
    BY <1>1, <1>2, <1>4 DEF Body
  <2>3. budget \/ ~NoFailedStep
    BY <1>4, <2>2, ReturnedFails
  <2>4. "body" \in Errors \ {"none"}
    BY DEF Errors
  <2>5. QED
    BY <1>1, <1>3, <2>1, <2>3, <2>4, FailKeeps
<1>5. CASE ~(n > 0 /\ FailedBody(n))
  <2>1. ASSUME NEW i \in Body, i \in 1..n PROVE stage[i] = "returned" /\ ~FailedBody(i)
    <3>1. CASE i = n
      BY <1>1, <1>2, <1>5, <2>1, <3>1
    <3>2. CASE i # n
      <4>1. n \in Body /\ stage[n] # "none" /\ i < n
        BY <1>1, <1>2, <2>1, <3>2 DEF Body
      <4>2. QED
        BY <1>1, <2>1, <4>1 DEF CompositesInv, OrderInv
    <3>3. QED
      BY <3>1, <3>2
  <2>2. NoFailedStep
    BY <1>3, <2>1, NoneFailed
  <2>3. ASSUME Fail("until"), n > 0, Unreadable(n) PROVE CompositesInv'
    <3>1. n \in Body /\ "until" \in Errors \ {"none"}
      BY <1>2, <2>3 DEF Body, Errors
    <3>2. QED
      BY <1>1, <1>3, <2>3, <3>1, FailKeeps
  <2>4. ASSUME Succeed PROVE CompositesInv'
    BY <1>1, <1>3, <2>2, <2>4, SucceedKeeps
  <2>5. ASSUME Fail("exhausted") PROVE CompositesInv'
    BY <1>1, <1>3, <2>5, FailKeeps DEF Errors
  <2>6. ASSUME Fail("budget"), budget PROVE CompositesInv'
    BY <1>1, <1>3, <2>6, FailKeeps DEF Errors
  <2>7. ASSUME End("interrupted", "cancelled", "none") PROVE CompositesInv'
    <3>1. Ends([status |-> "interrupted", why |-> "cancelled", error |-> "none"])
      BY <1>1, <2>2, Quiet DEF Ends
    <3>2. "cancelled" \in Reasons /\ "none" \in Errors /\ "interrupted" \in Terminal
      BY DEF Reasons, Errors, Terminal
    <3>3. QED
      BY <1>1, <1>3, <2>7, <3>1, <3>2, Quiet, EndKeeps
  <2>8. ASSUME Enter({n + 1}, "body") PROVE CompositesInv'
    <3>1. ASSUME NEW i \in {n + 1} \intersect Body
          PROVE  /\ stage[i] = "none"
                 /\ \A j \in Body :
                      /\ j < i => stage[j] = "returned" /\ ~FailedBody(j)
                      /\ i < j => stage[j] = "none" /\ j \notin {n + 1}
      <4>1. \A j \in Body : (j < i <=> j \in 1..n) /\ (i < j => j \notin 1..n /\ j # n + 1)
        BY <1>2 DEF Body
      <4>2. i \notin 1..n
        BY <1>2
      <4>3. QED
        BY <1>1, <2>1, <4>1, <4>2
    <3>2. plan.kind # "include"
      BY <1>1
    <3> HIDE DEF n
    <3>3. QED
      BY <1>1, <2>8, <3>1, <3>2, EnterKeeps
  <2>9. ASSUME next PROVE CompositesInv'
    <3>1. CASE n = plan.total
      BY <2>4, <2>5, <2>9, <3>1
    <3>2. CASE n # plan.total
      BY <2>6, <2>7, <2>8, <2>9, <3>2
    <3>3. QED
      BY <3>1, <3>2
  <2>10. (Fail("until") /\ n > 0 /\ Unreadable(n)) \/ Succeed \/ next
    BY <1>5 DEF RunLoop
  <2> HIDE DEF next
  <2>11. QED
    BY <2>3, <2>4, <2>9, <2>10
<1>6. QED
  BY <1>4, <1>5

LEMMA UnwindKeeps == ASSUME CompositesInv, Unwind PROVE CompositesInv'
<1>1. /\ comp.status = "running" /\ CutPending /\ \A i \in Body : stage[i] # "none" => Over(i)
      /\ IF torn # "none" THEN End("interrupted", torn, "none")
         ELSE IF control = "pause" THEN End("paused", "paused", "none")
         ELSE End("interrupted", "stopped", "none")
  BY DEF Unwind
<1>2. \A i \in Body : stage[i] \notin {"queued", "body"}
  BY <1>1 DEF Over
<1>3. torn \in {"none", "stopped", "paused", "failed"} /\ control \in {"none", "stop", "pause"}
  BY DEF CompositesInv, TypeOK
<1>4. /\ {"stopped", "paused", "failed"} \subseteq Reasons /\ "none" \in Errors
      /\ "interrupted" \in Terminal
  BY DEF Reasons, Errors, Terminal
<1>5. CASE torn # "none"
  <2>1. Ends([status |-> "interrupted", why |-> torn, error |-> "none"])
    BY <1>5 DEF Ends
  <2>2. QED
    BY <1>1, <1>2, <1>3, <1>4, <1>5, <2>1, EndKeeps
<1>6. CASE torn = "none" /\ control = "pause"
  <2>1. answer
    BY <1>6 DEF CompositesInv, SignalInv, RaisedPause, BodyInv
  <2>2. Ends([status |-> "paused", why |-> "paused", error |-> "none"])
    BY <1>6, <2>1 DEF Ends
  <2>3. QED
    BY <1>1, <1>2, <1>4, <1>6, <2>2, EndKeeps
<1>7. CASE torn = "none" /\ control # "pause"
  <2>1. control = "stop"
    BY <1>1, <1>3, <1>7 DEF CutPending
  <2>2. Ends([status |-> "interrupted", why |-> "stopped", error |-> "none"])
    BY <1>7, <2>1 DEF Ends
  <2>3. QED
    BY <1>1, <1>2, <1>4, <1>7, <2>2, EndKeeps
<1>8. QED
  BY <1>5, <1>6, <1>7

LEMMA TearKeeps == ASSUME CompositesInv, Tear PROVE CompositesInv'
<1>1. /\ comp.status = "running" /\ verdict = "none" /\ torn' = plan.sibling /\ torn' # "none"
      /\ answer' = (answer \/ torn' = "paused")
      /\ UNCHANGED <<plan, stage, rec, comp, control, reason, budget, cancel, verdict>>
  BY DEF Tear, CompositesInv, VerdictInv
<1>2. torn' \in {"none", "stopped", "paused", "failed"}
  <2>1. plan \in Plan
    BY DEF CompositesInv, TypeOK
  <2>2. QED
    BY <1>1, <2>1 DEF Plan
<1>3. TypeOK'
  <2>1. answer' \in BOOLEAN
    BY <1>1 DEF CompositesInv, TypeOK
  <2>2. QED
    BY <1>1, <1>2, <2>1 DEF CompositesInv, TypeOK
<1>4. BodyInv'
  BY <1>1 DEF CompositesInv, BodyInv, PausedIn, Decided, Each
<1>5. OrderInv'
  BY <1>1 DEF CompositesInv, OrderInv, FailedBody, Each
<1>6. SignalInv'
  BY <1>1 DEF CompositesInv, SignalInv, RaisedPause, RaisedStop, PausedIn, Each
<1>7. EndInv' /\ VerdictInv'
  BY <1>1 DEF EndInv, VerdictInv
<1>8. QED
  BY <1>3, <1>4, <1>5, <1>6, <1>7 DEF CompositesInv

LEMMA RequestCancelKeeps == ASSUME CompositesInv, RequestCancel PROVE CompositesInv'
<1>1. /\ comp.status = "running" /\ verdict = "none" /\ cancel' = TRUE
      /\ UNCHANGED <<plan, stage, rec, comp, control, reason, torn, answer, budget, verdict>>
  BY DEF RequestCancel, CompositesInv, VerdictInv, outer
<1>2. TypeOK'
  BY <1>1 DEF CompositesInv, TypeOK
<1>3. BodyInv'
  BY <1>1 DEF CompositesInv, BodyInv, PausedIn, Decided, Each
<1>4. OrderInv'
  BY <1>1 DEF CompositesInv, OrderInv, FailedBody, Each
<1>5. SignalInv'
  BY <1>1 DEF CompositesInv, SignalInv, RaisedPause, RaisedStop, PausedIn, Each
<1>6. EndInv' /\ VerdictInv'
  BY <1>1 DEF EndInv, VerdictInv
<1>7. QED
  BY <1>2, <1>3, <1>4, <1>5, <1>6 DEF CompositesInv

\* A step that leaves everything but the verdict alone.
LEMMA VerdictKeeps ==
  ASSUME CompositesInv, UNCHANGED <<plan, control, reason, torn, flags, stage, rec, comp>>,
         verdict' \in {"none", "succeeded", "failed", "cancelled", "paused", "stopped"}, VerdictInv'
  PROVE  CompositesInv'
<1>1. UNCHANGED <<plan, control, reason, torn, answer, budget, cancel, stage, rec, comp>>
  BY DEF flags
<1>2. TypeOK'
  BY <1>1 DEF CompositesInv, TypeOK
<1>3. BodyInv'
  BY <1>1 DEF CompositesInv, BodyInv, PausedIn, Decided, Each
<1>4. OrderInv'
  BY <1>1 DEF CompositesInv, OrderInv, FailedBody, Each
<1>5. SignalInv'
  BY <1>1 DEF CompositesInv, SignalInv, RaisedPause, RaisedStop, PausedIn, Each
<1>6. Ends(comp)' <=> Ends(comp)
  BY <1>1 DEF Ends, NoFailedStep, Unreadable, Each
<1>7. EndInv'
  BY <1>1, <1>6 DEF CompositesInv, EndInv
<1>8. QED
  BY <1>2, <1>3, <1>4, <1>5, <1>7 DEF CompositesInv

LEMMA FinalizeKeeps == ASSUME CompositesInv, Finalize PROVE CompositesInv'
<1>1. UNCHANGED <<plan, control, reason, torn, flags, stage, rec, comp>> /\ comp.status # "running"
  BY DEF Finalize
<1>2. Failed' <=> Failed
  BY <1>1 DEF Failed, Counts, StopCollateral, CancelCollateral
<1>3. VerdictInv'
  BY <1>1, <1>2 DEF Finalize, VerdictInv, flags
<1>4. verdict' \in {"succeeded", "failed", "cancelled", "paused", "stopped"}
  BY DEF Finalize
<1>5. QED
  BY <1>1, <1>3, <1>4, VerdictKeeps

LEMMA StutterKeeps == ASSUME CompositesInv, UNCHANGED vars PROVE CompositesInv'
<1>1. UNCHANGED <<plan, control, reason, torn, flags, stage, rec, comp>> /\ verdict' = verdict
  BY DEF vars, flags
<1>2. Failed' <=> Failed
  BY <1>1 DEF Failed, Counts, StopCollateral, CancelCollateral
<1>3. VerdictInv'
  BY <1>1, <1>2 DEF CompositesInv, VerdictInv, flags
<1>4. QED
  BY <1>1, <1>3, VerdictKeeps DEF CompositesInv, TypeOK

LEMMA CompositesStep == ASSUME CompositesInv, [Next]_vars PROVE CompositesInv'
<1>1. CASE Executor
  BY <1>1, RunEachKeeps, EachEndsKeeps, RunLoopKeeps, RunIncludeKeeps, IncludeEndsKeeps, UnwindKeeps
     DEF Executor
<1>2. ASSUME NEW i \in Body, Work(i) \/ Admit(i) PROVE CompositesInv'
  BY <1>2, BodyStepKeeps, ReturnKeeps, RaiseKeeps, CutKeeps, AdmitKeeps DEF Work
<1>3. CASE Tear \/ RequestCancel \/ Finalize
  BY <1>3, TearKeeps, RequestCancelKeeps, FinalizeKeeps
<1>4. CASE Done \/ UNCHANGED vars
  BY <1>4, StutterKeeps DEF Done
<1>5. QED
  BY <1>1, <1>2, <1>3, <1>4 DEF Next

\* The executors of each:, loop: and include:, with anything a sibling, a cap or a cancel does to
\* them: the records of the bodies, the signal and the composite's own record fit each other.
THEOREM CompositesAreSound == Spec => []CompositesInv
<1>1. CompositesInv /\ [Next]_vars => CompositesInv'
  BY CompositesStep
<1>2. QED
  BY CompositesInit, <1>1, PTL DEF Spec

LEMMA VanishesNot == ASSUME CompositesInv PROVE FailureNeverVanishes
<1> SUFFICES ASSUME verdict \in {"succeeded", "cancelled", "stopped"},
                    NEW i \in Body, NEW p \in Pos, rec[i][p].status = "failed"
             PROVE  plan.kind = "each" /\ plan.lenient /\ comp.status = "succeeded"
  BY DEF FailureNeverVanishes
<1>1. ~NoFailedStep
  BY DEF NoFailedStep
<1>2. ~Failed /\ ~answer /\ comp.status # "running"
  BY DEF CompositesInv, VerdictInv
<1>3. Counts(rec[i][p])
  BY DEF Counts, StopCollateral, CancelCollateral
<1>4. torn # "failed" /\ ~Counts(comp) /\ ~StopCollateral(comp)
  BY <1>2, <1>3 DEF Failed
<1>5. torn \in {"none", "stopped", "paused"} /\ torn # "paused"
  BY <1>2, <1>4 DEF CompositesInv, TypeOK, SignalInv
<1>6. Ends(comp)
  BY <1>2 DEF CompositesInv, EndInv
<1>7. comp.status # "interrupted"
  BY <1>1, <1>4, <1>5, <1>6 DEF Ends, StopCollateral
<1>8. comp.status # "failed"
  BY <1>4 DEF Counts, StopCollateral, CancelCollateral
<1>9. QED
  BY <1>1, <1>2, <1>6, <1>7, <1>8 DEF Ends, Each

LEMMA StrongestPasses == ASSUME CompositesInv PROVE StrongestSignal
<1> SUFFICES ASSUME comp.status # "running", torn = "none"
             PROVE  /\ comp.status = "paused" <=> RaisedPause
                    /\ StopCollateral(comp) <=> RaisedStop /\ ~RaisedPause
  BY DEF StrongestSignal, RaisedPause, RaisedStop, PausedIn
<1>1. Ends(comp)
  BY DEF CompositesInv, EndInv
<1>2. /\ control = "pause" <=> RaisedPause
      /\ control = "stop" <=> RaisedStop /\ ~RaisedPause
  BY DEF CompositesInv, SignalInv
<1>3. QED
  BY <1>1, <1>2 DEF Ends, StopCollateral

LEMMA CancelIsNoFailure == ASSUME CompositesInv PROVE CancelFailsOnlyOnReading
<1> SUFFICES ASSUME cancel, verdict = "failed", ~budget, torn = "none", NoFailedStep
             PROVE  \/ comp.error \in {"each", "with", "exhausted"}
                    \/ comp.error \in {"until", "outputs"} /\ \E i \in Body : Unreadable(i)
  BY DEF CancelFailsOnlyOnReading
<1>1. Failed /\ comp.status # "running" /\ Ends(comp)
  BY DEF CompositesInv, VerdictInv, EndInv
<1>2. ~(StopCollateral(comp) /\ \E i \in Body, p \in Pos : Counts(rec[i][p]))
  <2> SUFFICES ASSUME StopCollateral(comp), NEW i \in Body, NEW p \in Pos, Counts(rec[i][p])
               PROVE  FALSE
    OBVIOUS
  <2>1. control = "stop"
    BY <1>1 DEF Ends, StopCollateral
  <2>2. rec[i][p].status = "interrupted" /\ ~StopCollateral(rec[i][p])
    BY DEF Counts, NoFailedStep
  <2>3. Each /\ rec[i][p].why = reason /\ reason = "stopped"
    BY <2>1, <2>2 DEF CompositesInv, BodyInv, SignalInv
  <2>4. QED
    BY <2>2, <2>3 DEF StopCollateral
<1>3. Counts(comp)
  BY <1>1, <1>2 DEF Failed
<1>4. comp.status = "failed" /\ comp.error # "none"
  BY <1>1, <1>3 DEF Counts, StopCollateral, CancelCollateral, Ends
<1>5. comp.error \notin {"items", "body", "budget"}
  BY <1>1, <1>4 DEF Ends
<1>6. comp.error \in Errors
  BY DEF CompositesInv, TypeOK
<1>7. QED
  BY <1>1, <1>4, <1>5, <1>6 DEF Ends, Errors

\* runner.py, run_failures: no failed step of a body is lost on its way to the verdict.
THEOREM FailuresReachTheVerdict == Spec => []FailureNeverVanishes
<1>1. CompositesInv => FailureNeverVanishes
  BY VanishesNot
<1>2. QED
  BY <1>1, CompositesAreSound, PTL

\* executors/each.py: a pause beats a stop, whatever order the items raise them in.
THEOREM SignalsKeepRank == Spec => []StrongestSignal
<1>1. CompositesInv => StrongestSignal
  BY StrongestPasses
<1>2. QED
  BY <1>1, CompositesAreSound, PTL

\* A cancel makes a run fail only through what the composite reads of the steps it skipped.
THEOREM CancelsEndCancelled == Spec => []CancelFailsOnlyOnReading
<1>1. CompositesInv => CancelFailsOnlyOnReading
  BY CancelIsNoFailure
<1>2. QED
  BY <1>1, CompositesAreSound, PTL

------------------------------------------------------------------------------
(* The permits of the leaves, here and in LaunchGate *)

\* Over every body at once, no more leaves run than there are permits.
LeavesWithinLimit == Cardinality(RunningLeaves) <= MaxParallel

LEMMA LeavesFinite == IsFiniteSet(Body \X Pos) /\ IsFiniteSet(RunningLeaves)
<1>1. IsFiniteSet(Body) /\ IsFiniteSet(Pos)
  BY SizeAssumption, FS_Interval DEF Body, Pos
<1>2. IsFiniteSet(Body \X Pos)
  BY <1>1, FS_Product
<1>3. RunningLeaves \subseteq Body \X Pos
  BY DEF RunningLeaves
<1>4. QED
  BY <1>2, <1>3, FS_Subset

LEMMA FewerLeaves ==
  ASSUME LeavesWithinLimit, RunningLeaves' \subseteq RunningLeaves
  PROVE  LeavesWithinLimit'
<1>1. Cardinality(RunningLeaves') <= Cardinality(RunningLeaves)
  BY LeavesFinite, FS_Subset
<1>2. /\ IsFiniteSet(RunningLeaves') /\ Cardinality(RunningLeaves') \in Nat
      /\ Cardinality(RunningLeaves) \in Nat
  BY LeavesFinite, FS_Subset, FS_CardinalityType
<1>3. QED
  BY <1>1, <1>2, ParallelAssumption DEF LeavesWithinLimit

LEMMA LeavesInit == ASSUME Init PROVE LeavesWithinLimit
<1>1. plan \in Plan /\ \A x \in Body \X Pos : rec[x[1]][x[2]].status \notin {"asked", "running"}
  BY PlansAssumption DEF Init, Pending, Record
<1>2. RunningLeaves = {}
  BY <1>1 DEF RunningLeaves
<1>3. QED
  BY <1>2, FS_EmptySet, ParallelAssumption DEF LeavesWithinLimit

\* A write other than the start of a leaf lets none run that did not.
LEMMA WriteStartsNone ==
  ASSUME TypeOK, NEW i \in Body, NEW p \in Pos, NEW r, Write(i, p, r), plan' = plan,
         plan.what[p] = "leaf" => r.status \notin {"asked", "running"}
  PROVE  RunningLeaves' \subseteq RunningLeaves
<1>1. ASSUME NEW x \in Body \X Pos, plan.what[x[2]] = "leaf",
             rec'[x[1]][x[2]].status \in {"asked", "running"}
      PROVE  rec[x[1]][x[2]].status \in {"asked", "running"}
  <2>1. x[1] \in Body /\ x[2] \in Pos
    OBVIOUS
  <2>2. rec'[x[1]][x[2]] = IF x[1] = i /\ x[2] = p THEN r ELSE rec[x[1]][x[2]]
    BY <2>1 DEF Write, TypeOK
  <2>3. QED
    BY <1>1, <2>2
<1>2. QED
  BY <1>1 DEF RunningLeaves

LEMMA LeavesStep == ASSUME TypeOK, LeavesWithinLimit, [Next]_vars PROVE LeavesWithinLimit'
<1>1. ASSUME NEW i \in Body, NEW p \in Pos, AskLeaf(i, p) PROVE LeavesWithinLimit'
  <2>1. Cardinality(RunningLeaves) < MaxParallel /\ plan' = plan
    BY <1>1 DEF AskLeaf, outer
  <2>2. RunningLeaves' \subseteq RunningLeaves \union {<<i, p>>}
    <3>1. rec' = [rec EXCEPT ![i] = [rec[i] EXCEPT ![p] = rec'[i][p]]]
      BY <1>1 DEF AskLeaf, Write, TypeOK
    <3>2. ASSUME NEW x \in Body \X Pos, x # <<i, p>> PROVE rec'[x[1]][x[2]] = rec[x[1]][x[2]]
      BY <1>1, <3>2 DEF AskLeaf, Write, TypeOK
    <3>3. QED
      BY <2>1, <3>2 DEF RunningLeaves
  <2> DEFINE more == RunningLeaves \union {<<i, p>>}
  <2>3. /\ IsFiniteSet(more) /\ Cardinality(RunningLeaves) \in Nat
        /\ Cardinality(more) \in {Cardinality(RunningLeaves), Cardinality(RunningLeaves) + 1}
    BY LeavesFinite, FS_AddElement, FS_CardinalityType
  <2>4. IsFiniteSet(RunningLeaves') /\ Cardinality(RunningLeaves') <= Cardinality(more)
        /\ Cardinality(RunningLeaves') \in Nat
    BY <2>2, <2>3, FS_Subset, FS_CardinalityType
  <2>5. QED
    BY <2>1, <2>3, <2>4, ParallelAssumption DEF LeavesWithinLimit
<1>2. ASSUME NEW i \in Body, Decide(i) PROVE LeavesWithinLimit'
  <2>1. PICK p \in Pos : \E r : /\ Write(i, p, r) /\ plan' = plan
                                /\ plan.what[p] = "leaf" => r.status \notin {"asked", "running"}
    BY <1>2 DEF Decide, Record, outer
  <2>2. QED
    BY <2>1, WriteStartsNone, FewerLeaves
<1>3. ASSUME NEW i \in Body, NEW p \in Pos, EndLeaf(i, p) \/ EndStop(i, p) \/ EndGate(i, p)
      PROVE  LeavesWithinLimit'
  <2>1. PICK r : Write(i, p, r) /\ plan' = plan /\ r.status \notin {"asked", "running"}
    BY <1>3 DEF EndLeaf, EndStop, EndGate, Record, outer
  <2>2. QED
    BY <2>1, WriteStartsNone, FewerLeaves
<1>4. ASSUME NEW i \in Body, Cut(i) PROVE LeavesWithinLimit'
  <2>1. plan' = plan
    BY <1>4 DEF Cut, outer
  <2>2. \A x \in Body \X Pos : rec'[x[1]][x[2]].status \in {"asked", "running"}
                               => rec[x[1]][x[2]].status \in {"asked", "running"}
    BY <1>4 DEF Cut, Record, TypeOK
  <2>3. RunningLeaves' \subseteq RunningLeaves
    BY <2>1, <2>2 DEF RunningLeaves
  <2>4. QED
    BY <2>3, FewerLeaves
<1>0. ASSUME NEW i \in Body, NEW p \in Pos, StartLeaf(i, p) PROVE LeavesWithinLimit'
  <2>1. plan' = plan /\ rec[i][p].status = "asked" /\ Write(i, p, Record("running", "none"))
    BY <1>0 DEF StartLeaf, outer
  <2>2. \A x \in Body \X Pos : rec'[x[1]][x[2]].status \in {"asked", "running"}
                               => rec[x[1]][x[2]].status \in {"asked", "running"}
    BY <2>1 DEF Write, TypeOK
  <2>3. RunningLeaves' \subseteq RunningLeaves
    BY <2>1, <2>2 DEF RunningLeaves
  <2>4. QED
    BY <2>3, FewerLeaves
<1>5. ASSUME NEW i \in Body, Return(i) \/ Raise(i) \/ Admit(i) PROVE UNCHANGED <<plan, rec>>
  BY <1>5 DEF Return, Raise, Admit, Enter, outer
<1>6. ASSUME Executor PROVE UNCHANGED <<plan, rec>>
  BY <1>6 DEF Executor, RunEach, EachEnds, RunLoop, RunInclude, IncludeEnds, Unwind, Enter, Fail,
              Succeed, End, outer
<1>7. ASSUME Tear \/ RequestCancel \/ Finalize \/ Done \/ UNCHANGED vars PROVE UNCHANGED <<plan, rec>>
  BY <1>7 DEF Tear, RequestCancel, Finalize, Done, vars, outer
<1>8. ASSUME UNCHANGED <<plan, rec>> PROVE LeavesWithinLimit'
  BY <1>8 DEF LeavesWithinLimit, RunningLeaves
<1>9. QED
  BY <1>0, <1>1, <1>2, <1>3, <1>4, <1>5, <1>6, <1>7, <1>8 DEF Next, Work

\* runtime.py, leaf_permit: the items of an each: and the bodies below it share the run's limit.
THEOREM BodiesShareThePermits == Spec => []LeavesWithinLimit
<1>1. CompositesInv => TypeOK
  BY DEF CompositesInv
<1>2. TypeOK /\ LeavesWithinLimit /\ [Next]_vars => LeavesWithinLimit'
  BY LeavesStep
<1>3. QED
  BY LeavesInit, <1>1, <1>2, CompositesAreSound, PTL DEF Spec

------------------------------------------------------------------------------
(* LaunchGate *)

\* The approval lock is held from before the gate closes until after it opens.
Holders == {g \in Gate : gate[g] \in {"held", "quiescing", "woken", "asking", "recording"}}

LockInv ==
  /\ gate \in [Gate -> GatePcs] /\ lock \in Gate \union {Free} /\ open \in BOOLEAN
  /\ \A g \in Gate : g \in Holders <=> lock = g
  /\ open = (Closers = {})

Runners == {l \in Leaf : leaf[l] = "running"}

CountInv ==
  /\ leaf \in [Leaf -> LeafPcs] /\ idle \in BOOLEAN
  /\ CountIsTrue

\* The lock names the one gate that holds it, so at most one gate can have closed the gate.
LEMMA HoldersClose == LockInv => ClosedForOne
BY FreeAssumption DEF LockInv, ClosedForOne, Closers, Holders

LEMMA LockInit == LaunchInit => LockInv
BY FreeAssumption DEF LaunchInit, LockInv, Closers, Holders, GatePcs

\* Every step of a gate keeps the lock and the launch gate in step with where the gates are.
LEMMA LockStep == ASSUME LockInv, [LaunchNext]_launchVars PROVE LockInv'
<1> USE FreeAssumption DEF LockInv, Closers, Holders, GatePcs
<1>1. ASSUME NEW l \in Leaf, AskPermit(l) \/ LeafMoves(l) \/ CutLeaf(l) PROVE LockInv'
  BY <1>1 DEF AskPermit, LeafMoves, TakeSlot, EnterLeaf, Leave, CutLeaf, gateFrame
<1>2. ASSUME NEW g \in Gate, AskLock(g) PROVE LockInv'
  BY <1>2 DEF AskLock, Move
<1>3. ASSUME NEW g \in Gate, Lock(g) PROVE LockInv'
  BY <1>3 DEF Lock, Move
<1>4. ASSUME NEW g \in Gate, Close(g) PROVE LockInv'
  BY <1>4 DEF Close, Move
<1>5. ASSUME NEW g \in Gate, Wake(g) PROVE LockInv'
  BY <1>5 DEF Wake, Move
<1>6. ASSUME NEW g \in Gate, Recheck(g) PROVE LockInv'
  BY <1>6 DEF Recheck, Move
<1>7. ASSUME NEW g \in Gate, Answer(g) PROVE LockInv'
  BY <1>7 DEF Answer, Move, OpenGate
<1>8. ASSUME NEW g \in Gate, NoAnswer(g) PROVE LockInv'
  BY <1>8 DEF NoAnswer, Move, OpenGate
<1>9. ASSUME NEW g \in Gate, Recorded(g) PROVE LockInv'
  BY <1>9 DEF Recorded, Move
<1>10. ASSUME NEW g \in Gate, CutGate(g) PROVE LockInv'
  <2>1. CASE g \in Closers
    <3>1. lock = g /\ lock' = Free /\ open' = TRUE /\ gate' = [gate EXCEPT ![g] = "out"]
      BY <1>10, <2>1 DEF CutGate, Move, OpenGate
    <3>2. \A h \in Gate \ {g} : gate[h] \notin {"quiescing", "woken", "asking"}
      BY <3>1
    <3> QED BY <3>1, <3>2
  <2>2. CASE g \notin Closers
    <3>1. /\ gate[g] \in {"locking", "held"} /\ open' = open
          /\ gate' = [gate EXCEPT ![g] = "out"] /\ lock' = IF lock = g THEN Free ELSE lock
      BY <1>10, <2>2 DEF CutGate, Move
    <3>2. Closers' = Closers
      BY <3>1
    <3> QED BY <3>1, <3>2
  <2> QED BY <2>1, <2>2
<1>11. CASE UNCHANGED launchVars
  BY <1>11 DEF launchVars
<1>12. QED
  BY <1>1, <1>2, <1>3, <1>4, <1>5, <1>6, <1>7, <1>8, <1>9, <1>10, <1>11 DEF LaunchNext, GateMoves

LEMMA CountInit == LaunchInit => CountInv
<1>1. LaunchInit => Runners = {}
  BY DEF LaunchInit, Runners
<1>2. QED
  BY <1>1, FS_EmptySet DEF LaunchInit, CountInv, CountIsTrue, Runners, LeafPcs

\* Any step that moves no leaf into or out of "running" keeps the count.
LEMMA CountKept ==
  ASSUME CountInv, leaf' \in [Leaf -> LeafPcs], Runners' = Runners, UNCHANGED <<idle, active>>
  PROVE  CountInv'
BY DEF CountInv, CountIsTrue, Runners

\* Entering and leaving change the count with the set it counts.
LEMMA CountStep == ASSUME CountInv, [LaunchNext]_launchVars PROVE CountInv'
<1>1. IsFiniteSet(Runners)
  BY LeafAssumption, FS_Subset DEF Runners
<1>2. ASSUME NEW l \in Leaf, EnterLeaf(l) PROVE CountInv'
  <2>1. Runners' = Runners \union {l} /\ l \notin Runners
    BY <1>2 DEF EnterLeaf, CountInv, Runners, LeafPcs
  <2>2. Cardinality(Runners') = Cardinality(Runners) + 1 /\ Cardinality(Runners) \in Nat
    BY <1>1, <2>1, FS_AddElement, FS_CardinalityType
  <2>3. leaf' \in [Leaf -> LeafPcs] /\ idle' = FALSE /\ active' = active + 1
    BY <1>2 DEF EnterLeaf, CountInv, LeafPcs
  <2>4. active = Cardinality(Runners)
    BY DEF CountInv, CountIsTrue, Runners
  <2>5. active' = Cardinality(Runners') /\ active' # 0
    BY <2>2, <2>3, <2>4
  <2>6. idle' = (active' = 0)
    BY <2>3, <2>5
  <2>7. QED
    BY <2>3, <2>5, <2>6 DEF CountInv, CountIsTrue, Runners
<1>3. ASSUME NEW l \in Leaf, Leave(l) PROVE CountInv'
  <2>1. Runners' = Runners \ {l} /\ l \in Runners
    BY <1>3 DEF Leave, CountInv, Runners, LeafPcs
  <2>2. /\ Cardinality(Runners') = Cardinality(Runners) - 1
        /\ Cardinality(Runners) \in Nat /\ Cardinality(Runners) # 0
    BY <1>1, <2>1, FS_RemoveElement, FS_CardinalityType, FS_EmptySet
  <2>3. leaf' \in [Leaf -> LeafPcs] /\ active' = active - 1
    BY <1>3 DEF Leave, CountInv, LeafPcs
  <2>4. idle = FALSE /\ idle' = (active' = 0)
    BY <1>3, <2>2 DEF Leave, CountInv, CountIsTrue, Runners
  <2>5. QED
    BY <2>2, <2>3, <2>4 DEF CountInv, CountIsTrue, Runners
<1>4. ASSUME NEW l \in Leaf, AskPermit(l) \/ TakeSlot(l) \/ CutLeaf(l) PROVE CountInv'
  <2>1. leaf' \in [Leaf -> LeafPcs] /\ Runners' = Runners /\ UNCHANGED <<idle, active>>
    BY <1>4 DEF AskPermit, TakeSlot, CutLeaf, CountInv, Runners, LeafPcs
  <2>2. QED
    BY <2>1, CountKept
<1>5. ASSUME NEW g \in Gate, AskLock(g) \/ Lock(g) \/ GateMoves(g) \/ CutGate(g)
      PROVE CountInv'
  <2>1. UNCHANGED <<idle, active>>
    BY <1>5 DEF AskLock, Lock, GateMoves, Close, Wake, Recheck, Answer, NoAnswer, Recorded,
                CutGate, leafFrame
  <2>2. leaf' = leaf \/ OpenGate
    BY <1>5 DEF AskLock, Lock, GateMoves, Close, Wake, Recheck, Answer, NoAnswer, Recorded,
                CutGate
  <2>3. leaf' \in [Leaf -> LeafPcs] /\ Runners' = Runners
    BY <2>2 DEF OpenGate, CountInv, Runners, LeafPcs
  <2>4. QED
    BY <2>1, <2>3, CountKept
<1>6. CASE UNCHANGED launchVars
  BY <1>6 DEF launchVars, CountInv, CountIsTrue
<1>7. QED
  BY <1>2, <1>3, <1>4, <1>5, <1>6 DEF LaunchNext, LeafMoves

\* approve.py, _ask and run_approve: one gate at a time closes the launch gate, whatever is
\* cancelled, and the launch gate is open again whenever none of them needs it.
THEOREM GateClosedForOne == LaunchSpec => []ClosedForOne
<1>1. LockInv /\ [LaunchNext]_launchVars => LockInv'
  BY LockStep
<1>2. QED
  BY LockInit, <1>1, HoldersClose, PTL DEF LaunchSpec

\* runtime.py, leaf_permit: the count and the idle event never drift from the running leaves.
THEOREM LeavesAreCounted == LaunchSpec => []CountIsTrue
<1>1. CountInv /\ [LaunchNext]_launchVars => CountInv'
  BY CountStep
<1>2. CountInv => CountIsTrue
  BY DEF CountInv
<1>3. QED
  BY CountInit, <1>1, <1>2, PTL DEF LaunchSpec

LEMMA LaunchTyped ==
  ASSUME LockInv, CountInv
  PROVE  LaunchTypeOK
<1>1. /\ Cardinality(Runners) \in Nat /\ Cardinality(Runners) <= Cardinality(Leaf)
      /\ Cardinality(Leaf) \in Nat
  BY LeafAssumption, FS_Subset, FS_CardinalityType DEF Runners
<1>2. active = Cardinality(Runners)
  BY DEF CountInv, CountIsTrue, Runners
<1>3. active \in 0..Cardinality(Leaf)
  BY <1>1, <1>2
<1>4. QED
  BY <1>3 DEF LockInv, CountInv, LaunchTypeOK

\* The count of running leaves never goes below zero or above the leaves there are, and the lock is
\* held by at most one approve: step.
THEOREM LaunchIsTyped == LaunchSpec => []LaunchTypeOK
<1>1. LockInv /\ [LaunchNext]_launchVars => LockInv'
  BY LockStep
<1>2. CountInv /\ [LaunchNext]_launchVars => CountInv'
  BY CountStep
<1>3. LockInv /\ CountInv => LaunchTypeOK
  BY LaunchTyped
<1>4. QED
  BY LockInit, CountInit, <1>1, <1>2, <1>3, PTL DEF LaunchSpec

\* The limiter: a queued leaf that finds a slot cannot take one more than there are.
SlotsWithinLimit == Cardinality(SlotsTaken) <= MaxParallel

LEMMA SlotsFinite == IsFiniteSet(SlotsTaken) /\ Cardinality(SlotsTaken) \in Nat
BY LeafAssumption, FS_Subset, FS_CardinalityType DEF SlotsTaken

\* A step that takes no slot, or that takes one while one is free.
LEMMA SlotsKept ==
  ASSUME SlotsWithinLimit, SlotsTaken' \subseteq SlotsTaken
  PROVE  SlotsWithinLimit'
<1>1. Cardinality(SlotsTaken') <= Cardinality(SlotsTaken) /\ Cardinality(SlotsTaken') \in Nat
  BY SlotsFinite, FS_Subset, FS_CardinalityType
<1>2. QED
  BY <1>1, SlotsFinite, ParallelAssumption DEF SlotsWithinLimit

LEMMA SlotAdded ==
  ASSUME SlotFree, NEW l \in Leaf, SlotsTaken' = SlotsTaken \union {l}
  PROVE  SlotsWithinLimit'
<1>1. Cardinality(SlotsTaken') \in {Cardinality(SlotsTaken), Cardinality(SlotsTaken) + 1}
  BY SlotsFinite, FS_AddElement
<1>2. QED
  BY <1>1, SlotsFinite, ParallelAssumption DEF SlotsWithinLimit, SlotFree

LEMMA SlotsStep ==
  ASSUME LaunchTypeOK, SlotsWithinLimit, [LaunchNext]_launchVars
  PROVE  SlotsWithinLimit'
<1>0. leaf \in [Leaf -> LeafPcs]
  BY DEF LaunchTypeOK
<1>1. ASSUME NEW l \in Leaf, TakeSlot(l) PROVE SlotsWithinLimit'
  <2>1. CASE SlotFree
    <3>1. SlotsTaken' = SlotsTaken \union {l}
      BY <1>0, <1>1, <2>1 DEF TakeSlot, SlotsTaken
    <3>2. QED
      BY <2>1, <3>1, SlotAdded
  <2>2. CASE ~SlotFree
    <3>1. SlotsTaken' \subseteq SlotsTaken
      BY <1>0, <1>1, <2>2 DEF TakeSlot, SlotsTaken
    <3>2. QED
      BY <3>1, SlotsKept
  <2>3. QED
    BY <2>1, <2>2
<1>2. ASSUME NEW l \in Leaf, EnterLeaf(l) PROVE SlotsWithinLimit'
  <2>1. CASE leaf[l] = "slotted"
    <3>1. SlotsTaken' \subseteq SlotsTaken
      BY <1>0, <1>2, <2>1 DEF EnterLeaf, SlotsTaken
    <3>2. QED
      BY <3>1, SlotsKept
  <2>2. CASE leaf[l] # "slotted"
    <3>1. SlotFree /\ SlotsTaken' = SlotsTaken \union {l}
      BY <1>0, <1>2, <2>2 DEF EnterLeaf, SlotsTaken
    <3>2. QED
      BY <3>1, SlotAdded
  <2>3. QED
    BY <2>1, <2>2
<1>3. ASSUME NEW l \in Leaf, AskPermit(l) \/ Leave(l) \/ CutLeaf(l) PROVE SlotsWithinLimit'
  <2>1. SlotsTaken' \subseteq SlotsTaken
    BY <1>0, <1>3 DEF AskPermit, Leave, CutLeaf, SlotsTaken
  <2>2. QED
    BY <2>1, SlotsKept
<1>4. ASSUME NEW g \in Gate, AskLock(g) \/ Lock(g) \/ GateMoves(g) \/ CutGate(g)
      PROVE  SlotsWithinLimit'
  <2>1. leaf' = leaf \/ OpenGate
    BY <1>4 DEF AskLock, Lock, GateMoves, Close, Wake, Recheck, Answer, NoAnswer, Recorded, CutGate
  <2>2. SlotsTaken' \subseteq SlotsTaken
    BY <1>0, <2>1 DEF OpenGate, SlotsTaken
  <2>3. QED
    BY <2>2, SlotsKept
<1>5. CASE UNCHANGED launchVars
  BY <1>5, SlotsKept DEF launchVars, SlotsTaken
<1>6. QED
  BY <1>1, <1>2, <1>3, <1>4, <1>5 DEF LaunchNext, LeafMoves

\* The limiter never gives out more slots than max_parallel: what Composites assumes of a permit.
THEOREM SlotsAreLimited == LaunchSpec => []SlotsWithinLimit
<1>1. LaunchInit => SlotsWithinLimit
  <2>1. LaunchInit => SlotsTaken = {}
    BY DEF LaunchInit, SlotsTaken
  <2>2. QED
    BY <2>1, FS_EmptySet, ParallelAssumption DEF SlotsWithinLimit
<1>2. LaunchTypeOK /\ SlotsWithinLimit /\ [LaunchNext]_launchVars => SlotsWithinLimit'
  BY SlotsStep
<1>3. QED
  BY <1>1, <1>2, LaunchIsTyped, PTL DEF LaunchSpec
===============================================================================
