---------------------------- MODULE LimitsProofs ----------------------------
(***************************************************************************)
(* For any number of runs, providers and slots: a run under its limits     *)
(* handles its slots as RunSlots says and the ledger as SpendLedger says.  *)
(* The slots a run holds follow what it does, no provider is used by more  *)
(* runs than its highest limit, no runs wait for each other, no commit is  *)
(* lost or counted twice, and a daily ceiling is passed by no more than    *)
(* what was under way and what no check could see.                         *)
(***************************************************************************)
EXTENDS Limits, FiniteSetTheorems, FunctionTheorems, WellFoundedInduction, TLAPS

------------------------------------------------------------------------------
(* Numbers and sums: by the smallest number or set that refutes. *)

\* A non-empty set of naturals has a least element.
LEMMA Least ==
  ASSUME NEW T \in SUBSET Nat, T # {}
  PROVE  \E n \in T : \A m \in T : n <= m
<1>1. PICK n \in T : \A m \in T : ~ (<<m, n>> \in OpToRel(<, Nat))
  BY WFMin, NatLessThanWellFounded, Zenon
<1>2. \A m \in T : ~(m < n)
  BY <1>1, Zenon DEF OpToRel
<1>3. QED
  BY <1>2

\* Of the subsets of a finite set, any collection has one that is not in it without an element.
LEMMA SmallestSet ==
  ASSUME NEW S, IsFiniteSet(S), NEW T \in SUBSET (SUBSET S), T # {}
  PROVE  \E s \in T : \A x \in s : s \ {x} \notin T
<1> DEFINE sizes == {Cardinality(s) : s \in T}
<1>1. \A s \in T : IsFiniteSet(s) /\ Cardinality(s) \in Nat
  BY FS_Subset, FS_CardinalityType
<1>2. sizes \in SUBSET Nat /\ sizes # {}
  BY <1>1
<1>3. PICK n \in sizes : \A m \in sizes : n <= m
  BY <1>2, Least
<1>4. PICK s \in T : Cardinality(s) = n
  BY <1>3
<1>5. ASSUME NEW x \in s, s \ {x} \in T PROVE FALSE
  <2>1. Cardinality(s \ {x}) = Cardinality(s) - 1
    BY <1>1, FS_RemoveElement
  <2>2. Cardinality(s) <= Cardinality(s \ {x})
    BY <1>3, <1>4, <1>5
  <2>3. QED
    BY <1>1, <2>1, <2>2
<1>6. QED
  BY <1>5

Pick(s) == CHOOSE x \in s : TRUE

\* g adds up f over every set of D.
AddsUp(f, D, g) == g = [s \in D |-> IF s = {} THEN 0 ELSE f[Pick(s)] + g[s \ {Pick(s)}]]

LEMMA SumExists ==
  ASSUME NEW S, IsFiniteSet(S), NEW f
  PROVE  \E g : AddsUp(f, SUBSET S, g)
<1> DEFINE D(n) == {s \in SUBSET S : Cardinality(s) <= n}
           bad  == {n \in Nat : ~ \E g : AddsUp(f, D(n), g)}
<1>1. \A s \in SUBSET S : IsFiniteSet(s) /\ Cardinality(s) \in Nat
  BY FS_Subset, FS_CardinalityType
<1>2. \A s \in SUBSET S : Cardinality(s) = 0 <=> s = {}
  BY <1>1, FS_EmptySet
<1>3. \A s \in SUBSET S : s # {} =>
        /\ Pick(s) \in s /\ s \ {Pick(s)} \in SUBSET S
        /\ Cardinality(s \ {Pick(s)}) = Cardinality(s) - 1
  BY <1>1, FS_RemoveElement DEF Pick
<1>4. ASSUME bad # {} PROVE FALSE
  <2>1. PICK n \in bad : \A m \in bad : n <= m
    BY <1>4, Least
  <2>a. n \in Nat
    BY <2>1
  <2>2. CASE n = 0
    <3> DEFINE g == [s \in D(0) |-> 0]
    <3>1. \A s \in D(0) : s = {}
      BY <1>1, <1>2
    <3>2. g = [s \in D(0) |-> IF s = {} THEN 0 ELSE f[Pick(s)] + g[s \ {Pick(s)}]]
      BY <3>1
    <3>3. AddsUp(f, D(0), g)
      BY <3>2 DEF AddsUp
    <3>4. QED
      BY <2>1, <2>2, <3>3
  <2>3. CASE n # 0
    <3>a. n - 1 \in Nat /\ ~(n <= n - 1)
      BY <2>a, <2>3
    <3>1. n - 1 \notin bad
      <4> HIDE DEF bad
      <4>1. QED
        BY <2>1, <3>a
    <3>2. PICK g : AddsUp(f, D(n-1), g)
      BY <3>a, <3>1
    <3> HIDE DEF bad
    <3> DEFINE h == [s \in D(n) |-> IF s = {} THEN 0 ELSE f[Pick(s)] + g[s \ {Pick(s)}]]
    <3>3. \A s \in D(n-1) : s \in D(n) /\ h[s] = g[s]
      <4>1. \A s \in D(n-1) : g[s] = IF s = {} THEN 0 ELSE f[Pick(s)] + g[s \ {Pick(s)}]
        BY <3>2 DEF AddsUp
      <4>2. \A s \in D(n-1) : s \in D(n)
        BY <1>1, <2>a
      <4>3. QED
        BY <4>1, <4>2
    <3>4. \A s \in D(n) : s # {} => s \ {Pick(s)} \in D(n-1)
      BY <1>1, <1>3, <2>a
    <3> HIDE DEF D
    <3>5. \A s \in D(n) : s # {} => h[s \ {Pick(s)}] = g[s \ {Pick(s)}]
      BY <3>3, <3>4
    <3>6. h = [s \in D(n) |-> IF s = {} THEN 0 ELSE f[Pick(s)] + h[s \ {Pick(s)}]]
      BY <3>5
    <3>7. AddsUp(f, D(n), h)
      BY <3>6 DEF AddsUp
    <3>8. QED
      BY <2>1, <3>7 DEF bad
  <2>4. QED
    BY <2>2, <2>3
<1>5. Cardinality(S) \in Nat /\ D(Cardinality(S)) = SUBSET S
  BY <1>1, FS_Subset, FS_CardinalityType
<1> HIDE DEF D
<1>6. \E g : AddsUp(f, D(Cardinality(S)), g)
  BY <1>4, <1>5
<1>7. QED
  BY <1>5, <1>6

\* The sums over the subsets of S.
Sums(f, S) == CHOOSE g : AddsUp(f, SUBSET S, g)

LEMMA SumUnfolds ==
  ASSUME NEW S, NEW T, NEW f \in [S -> T]
  PROVE  SumFunction(f) = Sums(f, S)[S]
BY DEF SumFunction, SumFunctionOnSet, FoldFunctionOnSet, MapThenFoldSet, AddsUp, Pick, Sums

\* One element at a time.
Adds(f, S, s) ==
  IF s = {} THEN Sums(f, S)[s] = 0 ELSE Sums(f, S)[s] = f[Pick(s)] + Sums(f, S)[s \ {Pick(s)}]

LEMMA SumStep ==
  ASSUME NEW S, IsFiniteSet(S), NEW f
  PROVE  \A s \in SUBSET S : Adds(f, S, s)
<1> DEFINE g == Sums(f, S)
<1>1. AddsUp(f, SUBSET S, g)
  BY SumExists DEF Sums
<1> HIDE DEF g
<1>2. ASSUME NEW s \in SUBSET S
      PROVE  g[s] = IF s = {} THEN 0 ELSE f[Pick(s)] + g[s \ {Pick(s)}]
  BY <1>1 DEF AddsUp
<1>3. QED
  BY <1>2, Zenon DEF g, Adds

LEMMA SumType ==
  ASSUME NEW S, IsFiniteSet(S), NEW f \in [S -> Int]
  PROVE  \A s \in SUBSET S : Sums(f, S)[s] \in Int
<1> DEFINE bad == {s \in SUBSET S : Sums(f, S)[s] \notin Int}
<1>1. ASSUME bad # {} PROVE FALSE
  <2>1. PICK s \in bad : \A x \in s : s \ {x} \notin bad
    BY <1>1, SmallestSet
  <2>b. Adds(f, S, s)
    BY <2>1, SumStep
  <2>2. s # {}
    BY <2>1, <2>b DEF Adds
  <2>3. Pick(s) \in s
    BY <2>2 DEF Pick
  <2>4. Sums(f, S)[s \ {Pick(s)}] \in Int
    BY <2>1, <2>3
  <2>5. Sums(f, S)[s] = f[Pick(s)] + Sums(f, S)[s \ {Pick(s)}]
    BY <2>2, <2>b DEF Adds
  <2>6. QED
    BY <2>1, <2>3, <2>4, <2>5
<1>2. QED
  BY <1>1

LEMMA SumIsInt ==
  ASSUME NEW S, IsFiniteSet(S), NEW f \in [S -> Int]
  PROVE  SumFunction(f) \in Int
BY SumUnfolds, SumType

LEMMA SumIsNat ==
  ASSUME NEW S, IsFiniteSet(S), NEW f \in [S -> Nat]
  PROVE  SumFunction(f) \in Nat
<1> DEFINE bad == {s \in SUBSET S : Sums(f, S)[s] \notin Nat}
<1>1. ASSUME bad # {} PROVE FALSE
  <2>1. PICK s \in bad : \A x \in s : s \ {x} \notin bad
    BY <1>1, SmallestSet
  <2>2. Adds(f, S, s)
    BY <2>1, SumStep
  <2>3. s # {}
    BY <2>1, <2>2 DEF Adds
  <2>4. Pick(s) \in s
    BY <2>3 DEF Pick
  <2>5. Sums(f, S)[s \ {Pick(s)}] \in Nat
    BY <2>1, <2>4
  <2>6. Sums(f, S)[s] = f[Pick(s)] + Sums(f, S)[s \ {Pick(s)}]
    BY <2>2, <2>3 DEF Adds
  <2>7. QED
    BY <2>1, <2>4, <2>5, <2>6
<1>2. QED
  BY <1>1, SumUnfolds

\* A change of one entry changes the sum by as much.
LEMMA SumChange ==
  ASSUME NEW S, IsFiniteSet(S), NEW f \in [S -> Int], NEW h \in [S -> Int], NEW x \in S,
         \A y \in S \ {x} : h[y] = f[y]
  PROVE  SumFunction(h) = SumFunction(f) + h[x] - f[x]
<1> DEFINE more == h[x] - f[x]
           bad == {s \in SUBSET S :
                    Sums(h, S)[s] # Sums(f, S)[s] + IF x \in s THEN more ELSE 0}
<1>1. more \in Int /\ h[x] \in Int /\ f[x] \in Int /\ h[x] = f[x] + more
  OBVIOUS
<1> HIDE DEF more
<1>2. ASSUME bad # {} PROVE FALSE
  <2>1. PICK s \in bad : \A y \in s : s \ {y} \notin bad
    BY <1>2, SmallestSet
  <2>2. Adds(h, S, s)
    BY <2>1, SumStep
  <2>3. Adds(f, S, s)
    BY <2>1, SumStep
  <2>4. s # {}
    BY <2>1, <2>2, <2>3 DEF Adds
  <2> DEFINE y == Pick(s)
             t == s \ {y}
  <2>5. y \in s /\ y \in S /\ t \in SUBSET S
    BY <2>1, <2>4 DEF Pick
  <2>6. /\ Sums(h, S)[s] = h[y] + Sums(h, S)[t]
        /\ Sums(f, S)[s] = f[y] + Sums(f, S)[t]
    BY <2>2, <2>3, <2>4 DEF Adds
  <2>7. Sums(h, S)[t] = Sums(f, S)[t] + IF x \in t THEN more ELSE 0
    BY <2>1, <2>5
  <2>8. Sums(h, S)[t] \in Int /\ Sums(f, S)[t] \in Int
    BY <2>5, SumType
  <2>9. Sums(h, S)[s] # Sums(f, S)[s] + IF x \in s THEN more ELSE 0
    BY <2>1
  <2>10. x \in t <=> x \in s /\ x # y
    BY <2>5
  <2> HIDE DEF y, t, bad
  <2>11. h[y] \in Int /\ f[y] \in Int
    BY <2>5
  <2>12. CASE x = y
    BY <1>1, <2>5, <2>6, <2>7, <2>8, <2>9, <2>10, <2>11, <2>12
  <2>13. CASE x # y
    <3>1. h[y] = f[y]
      BY <2>5, <2>13
    <3>2. QED
      BY <1>1, <2>6, <2>7, <2>8, <2>9, <2>10, <2>11, <2>13, <3>1
  <2>14. QED
    BY <2>12, <2>13
<1>3. Sums(h, S)[S] = Sums(f, S)[S] + more
  BY <1>2
<1>4. Sums(h, S)[S] \in Int /\ Sums(f, S)[S] \in Int
  BY SumType
<1>5. SumFunction(h) = Sums(h, S)[S] /\ SumFunction(f) = Sums(f, S)[S]
  BY SumUnfolds
<1>6. QED
  BY <1>1, <1>3, <1>4, <1>5

\* A sum grows with its entries.
LEMMA SumMonotone ==
  ASSUME NEW S, IsFiniteSet(S), NEW f \in [S -> Int], NEW g \in [S -> Int],
         \A x \in S : f[x] <= g[x]
  PROVE  SumFunction(f) <= SumFunction(g)
<1> DEFINE bad == {s \in SUBSET S : ~(Sums(f, S)[s] <= Sums(g, S)[s])}
<1>1. ASSUME bad # {} PROVE FALSE
  <2>1. PICK s \in bad : \A y \in s : s \ {y} \notin bad
    BY <1>1, SmallestSet
  <2>b. Adds(f, S, s)
    BY <2>1, SumStep
  <2>c. Adds(g, S, s)
    BY <2>1, SumStep
  <2>2. s # {}
    BY <2>1, <2>b, <2>c DEF Adds
  <2> DEFINE y == Pick(s)
             t == s \ {y}
  <2>3. y \in s /\ t \in SUBSET S
    BY <2>1, <2>2 DEF Pick
  <2>4. /\ Sums(f, S)[s] = f[y] + Sums(f, S)[t]
        /\ Sums(g, S)[s] = g[y] + Sums(g, S)[t]
    BY <2>2, <2>b, <2>c DEF Adds
  <2>5. Sums(f, S)[t] <= Sums(g, S)[t]
    BY <2>1, <2>3
  <2>6. Sums(f, S)[t] \in Int /\ Sums(g, S)[t] \in Int
    BY <2>3, SumType
  <2>7. f[y] \in Int /\ g[y] \in Int /\ f[y] <= g[y]
    BY <2>1, <2>3
  <2> HIDE DEF y, t
  <2>8. QED
    BY <2>1, <2>4, <2>5, <2>6, <2>7
<1>2. QED
  BY <1>1, SumUnfolds

\* ... and is no more than the bound of an entry times the entries that are not zero.
LEMMA SumBound ==
  ASSUME NEW S, IsFiniteSet(S), NEW f \in [S -> Nat], NEW c \in Nat, NEW U \in SUBSET S,
         \A x \in S : f[x] <= c, \A x \in S \ U : f[x] = 0
  PROVE  SumFunction(f) <= Cardinality(U) * c
<1> DEFINE size(s) == Cardinality(s \intersect U)
           bad == {s \in SUBSET S : ~(Sums(f, S)[s] <= size(s) * c)}
<1>0. \A s \in SUBSET S : IsFiniteSet(s \intersect U) /\ size(s) \in Nat
  BY FS_Subset, FS_CardinalityType
<1>1. ASSUME bad # {} PROVE FALSE
  <2>1. PICK s \in bad : \A y \in s : s \ {y} \notin bad
    BY <1>1, SmallestSet
  <2>b. Adds(f, S, s)
    BY <2>1, SumStep
  <2>2. s # {}
    <3>1. SUFFICES ASSUME s = {} PROVE FALSE
      OBVIOUS
    <3>2. Sums(f, S)[s] = 0
      BY <3>1, <2>b DEF Adds
    <3>3. size(s) = 0
      BY <3>1, FS_EmptySet
    <3>4. QED
      BY <2>1, <3>2, <3>3
  <2> DEFINE y == Pick(s)
             t == s \ {y}
  <2>3. y \in s /\ t \in SUBSET S
    BY <2>1, <2>2 DEF Pick
  <2>4. Sums(f, S)[s] = f[y] + Sums(f, S)[t]
    BY <2>2, <2>b DEF Adds
  <2>5. Sums(f, S)[t] <= size(t) * c
    BY <2>1, <2>3
  <2>6. Sums(f, S)[t] \in Int /\ f[y] \in Nat /\ f[y] <= c /\ (y \notin U => f[y] = 0)
    BY <2>1, <2>3, SumType
  <2>7. size(t) = IF y \in U THEN size(s) - 1 ELSE size(s)
    <3>1. t \intersect U = (s \intersect U) \ {y}
      OBVIOUS
    <3>2. IsFiniteSet(s \intersect U)
      BY <1>0, <2>1
    <3>3. Cardinality((s \intersect U) \ {y}) =
            IF y \in s \intersect U THEN Cardinality(s \intersect U) - 1
            ELSE Cardinality(s \intersect U)
      BY <3>2, FS_RemoveElement
    <3>4. QED
      BY <2>3, <3>1, <3>3
  <2>8. size(s) \in Nat /\ size(t) \in Nat
    BY <1>0, <2>1, <2>3
  <2>9. ~(Sums(f, S)[s] <= size(s) * c)
    BY <2>1
  <2> HIDE DEF y, t, size, bad
  <2>10. CASE y \in U
    <3>1. (size(s) - 1) * c = size(s) * c - c
      BY <2>8
    <3>2. size(s) * c \in Nat
      BY <2>8
    <3>3. QED
      BY <2>4, <2>5, <2>6, <2>7, <2>9, <2>10, <3>1, <3>2
  <2>11. CASE y \notin U
    <3>1. size(s) * c \in Nat
      BY <2>8
    <3>2. QED
      BY <2>4, <2>5, <2>6, <2>7, <2>9, <2>11, <3>1
  <2>12. QED
    BY <2>10, <2>11
<1>2. S \intersect U = U
  OBVIOUS
<1>3. Sums(f, S)[S] <= size(S) * c
  BY <1>1
<1>4. QED
  BY <1>2, <1>3, SumUnfolds

------------------------------------------------------------------------------
(* The ledger: no commit is lost. *)

\* The ledger, and what the runs commit to it.
BookType ==
  /\ book \in Books /\ view \in [Run -> [Job -> Books \union {Nobody}]]
  /\ act \in [Run -> [Job -> Acts]] /\ moment \in [Run -> [Job -> 1..Days]]
  /\ amount \in [Run -> [Job -> Int]] /\ asked \in [Run -> [Job -> Int]]
  /\ prior \in [Run -> [Job -> Nat]]
  /\ known \in [Run -> Int] /\ saved \in [Run -> Int] /\ committed \in [Run -> Int]
  /\ today \in 1..Days /\ caps \in Caps

\* Whoever has read the ledger holds its lock, and reads what is there.
LockInv ==
  \A r \in Run, j \in Job :
    view[r][j] # Nobody => flock = <<r, j>> /\ view[r][j] = book /\ act[r][j] \in Asking

\* No operation is asked for with more than the attempts it remembers have cost.
AskedInv == \A r \in Run, j \in Job : amount[r][j] <= asked[r][j]

LedgerInv == BookType /\ LockInv /\ AskedInv /\ CommitsLand

LEMMA BoundsType == /\ Days \in Nat /\ MaxCost \in Nat /\ MaxTotal \in Nat
                    /\ Tasks \in Nat
                    /\ \A c \in Caps : c \in Envelope
BY LedgerAssumption

\* A step is a job, and not the runner's.
LEMMA JobFacts == IsFiniteSet(Task) /\ Task \subseteq Job /\ 0 \in Job /\ 0 \notin Task
BY BoundsType, FS_Interval DEF Task, Job

\* One entry of a table per run and job is replaced.
LEMMA Replaced ==
  ASSUME NEW T, NEW f \in [Run -> [Job -> T]], NEW r \in Run, NEW j \in Job, NEW v \in T,
         NEW g, g = [f EXCEPT ![r][j] = v]
  PROVE  /\ g \in [Run -> [Job -> T]] /\ g[r][j] = v
         /\ \A s \in Run, k \in Job : s # r \/ k # j => g[s][k] = f[s][k]
         /\ \A s \in Run \ {r} : g[s] = f[s]
<1> DEFINE row == [f[r] EXCEPT ![j] = v]
<1>1. row \in [Job -> T] /\ row[j] = v /\ \A k \in Job \ {j} : row[k] = f[r][k]
  OBVIOUS
<1>2. g = [f EXCEPT ![r] = row]
  OBVIOUS
<1> HIDE DEF row
<1>3. g \in [Run -> [Job -> T]] /\ g[r] = row /\ \A s \in Run \ {r} : g[s] = f[s]
  BY <1>1, <1>2
<1>4. QED
  BY <1>1, <1>3

LEMMA LedgerInvInit == ASSUME LedgerInit PROVE LedgerInv
<1>1. Empty \in Books
  BY BoundsType DEF Empty, Books
<1>2. 1 \in 1..Days
  <2>1. caps \in Envelope
    BY BoundsType DEF LedgerInit
  <2>2. QED
    BY <2>1, BoundsType DEF Envelope
<1>3. BookType
  BY <1>1, <1>2 DEF LedgerInit, BookType, Acts, All
<1>4. QED
  BY <1>3 DEF LedgerInit, All, LedgerInv, LockInv, AskedInv, CommitsLand, Empty

\* What an operation leaves of the ledger it read.
LEMMA CommitType ==
  ASSUME BookType, NEW r \in Run, NEW j \in Job, NEW b \in Books
  PROVE  /\ Commit(r, j, b) \in Books
         /\ Commit(r, j, b).booked = [b.booked EXCEPT ![r] = amount[r][j]]
         /\ Commit(r, j, b).day = [b.day EXCEPT ![moment[r][j]] = @ + amount[r][j] - b.booked[r]]
<1>1. b.day \in [1..Days -> Int] /\ b.booked \in [Run -> Int] /\ b.streak \in Nat
  BY DEF Books
<1>2. moment[r][j] \in 1..Days /\ amount[r][j] \in Int
  BY JobFacts DEF BookType
<1>3. b.day[moment[r][j]] \in Int /\ b.booked[r] \in Int
  BY <1>1, <1>2
<1>4. b.day[moment[r][j]] + amount[r][j] - b.booked[r] \in Int
  BY <1>2, <1>3
<1> DEFINE booked == [b.booked EXCEPT ![r] = amount[r][j]]
           day    == [b.day EXCEPT ![moment[r][j]] = @ + amount[r][j] - b.booked[r]]
<1>5. Commit(r, j, b) = [[b EXCEPT !.booked = booked] EXCEPT !.day = day]
  BY DEF Commit, Books
<1>6. booked \in [Run -> Int] /\ day \in [1..Days -> Int]
  BY <1>1, <1>2, <1>4
<1> HIDE DEF booked, day
<1>7. Commit(r, j, b) \in Books /\ Commit(r, j, b).booked = booked /\ Commit(r, j, b).day = day
  BY <1>5, <1>6 DEF Books
<1>8. QED
  BY <1>7 DEF booked, day

LEMMA ChangedType ==
  ASSUME BookType, NEW r \in Run, NEW j \in Job, NEW b \in Books, act[r][j] \in Asking
  PROVE  /\ Changed(r, j, b) \in Books
         /\ Changed(r, j, b).booked = IF Commits(act[r][j])
                                        THEN [b.booked EXCEPT ![r] = amount[r][j]] ELSE b.booked
         /\ Changed(r, j, b).day =
              IF Commits(act[r][j])
                THEN [b.day EXCEPT ![moment[r][j]] = @ + amount[r][j] - b.booked[r]] ELSE b.day
<1> DEFINE streak(n) == [b EXCEPT !.streak = n]
<1>1. ASSUME NEW n \in Nat
      PROVE  streak(n) \in Books /\ streak(n).booked = b.booked /\ streak(n).day = b.day
  BY DEF Books
<1>2. b.streak + 1 \in Nat
  BY DEF Books
<1> HIDE DEF streak
<1> DEFINE a == act[r][j]
<1>3. CASE Commits(a)
  <2>1. Changed(r, j, b) = Commit(r, j, b)
    <3>1. a # "outcome" /\ a # "waive"
      BY <1>3 DEF Commits, Checks
    <3> HIDE DEF a
    <3>2. Changed(r, j, b) = CASE Commits(a)    -> Commit(r, j, b)
                               [] a = "outcome" -> [b EXCEPT !.streak = IF status[r] = "failed"
                                                                          THEN @ + 1 ELSE 0]
                               [] a = "waive"   -> [b EXCEPT !.streak = 0]
                               [] OTHER -> b
      BY Zenon DEF Changed, a
    <3>3. QED
      BY <1>3, <3>1, <3>2
  <2>2. QED
    BY <1>3, <2>1, CommitType
<1>4. CASE ~Commits(a)
  <2>1. Changed(r, j, b) \in {b, streak(0), streak(b.streak + 1)}
    <3>1. CASE a = "outcome"
      BY <1>4, <3>1 DEF Changed, streak
    <3>2. CASE a = "waive"
      BY <1>4, <3>2 DEF Changed, streak
    <3>3. CASE a \notin {"outcome", "waive"}
      BY <1>4, <3>3 DEF Changed
    <3>4. QED
      BY <3>1, <3>2, <3>3
  <2>2. /\ Changed(r, j, b) \in Books /\ Changed(r, j, b).booked = b.booked
        /\ Changed(r, j, b).day = b.day
    BY <1>1, <1>2, <2>1
  <2>3. QED
    BY <1>4, <2>2
<1>5. QED
  BY <1>3, <1>4

\* What the records hide is no less than nothing.
LEMMA HiddenSum ==
  ASSUME NEW a, NEW p \in [Run -> [Job -> Nat]], NEW r \in Run
  PROVE  SumFunction([t \in Task |-> IF a[r][t] = "fly" THEN p[r][t] ELSE 0]) \in Nat
<1> DEFINE f == [t \in Task |-> IF a[r][t] = "fly" THEN p[r][t] ELSE 0]
<1>1. f \in [Task -> Nat]
  BY JobFacts
<1> HIDE DEF f
<1>2. SumFunction(f) \in Nat
  BY <1>1, JobFacts, SumIsNat
<1>3. QED
  BY <1>2 DEF f

LEMMA HiddenType == ASSUME prior \in [Run -> [Job -> Nat]], NEW r \in Run PROVE Hidden(r) \in Nat
BY HiddenSum DEF Hidden

LEMMA HiddenTypeNext ==
  ASSUME prior' \in [Run -> [Job -> Nat]], NEW r \in Run PROVE Hidden(r)' \in Nat
BY HiddenSum DEF Hidden

\* What a turn leaves of its job, and of the others.
LEMMA TurnFacts ==
  ASSUME BookType, NEW r \in Run, NEW j \in Job, NEW a \in Acts, Turn(r, j, a),
         known' \in [Run -> Int], prior' \in [Run -> [Job -> Nat]]
  PROVE  /\ act' \in [Run -> [Job -> Acts]] /\ moment' \in [Run -> [Job -> 1..Days]]
         /\ amount' \in [Run -> [Job -> Int]] /\ asked' \in [Run -> [Job -> Int]]
         /\ act'[r][j] = a /\ moment'[r][j] = (IF a \in Asking THEN today ELSE 1)
         /\ asked'[r][j] = IF a \in Asking THEN known'[r] ELSE 0
         /\ amount'[r][j] = IF a \in Asking THEN known'[r] - Hidden(r)' ELSE 0
         /\ Hidden(r)' \in Nat /\ amount'[r][j] <= asked'[r][j]
         /\ \A s \in Run \ {r} : /\ act'[s] = act[s] /\ moment'[s] = moment[s]
                               /\ amount'[s] = amount[s] /\ asked'[s] = asked[s]
         /\ \A s \in Run, k \in Job : s # r \/ k # j =>
              /\ act'[s][k] = act[s][k] /\ moment'[s][k] = moment[s][k]
              /\ amount'[s][k] = amount[s][k] /\ asked'[s][k] = asked[s][k]
<1>1. 1 \in 1..Days /\ Hidden(r)' \in Nat
  BY BoundsType, HiddenTypeNext DEF BookType
<1>2. Total(r)' = known'[r] - Hidden(r)' /\ Total(r)' \in Int
  BY <1>1 DEF Total
<1> DEFINE s == Total(r)'
           h == Hidden(r)'
<1>3. /\ act' = [act EXCEPT ![r][j] = a]
      /\ moment' = [moment EXCEPT ![r][j] = IF a \in Asking THEN today ELSE 1]
      /\ amount' = [amount EXCEPT ![r][j] = IF a \in Asking THEN s ELSE 0]
      /\ asked' = [asked EXCEPT ![r][j] = IF a \in Asking THEN known'[r] ELSE 0]
  BY DEF Turn
<1>4. s = known'[r] - h /\ s \in Int /\ h \in Nat
  BY <1>1, <1>2
<1> HIDE DEF s, h
<1>5. /\ act' \in [Run -> [Job -> Acts]] /\ act'[r][j] = a
      /\ \A q \in Run, k \in Job : q # r \/ k # j => act'[q][k] = act[q][k]
      /\ \A q \in Run \ {r} : act'[q] = act[q]
  BY <1>3, Replaced DEF BookType
<1>6. /\ moment' \in [Run -> [Job -> 1..Days]]
      /\ moment'[r][j] = IF a \in Asking THEN today ELSE 1
      /\ \A q \in Run, k \in Job : q # r \/ k # j => moment'[q][k] = moment[q][k]
      /\ \A q \in Run \ {r} : moment'[q] = moment[q]
  BY <1>1, <1>3, Replaced DEF BookType
<1>7. /\ amount' \in [Run -> [Job -> Int]]
      /\ amount'[r][j] = IF a \in Asking THEN s ELSE 0
      /\ \A q \in Run, k \in Job : q # r \/ k # j => amount'[q][k] = amount[q][k]
      /\ \A q \in Run \ {r} : amount'[q] = amount[q]
  BY <1>3, <1>4, Replaced DEF BookType
<1>8. /\ asked' \in [Run -> [Job -> Int]]
      /\ asked'[r][j] = IF a \in Asking THEN known'[r] ELSE 0
      /\ \A q \in Run, k \in Job : q # r \/ k # j => asked'[q][k] = asked[q][k]
      /\ \A q \in Run \ {r} : asked'[q] = asked[q]
  BY <1>3, <1>4, Replaced DEF BookType
<1>9. amount'[r][j] <= asked'[r][j]
  <2>1. known'[r] \in Int
    OBVIOUS
  <2>2. QED
    BY <1>4, <1>7, <1>8, <2>1
<1>10. QED
  BY <1>4, <1>5, <1>6, <1>7, <1>8, <1>9 DEF h

LEMMA TurnKeepsAsked ==
  ASSUME BookType, AskedInv, NEW r \in Run, NEW j \in Job, NEW a \in Acts, Turn(r, j, a),
         known' \in [Run -> Int], prior' \in [Run -> [Job -> Nat]]
  PROVE  AskedInv'
<1>1. /\ amount'[r][j] <= asked'[r][j]
      /\ \A s \in Run, k \in Job : s # r \/ k # j =>
           amount'[s][k] = amount[s][k] /\ asked'[s][k] = asked[s][k]
  BY TurnFacts
<1>2. QED
  BY <1>1 DEF AskedInv

LEMMA FollowingType ==
  ASSUME NEW r, NEW a \in Asking, NEW control PROVE Following(r, a, control) \in Acts
BY DEF Following, Acts, Asking, Checks

\* What an operation that replaces the ledger does.
LEMMA WriteFacts ==
  ASSUME LedgerInv, NEW r \in Run, NEW j \in Job, Write(r, j)
  PROVE  /\ flock = <<r, j>> /\ act[r][j] \in Asking /\ flock' = Nobody
         /\ \A s \in Run, k \in Job : view'[s][k] = Nobody
         /\ book' \in Books
         /\ book'.booked = IF Commits(act[r][j])
                             THEN [book.booked EXCEPT ![r] = amount[r][j]] ELSE book.booked
         /\ book'.day = IF Commits(act[r][j])
                          THEN [book.day EXCEPT ![moment[r][j]] = @ + amount[r][j] - book.booked[r]]
                          ELSE book.day
         /\ committed' = [committed EXCEPT ![r] = IF Commits(act[r][j]) THEN amount[r][j] ELSE @]
         /\ \E off \in BOOLEAN :
              LET control == IF act[r][j] \in Checks /\ ~off THEN Verdict(r, j, book') ELSE "none"
                  next    == IF off THEN "persist" ELSE Following(r, act[r][j], control)
              IN
              /\ off => j # 0
              /\ next \in Acts /\ Turn(r, j, next)
              /\ why' = [why EXCEPT ![r] = IF control = "none" THEN @ ELSE control]
              /\ extra' = [extra EXCEPT ![r] = @ + Unseen(r, j, book, next)]
         /\ UNCHANGED <<known, prior, caps, today, status, saved, waived, entry, spent, excused>>
<1>2. view[r][j] = book /\ act[r][j] \in Asking /\ flock = <<r, j>> /\ book \in Books
  BY DEF Write, LedgerInv, LockInv, BookType
<1>3. book' = Changed(r, j, book) /\ flock' = Nobody
  BY <1>2 DEF Write
<1>4. \A s \in Run, k \in Job : view'[s][k] = Nobody
  <2>1. \A s \in Run, k \in Job : s # r \/ k # j => view[s][k] = Nobody
    BY <1>2 DEF LedgerInv, LockInv
  <2>2. view' = [view EXCEPT ![r][j] = Nobody]
    BY DEF Write
  <2>3. QED
    BY <2>1, <2>2, Replaced DEF LedgerInv, BookType
<1>5. BookType
  BY DEF LedgerInv
<1>6. PICK off \in BOOLEAN :
        LET control == IF act[r][j] \in Checks /\ ~off THEN Verdict(r, j, book') ELSE "none"
            next    == IF off THEN "persist" ELSE Following(r, act[r][j], control)
        IN
        /\ off => j # 0
        /\ why' = [why EXCEPT ![r] = IF control = "none" THEN @ ELSE control]
        /\ Turn(r, j, next) /\ Blind(r, Unseen(r, j, view[r][j], next))
  BY DEF Write
<1> DEFINE control == IF act[r][j] \in Checks /\ ~off THEN Verdict(r, j, book') ELSE "none"
           next    == IF off THEN "persist" ELSE Following(r, act[r][j], control)
<1>7. /\ off => j # 0
      /\ why' = [why EXCEPT ![r] = IF control = "none" THEN @ ELSE control]
      /\ Turn(r, j, next) /\ extra' = [extra EXCEPT ![r] = @ + Unseen(r, j, book, next)]
  BY <1>2, <1>6, Zenon DEF Blind
<1>8. next \in Acts
  <2> HIDE DEF control
  <2>1. QED
    BY <1>2, FollowingType DEF Acts
<1>9. \E o \in BOOLEAN :
        LET c == IF act[r][j] \in Checks /\ ~o THEN Verdict(r, j, book') ELSE "none"
            n == IF o THEN "persist" ELSE Following(r, act[r][j], c)
        IN
        /\ o => j # 0
        /\ n \in Acts /\ Turn(r, j, n)
        /\ why' = [why EXCEPT ![r] = IF c = "none" THEN @ ELSE c]
        /\ extra' = [extra EXCEPT ![r] = @ + Unseen(r, j, book, n)]
  BY <1>7, <1>8, Zenon
<1>10. committed' = [committed EXCEPT ![r] = IF Commits(act[r][j]) THEN amount[r][j] ELSE @]
  BY DEF Write
<1>11. UNCHANGED <<known, prior, caps, today, status, saved, waived, entry, spent, excused>>
  BY DEF Write
<1>12. QED
  <2>1. /\ book' \in Books
        /\ book'.booked = IF Commits(act[r][j])
                            THEN [book.booked EXCEPT ![r] = amount[r][j]] ELSE book.booked
        /\ book'.day = IF Commits(act[r][j])
                         THEN [book.day EXCEPT ![moment[r][j]] = @ + amount[r][j] - book.booked[r]]
                         ELSE book.day
    BY <1>2, <1>3, <1>5, ChangedType
  <2>2. QED
    BY <1>2, <1>3, <1>4, <1>9, <1>10, <1>11, <2>1, Zenon

\* A job that holds no document goes on to something else.
LEMMA MovesKeepLedger ==
  ASSUME LedgerInv, NEW r \in Run, NEW j \in Job, NEW a \in Acts, Turn(r, j, a),
         view[r][j] = Nobody, UNCHANGED <<caps, today, book, flock, view, committed>>,
         known' \in [Run -> Int], saved' \in [Run -> Int], prior' \in [Run -> [Job -> Nat]]
  PROVE  LedgerInv'
<1>1. BookType
  BY DEF LedgerInv
<1>2. /\ act' \in [Run -> [Job -> Acts]] /\ moment' \in [Run -> [Job -> 1..Days]]
      /\ amount' \in [Run -> [Job -> Int]] /\ asked' \in [Run -> [Job -> Int]]
      /\ \A s \in Run, k \in Job : s # r \/ k # j => act'[s][k] = act[s][k]
  BY <1>1, TurnFacts
<1>3. BookType'
  BY <1>1, <1>2 DEF BookType
<1>4. LockInv'
  BY <1>2 DEF LedgerInv, LockInv
<1>5. AskedInv'
  BY <1>1, TurnKeepsAsked DEF LedgerInv
<1>6. QED
  BY <1>3, <1>4, <1>5 DEF LedgerInv, CommitsLand

\* What a step does beside the ledger: which job moves, and what becomes of the amounts.
LEMMA QuietMoves ==
  ASSUME LedgerInv, NEW r \in Run
  PROVE  /\ \A j \in Job : Unasked(r, j) =>
              /\ \E a \in Acts : Turn(r, j, a)
              /\ view[r][j] = Nobody /\ UNCHANGED <<caps, today, book, flock, view, histories>>
              /\ UNCHANGED <<known, saved, prior>>
         /\ Begin(r) \/ End(r) \/ Finish(r) =>
              /\ \E a \in Acts : Turn(r, 0, a)
              /\ view[r][0] = Nobody
              /\ UNCHANGED <<caps, today, book, flock, view, committed, spent, prior>>
              /\ known' \in {known, [known EXCEPT ![r] = saved[r]]}
              /\ saved' \in {saved, [saved EXCEPT ![r] = Total(r)]}
         /\ \A t \in Task : Launch(r, t) \/ Open(r, t) \/ GiveUp(r, t) \/ Persist(r, t) =>
              /\ \E a \in Acts : Turn(r, t, a)
              /\ view[r][t] = Nobody
              /\ UNCHANGED <<caps, today, book, flock, view, committed, spent, known>>
              /\ saved' \in {saved, [saved EXCEPT ![r] = Total(r)]}
              /\ prior' \in [Run -> [Job -> Nat]]
<1> USE JobFacts DEF LedgerInv
<1>1. \A j \in Job : act[r][j] \notin Asking => view[r][j] = Nobody
  BY DEF LockInv
<1>2. {"none", "cleared", "fly", "backoff", "persist", "save"} \cap Asking = {}
  BY DEF Asking, Checks
<1>3. ASSUME NEW j \in Job, Unasked(r, j)
      PROVE  /\ \E a \in Acts : Turn(r, j, a)
             /\ view[r][j] = Nobody /\ UNCHANGED <<caps, today, book, flock, view, histories>>
             /\ UNCHANGED <<known, saved, prior>>
  <2>1. Following(r, act[r][j], "none") \in Acts
    BY <1>3, FollowingType DEF Unasked, Asking
  <2>2. QED
    BY <1>3, <2>1 DEF Unasked
<1>4. ASSUME Begin(r) \/ End(r) \/ Finish(r)
      PROVE  /\ \E a \in Acts : Turn(r, 0, a)
             /\ view[r][0] = Nobody
             /\ UNCHANGED <<caps, today, book, flock, view, committed, spent, prior>>
             /\ known' \in {known, [known EXCEPT ![r] = saved[r]]}
             /\ saved' \in {saved, [saved EXCEPT ![r] = Total(r)]}
  <2>1. CASE Begin(r)
    <3>1. \E a \in Acts : Turn(r, 0, a)
      <4>1. PICK approved \in BOOLEAN :
              LET retired == IF approved /\ status[r] = "paused" THEN {why[r]} ELSE {}
              IN  Turn(r, 0, IF "streak" \in retired THEN "waive" ELSE "first")
        BY <2>1 DEF Begin
      <4>2. {"waive", "first"} \subseteq Acts
        BY DEF Acts, Asking, Checks
      <4>3. QED
        BY <4>1, <4>2
    <3>2. QED
      BY <1>1, <1>2, <2>1, <3>1 DEF Begin
  <2>2. CASE End(r)
    <3>1. \E a \in Acts : Turn(r, 0, a)
      BY <2>2 DEF End, Acts, Asking, Checks
    <3>2. QED
      BY <1>1, <1>2, <2>2, <3>1 DEF End, AtWork, histories
  <2>3. CASE Finish(r)
    <3>1. \E a \in Acts : Turn(r, 0, a)
      BY <2>3 DEF Finish, Acts
    <3>2. QED
      BY <1>1, <1>2, <2>3, <3>1 DEF Finish, histories
  <2>4. QED
    BY <1>4, <2>1, <2>2, <2>3
<1>5. ASSUME NEW t \in Task, Launch(r, t) \/ Open(r, t) \/ GiveUp(r, t) \/ Persist(r, t)
      PROVE  /\ \E a \in Acts : Turn(r, t, a)
             /\ view[r][t] = Nobody
             /\ UNCHANGED <<caps, today, book, flock, view, committed, spent, known>>
             /\ saved' \in {saved, [saved EXCEPT ![r] = Total(r)]}
             /\ prior' \in [Run -> [Job -> Nat]]
  <2>1. {"launch", "cleared", "fly", "persist", "account", "none"} \subseteq Acts
    BY DEF Acts, Asking, Checks
  <2>2. prior \in [Run -> [Job -> Nat]] /\ t \in Job
    BY DEF BookType
  <2>3. CASE Launch(r, t)
    <3>1. PICK c \in IF act[r][t] = "backoff" THEN {prior[r][t]} ELSE Carried(r) :
            prior' = [prior EXCEPT ![r][t] = c]
      BY <2>3 DEF Launch
    <3>2. c \in Nat
      BY <2>2, <3>1 DEF Carried
    <3>3. prior' \in [Run -> [Job -> Nat]]
      BY <2>2, <3>1, <3>2, Replaced
    <3>4. \E a \in Acts : Turn(r, t, a)
      BY <2>1, <2>3 DEF Launch
    <3>5. QED
      BY <1>1, <1>2, <2>3, <3>3, <3>4 DEF Launch
  <2>4. CASE Open(r, t)
    BY <1>1, <1>2, <2>1, <2>2, <2>4 DEF Open, histories
  <2>5. CASE GiveUp(r, t)
    BY <1>1, <1>2, <2>1, <2>2, <2>5 DEF GiveUp, histories
  <2>6. CASE Persist(r, t)
    <3>1. prior' \in [Run -> [Job -> Nat]]
      <4>1. prior' = [prior EXCEPT ![r][t] = 0]
        BY <2>6 DEF Persist
      <4>2. QED
        BY <2>2, <4>1, Replaced
    <3>2. \E a \in Acts : Turn(r, t, a)
      BY <2>1, <2>6 DEF Persist
    <3>3. QED
      BY <1>1, <1>2, <2>6, <3>1, <3>2 DEF Persist, histories
  <2>7. QED
    BY <1>5, <2>3, <2>4, <2>5, <2>6
<1>6. QED
  BY <1>3, <1>4, <1>5

LEMMA TotalType == ASSUME BookType, NEW r \in Run PROVE Total(r) \in Int /\ Total(r) <= known[r]
BY HiddenType DEF Total, BookType

\* An attempt ends.
LEMMA LeafFacts ==
  ASSUME LedgerInv, NEW r \in Run, NEW t \in Task, LeafEnds(r, t)
  PROVE  /\ \E a \in Acts : Turn(r, t, a)
         /\ view[r][t] = Nobody /\ UNCHANGED <<caps, today, book, flock, view, committed, saved>>
         /\ prior' \in [Run -> [Job -> Nat]]
         /\ \E cost \in 1..MaxCost : /\ known' = [known EXCEPT ![r] = @ + cost]
                                     /\ spent' = [spent EXCEPT ![r] = @ + cost]
<1>1. PICK cost \in 1..MaxCost, failed \in BOOLEAN :
        /\ known' = [known EXCEPT ![r] = @ + cost] /\ spent' = [spent EXCEPT ![r] = @ + cost]
        /\ prior' = [prior EXCEPT ![r][t] = IF failed THEN @ + cost ELSE 0]
        /\ Turn(r, t, IF failed /\ why[r] = "none" THEN "judge" ELSE "persist")
  BY DEF LeafEnds
<1>2. prior \in [Run -> [Job -> Nat]] /\ t \in Job
  BY JobFacts DEF LedgerInv, BookType
<1>3. prior[r][t] + cost \in Nat
  BY <1>2, BoundsType
<1>4. prior' \in [Run -> [Job -> Nat]]
  <2> DEFINE more == IF failed THEN prior[r][t] + cost ELSE 0
  <2>1. more \in Nat /\ prior' = [prior EXCEPT ![r][t] = more]
    BY <1>1, <1>2, <1>3
  <2> HIDE DEF more
  <2>2. QED
    BY <1>2, <2>1, Replaced
<1>5. view[r][t] = Nobody
  BY <1>2 DEF LeafEnds, LedgerInv, LockInv, Asking, Checks
<1>6. {"judge", "persist"} \subseteq Acts
  BY DEF Acts, Asking, Checks
<1>7. QED
  BY <1>1, <1>4, <1>5, <1>6 DEF LeafEnds

LEMMA CrashType ==
  ASSUME LedgerInv, NEW r \in Run, LedgerCrash(r) PROVE LedgerInv'
<1> USE DEF LedgerInv
<1>1. 1 \in 1..Days /\ "none" \in Acts
  BY BoundsType DEF BookType, Acts
<1>2. /\ act' \in [Run -> [Job -> Acts]] /\ view' \in [Run -> [Job -> Books \union {Nobody}]]
      /\ moment' \in [Run -> [Job -> 1..Days]]
      /\ amount' \in [Run -> [Job -> Int]] /\ asked' \in [Run -> [Job -> Int]]
      /\ prior' \in [Run -> [Job -> Nat]]
  BY <1>1 DEF LedgerCrash, All, BookType
<1>3. BookType'
  BY <1>2 DEF LedgerCrash, BookType, histories
<1>4. \A s \in Run, k \in Job :
        view'[s][k] # Nobody => s # r /\ view'[s][k] = view[s][k] /\ act'[s][k] = act[s][k]
  BY DEF LedgerCrash, All, BookType
<1>5. LockInv'
  <2>1. SUFFICES ASSUME NEW s \in Run, NEW k \in Job, view'[s][k] # Nobody
                 PROVE  flock' = <<s, k>> /\ view'[s][k] = book' /\ act'[s][k] \in Asking
    BY DEF LockInv
  <2>2. s # r /\ view'[s][k] = view[s][k] /\ act'[s][k] = act[s][k]
    BY <1>4, <2>1
  <2>3. flock = <<s, k>> /\ view[s][k] = book /\ act[s][k] \in Asking
    BY <2>1, <2>2 DEF LockInv
  <2>4. flock' = flock /\ book' = book
    BY <2>2, <2>3 DEF LedgerCrash
  <2>5. QED
    BY <2>2, <2>3, <2>4
<1>7. AskedInv'
  BY DEF LedgerCrash, All, AskedInv, BookType
<1>6. QED
  BY <1>3, <1>5, <1>7 DEF LedgerCrash, CommitsLand, histories

LEMMA MidnightType == ASSUME BookType, Midnight PROVE today' \in 1..Days /\ today' = today + 1
<1>1. caps.days \in 1..Days
  BY BoundsType DEF BookType, Envelope
<1>2. QED
  BY <1>1, BoundsType DEF Midnight, BookType

LEMMA LedgerInvStep == ASSUME LedgerInv, [LedgerNext]_ledgerVars PROVE LedgerInv'
<1>0. BookType
  BY DEF LedgerInv
<1>1. ASSUME NEW r \in Run, NEW j \in Job, Write(r, j) PROVE LedgerInv'
  <2>1. /\ \A s \in Run, k \in Job : view'[s][k] = Nobody
        /\ book' \in Books
        /\ book'.booked = IF Commits(act[r][j])
                            THEN [book.booked EXCEPT ![r] = amount[r][j]] ELSE book.booked
        /\ committed' = [committed EXCEPT ![r] = IF Commits(act[r][j]) THEN amount[r][j] ELSE @]
        /\ UNCHANGED <<known, prior, caps, today, saved>>
    BY <1>1, WriteFacts
  <2>2. \E a \in Acts : Turn(r, j, a)
    BY <1>1, WriteFacts, Zenon
  <2>3. known' \in [Run -> Int] /\ prior' \in [Run -> [Job -> Nat]]
    BY <1>0, <2>1, JobFacts DEF BookType
  <2>4. /\ act' \in [Run -> [Job -> Acts]] /\ moment' \in [Run -> [Job -> 1..Days]]
        /\ amount' \in [Run -> [Job -> Int]] /\ asked' \in [Run -> [Job -> Int]]
    BY <1>0, <2>2, <2>3, TurnFacts
  <2>5. committed' \in [Run -> Int]
    BY <1>0, <2>1, <2>3 DEF BookType
  <2>6. view' \in [Run -> [Job -> Books \union {Nobody}]]
    <3>1. view' = [view EXCEPT ![r][j] = Nobody]
      BY <1>1 DEF Write
    <3>2. QED
      BY <1>0, <3>1, Replaced DEF BookType
  <2>7. BookType'
    BY <1>0, <2>1, <2>3, <2>4, <2>5, <2>6 DEF BookType
  <2>8. book'.booked = committed'
    BY <1>0, <2>1 DEF LedgerInv, CommitsLand, BookType
  <2>9. AskedInv'
    BY <1>0, <2>2, <2>3, TurnKeepsAsked DEF LedgerInv
  <2>10. QED
    BY <2>1, <2>7, <2>8, <2>9 DEF LedgerInv, LockInv, CommitsLand
<1>2. ASSUME NEW r \in Run, NEW j \in Job, Lock(r, j) PROVE LedgerInv'
  <2>1. act[r][j] \in Asking
    BY <1>2 DEF Lock
  <2>2. \A s \in Run, k \in Job : view[s][k] = Nobody
    BY <1>2, LedgerAssumption DEF Lock, LedgerInv, LockInv
  <2>3. moment' \in [Run -> [Job -> 1..Days]]
    <3>1. PICK d \in moment[r][j]..today : moment' = [moment EXCEPT ![r][j] = d]
      BY <1>2 DEF Lock
    <3>2. d \in 1..Days
      BY <1>0, <2>1, <3>1, BoundsType DEF BookType
    <3>3. QED
      BY <1>0, <3>1, <3>2, Replaced DEF BookType
  <2>4. /\ view' \in [Run -> [Job -> Books \union {Nobody}]] /\ view'[r][j] = book
        /\ \A s \in Run, k \in Job : s # r \/ k # j => view'[s][k] = Nobody
    <3>1. view' = [view EXCEPT ![r][j] = book] /\ book \in Books \union {Nobody}
      BY <1>0, <1>2 DEF Lock, BookType
    <3>2. QED
      BY <1>0, <2>2, <3>1, Replaced DEF BookType
  <2>a. BookType'
    BY <1>0, <1>2, <2>3, <2>4 DEF Lock, BookType, runVars, histories
  <2>5. LockInv'
    BY <1>2, <2>1, <2>4 DEF Lock, LockInv
  <2>6. QED
    BY <1>2, <2>a, <2>5 DEF Lock, LedgerInv, AskedInv, CommitsLand, histories
<1>3. ASSUME NEW r \in Run, NEW j \in Job, Unasked(r, j) PROVE LedgerInv'
  <2>1. PICK a \in Acts : Turn(r, j, a)
    BY <1>3, QuietMoves
  <2>2. /\ view[r][j] = Nobody /\ UNCHANGED <<caps, today, book, flock, view, committed>>
        /\ UNCHANGED <<known, saved, prior>>
    BY <1>3, QuietMoves DEF histories
  <2>3. QED
    BY <1>0, <2>1, <2>2, MovesKeepLedger DEF BookType
<1>4. ASSUME NEW r \in Run, Begin(r) \/ End(r) \/ Finish(r) PROVE LedgerInv'
  <2>1. PICK a \in Acts : Turn(r, 0, a)
    BY <1>4, QuietMoves
  <2>2. /\ view[r][0] = Nobody /\ UNCHANGED <<caps, today, book, flock, view, committed, prior>>
        /\ known' \in {known, [known EXCEPT ![r] = saved[r]]}
        /\ saved' \in {saved, [saved EXCEPT ![r] = Total(r)]}
    BY <1>4, QuietMoves
  <2>3. known' \in [Run -> Int] /\ saved' \in [Run -> Int] /\ prior' \in [Run -> [Job -> Nat]]
    BY <1>0, <2>2, TotalType DEF BookType
  <2>4. QED
    BY <2>1, <2>2, <2>3, JobFacts, MovesKeepLedger
<1>5. ASSUME NEW r \in Run, NEW t \in Task,
             Launch(r, t) \/ Open(r, t) \/ GiveUp(r, t) \/ Persist(r, t)
      PROVE  LedgerInv'
  <2>1. PICK a \in Acts : Turn(r, t, a)
    BY <1>5, QuietMoves
  <2>2. /\ view[r][t] = Nobody /\ UNCHANGED <<caps, today, book, flock, view, committed, known>>
        /\ saved' \in {saved, [saved EXCEPT ![r] = Total(r)]} /\ prior' \in [Run -> [Job -> Nat]]
    BY <1>5, QuietMoves
  <2>3. known' \in [Run -> Int] /\ saved' \in [Run -> Int]
    BY <1>0, <2>2, TotalType DEF BookType
  <2>4. QED
    BY <2>1, <2>2, <2>3, JobFacts, MovesKeepLedger
<1>6. ASSUME NEW r \in Run, NEW t \in Task, LeafEnds(r, t) PROVE LedgerInv'
  <2>1. PICK a \in Acts : Turn(r, t, a)
    BY <1>6, LeafFacts
  <2>2. PICK cost \in 1..MaxCost : known' = [known EXCEPT ![r] = @ + cost]
    BY <1>6, LeafFacts
  <2>3. /\ view[r][t] = Nobody /\ UNCHANGED <<caps, today, book, flock, view, committed, saved>>
        /\ prior' \in [Run -> [Job -> Nat]]
    BY <1>6, LeafFacts
  <2>4. known' \in [Run -> Int] /\ saved' \in [Run -> Int]
    BY <1>0, <2>2, <2>3, BoundsType DEF BookType
  <2>5. QED
    BY <2>1, <2>3, <2>4, JobFacts, MovesKeepLedger
<1>7. ASSUME NEW r \in Run, Beat(r) PROVE LedgerInv'
  <2>1. saved' \in [Run -> Int]
    BY <1>0, <1>7, TotalType DEF Beat, BookType
  <2>2. QED
    BY <1>0, <1>7, <2>1
       DEF Beat, LedgerInv, BookType, LockInv, AskedInv, CommitsLand, jobVars, histories
<1>8. ASSUME NEW r \in Run, LedgerCrash(r) PROVE LedgerInv'
  BY <1>8, CrashType
<1>9. CASE Midnight
  <2>1. today' \in 1..Days
    BY <1>0, <1>9, MidnightType
  <2>2. QED
    BY <1>0, <1>9, <2>1
       DEF Midnight, runVars, jobVars, histories, LedgerInv, BookType, LockInv, AskedInv,
           CommitsLand
<1>10. CASE UNCHANGED ledgerVars
  BY <1>0, <1>10
     DEF ledgerVars, runVars, jobVars, histories, LedgerInv, BookType, LockInv, AskedInv,
           CommitsLand
<1>11. QED
  BY <1>1, <1>2, <1>3, <1>4, <1>5, <1>6, <1>7, <1>8, <1>9, <1>10 DEF LedgerNext, LedgerStep

\* What a run has in memory, on disk, on its way to the ledger and in it, it has spent.
SpentInv ==
  /\ spent \in [Run -> Nat]
  /\ \A r \in Run : /\ known[r] <= spent[r] /\ saved[r] <= spent[r] /\ committed[r] <= spent[r]
                    /\ \A j \in Job : amount[r][j] <= spent[r]

LEMMA MovesKeepSpent ==
  ASSUME LedgerInv, SpentInv, NEW r \in Run, NEW j \in Job, NEW a \in Acts, Turn(r, j, a),
         known' \in [Run -> Int], prior' \in [Run -> [Job -> Nat]], UNCHANGED committed,
         spent' \in [Run -> Nat], \A s \in Run : spent[s] <= spent'[s],
         \A s \in Run : known'[s] <= spent'[s] /\ saved'[s] <= spent'[s]
  PROVE  SpentInv'
<1>0. BookType
  BY DEF LedgerInv
<1>1. /\ amount'[r][j] = IF a \in Asking THEN known'[r] - Hidden(r)' ELSE 0
      /\ Hidden(r)' \in Nat
      /\ \A s \in Run, k \in Job : s # r \/ k # j => amount'[s][k] = amount[s][k]
      /\ amount' \in [Run -> [Job -> Int]]
  BY <1>0, TurnFacts
<1> DEFINE h == Hidden(r)'
<1> HIDE DEF h
<1>2. amount'[r][j] <= spent'[r]
  <2>1. amount'[r][j] = (IF a \in Asking THEN known'[r] - h ELSE 0) /\ h \in Nat
    BY <1>1 DEF h
  <2>2. QED
    BY <2>1
<1>3. ASSUME NEW s \in Run, NEW k \in Job PROVE amount'[s][k] <= spent'[s]
  <2>2. CASE s = r /\ k = j
    BY <1>2, <2>2
  <2>3. CASE s # r \/ k # j
    <3>1. amount'[s][k] = amount[s][k] /\ amount[s][k] <= spent[s] /\ amount[s][k] \in Int
      BY <1>0, <1>1, <2>3 DEF SpentInv, BookType
    <3>2. spent[s] \in Nat /\ spent'[s] \in Nat /\ spent[s] <= spent'[s]
      BY DEF SpentInv
    <3>3. QED
      BY <3>1, <3>2
  <2>4. QED
    BY <2>2, <2>3
<1>4. \A s \in Run : committed'[s] <= spent'[s]
  BY <1>0 DEF SpentInv, BookType
<1>5. QED
  BY <1>3, <1>4 DEF SpentInv

LEMMA SpentInvStep ==
  ASSUME LedgerInv, SpentInv, [LedgerNext]_ledgerVars PROVE SpentInv'
<1>0. BookType
  BY DEF LedgerInv
<1>a. /\ \A s \in Run : /\ spent[s] \in Nat /\ known[s] \in Int /\ saved[s] \in Int
                        /\ known[s] <= spent[s] /\ saved[s] <= spent[s] /\ spent[s] <= spent[s]
                        /\ Total(s) \in Int /\ Total(s) <= spent[s]
      /\ spent \in [Run -> Nat] /\ known \in [Run -> Int] /\ saved \in [Run -> Int]
      /\ prior \in [Run -> [Job -> Nat]]
  BY <1>0, TotalType DEF SpentInv, BookType
<1>1. ASSUME NEW r \in Run, NEW j \in Job, Write(r, j) PROVE SpentInv'
  <2>1. /\ committed' = [committed EXCEPT ![r] = IF Commits(act[r][j]) THEN amount[r][j] ELSE @]
        /\ UNCHANGED <<known, prior, saved, spent>>
    BY <1>1, WriteFacts
  <2>2. PICK a \in Acts : Turn(r, j, a)
    BY <1>1, WriteFacts, Zenon
  <2>3. /\ amount'[r][j] = IF a \in Asking THEN known'[r] - Hidden(r)' ELSE 0
        /\ Hidden(r)' \in Nat
        /\ \A s \in Run, k \in Job : s # r \/ k # j => amount'[s][k] = amount[s][k]
    BY <1>0, <1>a, <2>1, <2>2, TurnFacts
  <2>4. amount'[r][j] <= spent[r]
    <3> DEFINE h == Hidden(r)'
    <3>1. amount'[r][j] = (IF a \in Asking THEN known[r] - h ELSE 0) /\ h \in Nat
      BY <2>1, <2>3
    <3> HIDE DEF h
    <3>2. QED
      BY <1>a, <3>1
  <2>5. \A s \in Run, k \in Job : amount'[s][k] <= spent[s]
    BY <2>3, <2>4, JobFacts DEF SpentInv
  <2>6. committed'[r] <= spent[r] /\ \A s \in Run : committed'[s] <= spent[s]
    BY <1>0, <2>1 DEF SpentInv, BookType
  <2>7. QED
    BY <1>a, <2>1, <2>5, <2>6 DEF SpentInv
<1>2. ASSUME NEW r \in Run, NEW j \in Job, Lock(r, j) PROVE SpentInv'
  BY <1>2 DEF Lock, SpentInv, runVars, histories
<1>3. ASSUME NEW r \in Run, NEW j \in Job, Unasked(r, j) PROVE SpentInv'
  <2>1. PICK a \in Acts : Turn(r, j, a)
    BY <1>3, QuietMoves
  <2>2. UNCHANGED <<known, saved, prior, spent, committed>>
    BY <1>3, QuietMoves DEF histories
  <2>3. QED
    BY <1>a, <2>1, <2>2, MovesKeepSpent
<1>4. ASSUME NEW r \in Run, Begin(r) \/ End(r) \/ Finish(r) PROVE SpentInv'
  <2>1. PICK a \in Acts : Turn(r, 0, a)
    BY <1>4, QuietMoves
  <2>2. /\ UNCHANGED <<committed, spent, prior>>
        /\ known' \in {known, [known EXCEPT ![r] = saved[r]]}
        /\ saved' \in {saved, [saved EXCEPT ![r] = Total(r)]}
    BY <1>4, QuietMoves
  <2>3. known' \in [Run -> Int] /\ \A s \in Run : known'[s] <= spent'[s] /\ saved'[s] <= spent'[s]
    BY <1>a, <2>2
  <2>4. QED
    BY <1>a, <2>1, <2>2, <2>3, JobFacts, MovesKeepSpent
<1>5. ASSUME NEW r \in Run, NEW t \in Task,
             Launch(r, t) \/ Open(r, t) \/ GiveUp(r, t) \/ Persist(r, t)
      PROVE  SpentInv'
  <2>1. PICK a \in Acts : Turn(r, t, a)
    BY <1>5, QuietMoves
  <2>2. /\ UNCHANGED <<committed, spent, known>>
        /\ saved' \in {saved, [saved EXCEPT ![r] = Total(r)]} /\ prior' \in [Run -> [Job -> Nat]]
    BY <1>5, QuietMoves
  <2>3. known' \in [Run -> Int] /\ \A s \in Run : known'[s] <= spent'[s] /\ saved'[s] <= spent'[s]
    BY <1>a, <2>2
  <2>4. QED
    BY <1>a, <2>1, <2>2, <2>3, JobFacts, MovesKeepSpent
<1>6. ASSUME NEW r \in Run, NEW t \in Task, LeafEnds(r, t) PROVE SpentInv'
  <2>1. PICK a \in Acts : Turn(r, t, a)
    BY <1>6, LeafFacts
  <2>2. PICK cost \in 1..MaxCost : /\ known' = [known EXCEPT ![r] = @ + cost]
                                   /\ spent' = [spent EXCEPT ![r] = @ + cost]
    BY <1>6, LeafFacts
  <2>3. UNCHANGED <<committed, saved>> /\ prior' \in [Run -> [Job -> Nat]] /\ cost \in Nat
    BY <1>6, LeafFacts, BoundsType
  <2>4. /\ known' \in [Run -> Int] /\ spent' \in [Run -> Nat]
        /\ \A s \in Run : spent[s] <= spent'[s] /\ known'[s] <= spent'[s] /\ saved'[s] <= spent'[s]
    BY <1>a, <2>2, <2>3
  <2>5. QED
    BY <1>a, <2>1, <2>3, <2>4, JobFacts, MovesKeepSpent
<1>7. ASSUME NEW r \in Run, Beat(r) PROVE SpentInv'
  BY <1>a, <1>7 DEF Beat, SpentInv, jobVars, histories
<1>8. ASSUME NEW r \in Run, LedgerCrash(r) PROVE SpentInv'
  <2>1. \A s \in Run, j \in Job : amount'[s][j] = IF s = r THEN 0 ELSE amount[s][j]
    BY <1>0, <1>8 DEF LedgerCrash, All, BookType
  <2>2. QED
    BY <1>a, <1>8, <2>1 DEF LedgerCrash, SpentInv, histories
<1>9. CASE Midnight \/ UNCHANGED ledgerVars
  BY <1>9 DEF Midnight, ledgerVars, runVars, jobVars, histories, SpentInv
<1>10. QED
  BY <1>1, <1>2, <1>3, <1>4, <1>5, <1>6, <1>7, <1>8, <1>9 DEF LedgerNext, LedgerStep

\* The days add up to what the runs have booked.
Balanced == SumFunction(book.day) = SumFunction(book.booked)

LEMMA BalancedInit == ASSUME LedgerInit PROVE Balanced
<1>1. IsFiniteSet(1..Days) /\ IsFiniteSet(Run) /\ Days \in Nat
  BY BoundsType, FS_Interval, RunAssumption
<1> DEFINE zero(S) == [x \in S |-> 0]
<1>2. ASSUME NEW S, IsFiniteSet(S) PROVE SumFunction(zero(S)) = 0
  <2>1. zero(S) \in [S -> Nat] /\ \A x \in S : zero(S)[x] = 0
    OBVIOUS
  <2> HIDE DEF zero
  <2>2. SumFunction(zero(S)) <= Cardinality({}) * 0
    BY <1>2, <2>1, SumBound
  <2>3. SumFunction(zero(S)) \in Nat /\ Cardinality({}) = 0
    BY <1>2, <2>1, SumIsNat, FS_EmptySet
  <2>4. QED
    BY <2>2, <2>3
<1>3. book.day = zero(1..Days) /\ book.booked = zero(Run)
  BY DEF LedgerInit, Empty
<1> HIDE DEF zero
<1>4. QED
  BY <1>1, <1>2, <1>3 DEF Balanced

LEMMA BalancedStep ==
  ASSUME LedgerInv, Balanced, [LedgerNext]_ledgerVars PROVE Balanced'
<1>1. CASE UNCHANGED book
  BY <1>1 DEF Balanced
<1>2. ASSUME NEW r \in Run, NEW j \in Job, Write(r, j) PROVE Balanced'
  <2> DEFINE D == 1..Days
             a == amount[r][j]
             m == moment[r][j]
             day == book.day
             booked == book.booked
             day1 == book'.day
             booked1 == book'.booked
  <2>1. /\ booked1 = IF Commits(act[r][j]) THEN [booked EXCEPT ![r] = a] ELSE booked
        /\ day1 = IF Commits(act[r][j]) THEN [day EXCEPT ![m] = @ + a - booked[r]] ELSE day
    BY <1>2, WriteFacts
  <2>2. CASE ~Commits(act[r][j])
    BY <2>1, <2>2 DEF Balanced
  <2>3. CASE Commits(act[r][j])
    <3>3. IsFiniteSet(1..Days) /\ IsFiniteSet(Run)
      BY BoundsType, FS_Interval, RunAssumption
    <3>4. /\ day \in [D -> Int] /\ booked \in [Run -> Int] /\ m \in D /\ a \in Int
          /\ IsFiniteSet(D) /\ SumFunction(day) = SumFunction(booked)
      BY <3>3, JobFacts DEF Balanced, Books, LedgerInv, BookType
    <3>5. day1 = [day EXCEPT ![m] = @ + a - booked[r]] /\ booked1 = [booked EXCEPT ![r] = a]
      BY <2>1, <2>3
    <3> HIDE DEF D, a, m, day, booked, day1, booked1
    <3>6. day[m] \in Int /\ booked[r] \in Int
      BY <3>4
    <3>7. /\ day1 \in [D -> Int] /\ day1[m] = day[m] + a - booked[r]
          /\ \A d \in D \ {m} : day1[d] = day[d]
      BY <3>4, <3>5, <3>6
    <3>8. /\ booked1 \in [Run -> Int] /\ booked1[r] = a
          /\ \A s \in Run \ {r} : booked1[s] = booked[s]
      BY <3>4, <3>5
    <3>9. SumFunction(day1) = SumFunction(day) + day1[m] - day[m]
      <4>1. IsFiniteSet(D) /\ day \in [D -> Int] /\ day1 \in [D -> Int] /\ m \in D
        BY <3>4, <3>7
      <4>2. \A d \in D \ {m} : day1[d] = day[d]
        BY <3>7
      <4>3. QED
        BY <4>1, <4>2, SumChange
    <3>10. SumFunction(booked1) = SumFunction(booked) + booked1[r] - booked[r]
      BY <3>3, <3>4, <3>8, SumChange
    <3>11. SumFunction(day) \in Int
      BY <3>4, SumIsInt
    <3>12. SumFunction(day1) = SumFunction(booked1)
      BY <3>4, <3>6, <3>7, <3>8, <3>9, <3>10, <3>11
    <3>13. QED
      BY <3>12 DEF Balanced, day1, booked1
  <2>4. QED
    BY <2>2, <2>3
<1>3. ASSUME ~(UNCHANGED book) PROVE \E r \in Run, j \in Job : Write(r, j)
  BY <1>3 DEF LedgerNext, LedgerStep, Begin, Lock, Unasked, Launch, Open, LeafEnds, GiveUp, Persist,
              Beat, End, Finish, LedgerCrash, Midnight, ledgerVars
<1>4. QED
  BY <1>1, <1>2, <1>3

LEMMA LedgerInvariant == LedgerSpec => [](LedgerInv /\ SpentInv /\ Balanced)
<1>1. LedgerInit => LedgerInv /\ SpentInv /\ Balanced
  <2>1. LedgerInit => LedgerInv
    BY LedgerInvInit
  <2>2. LedgerInit => SpentInv
    BY DEF LedgerInit, All, SpentInv
  <2>3. QED
    BY <2>1, <2>2, BalancedInit
<1>2. LedgerInv /\ SpentInv /\ Balanced /\ [LedgerNext]_ledgerVars
        => (LedgerInv /\ SpentInv /\ Balanced)'
  BY LedgerInvStep, SpentInvStep, BalancedStep
<1>3. QED
  BY <1>1, <1>2, PTL DEF LedgerSpec

\* ledger.commit under _locked: whoever reads and replaces spend.json, and whoever dies with its
\* lock, the ledger holds the last total each run committed.
THEOREM CommitsAreNeverLost == LedgerSpec => []CommitsLand
<1>1. LedgerInv => CommitsLand
  BY DEF LedgerInv
<1>2. QED
  BY <1>1, LedgerInvariant, PTL

\* ledger.commit books the difference to the run's last total, on the day it was asked for: across
\* midnight, crashes between a commit and the save of the record, and resumes, the days add up to
\* what the runs have booked, and no run has booked more than it spent.
THEOREM NothingIsBookedTwice == LedgerSpec => []NothingBookedTwice
<1>1. LedgerInv /\ SpentInv /\ Balanced => NothingBookedTwice
  BY DEF LedgerInv, SpentInv, Balanced, CommitsLand, BookedWasSpent, NothingBookedTwice
<1>2. QED
  BY <1>1, LedgerInvariant, PTL

------------------------------------------------------------------------------
\* A non-empty set of naturals below a bound has a greatest element.
LEMMA BoundedMax ==
  ASSUME NEW B \in Nat, NEW T \in SUBSET (0..B), T # {}
  PROVE  \E m \in T : \A n \in T : n <= m
<1> DEFINE U == {n \in 0..B : B - n \in T}
<1>1. U \subseteq Nat
  OBVIOUS
<1>2. U # {}
  <2>1. PICK n \in T : TRUE
    OBVIOUS
  <2>2. B - n \in U
    OBVIOUS
  <2>3. QED
    BY <2>2
<1> HIDE DEF U
<1>3. PICK u \in U : \A v \in U : u <= v
  BY <1>1, <1>2, Least
<1>4. \A v \in U : ~(v < u)
  BY <1>1, <1>3
<1>5. u \in 0..B /\ B - u \in T
  BY <1>3 DEF U
<1>6. ASSUME NEW n \in T PROVE n <= B - u
  <2>1. n \in 0..B /\ B - (B - n) = n
    OBVIOUS
  <2>2. B - n \in U
    BY <2>1 DEF U
  <2>3. ~(B - n < u)
    BY <1>4, <2>2
  <2>4. QED
    BY <1>5, <2>1, <2>3
<1>7. QED
  BY <1>5, <1>6

------------------------------------------------------------------------------
(* The slots *)

\* A limit is a number of slots of a provider there is.
LEMMA LimitType ==
  ASSUME SlotTypeOK, NEW r \in Run
  PROVE  /\ Capped(r) \subseteq Provider
         /\ \A p \in Capped(r) : demand[r].limit[p] \in 0..MaxSlot
<1>1. demand[r] \in Demand
  BY DemandAssumption DEF SlotTypeOK
<1>2. demand[r].limit \in UNION {[P -> 0..MaxSlot] : P \in SUBSET Provider}
  BY <1>1 DEF Demand
<1>3. PICK P \in SUBSET Provider : demand[r].limit \in [P -> 0..MaxSlot]
  BY <1>2
<1>4. QED
  BY <1>3 DEF Capped

\* What taking one slot makes of the slots.
Taken(r, p, i) == [slot EXCEPT ![p][i] = r]

LEMMA SlotTaken ==
  ASSUME SlotTypeOK, NEW r \in Run, NEW p \in Provider, NEW i \in 1..MaxSlot
  PROVE  /\ Taken(r, p, i) \in [Provider -> [1..MaxSlot -> Run \union {Free}]]
         /\ \A q \in Provider : \A j \in 1..MaxSlot :
              Taken(r, p, i)[q][j] = IF q = p /\ j = i THEN r ELSE slot[q][j]
<1> DEFINE file  == [slot[p] EXCEPT ![i] = r]
           after == [slot EXCEPT ![p] = file]
<1>1. slot[p] \in [1..MaxSlot -> Run \union {Free}]
  BY DEF SlotTypeOK
<1>2. /\ file \in [1..MaxSlot -> Run \union {Free}]
      /\ \A j \in 1..MaxSlot : file[j] = IF j = i THEN r ELSE slot[p][j]
  BY <1>1
<1> HIDE DEF file
<1>3. after \in [Provider -> [1..MaxSlot -> Run \union {Free}]]
  BY <1>2 DEF SlotTypeOK
<1>4. ASSUME NEW q \in Provider, NEW j \in 1..MaxSlot
      PROVE  after[q][j] = IF q = p /\ j = i THEN r ELSE slot[q][j]
  BY <1>2 DEF SlotTypeOK
<1>5. QED
  BY <1>3, <1>4 DEF file, Taken

\* What giving back leaves of them.
LEMMA SlotGiven ==
  ASSUME SlotTypeOK, NEW r \in Run, NEW P
  PROVE  /\ Unlocked(r, P) \in [Provider -> [1..MaxSlot -> Run \union {Free}]]
         /\ \A q \in Provider : \A j \in 1..MaxSlot :
              Unlocked(r, P)[q][j] = IF q \in P /\ slot[q][j] = r THEN Free ELSE slot[q][j]
BY DEF SlotTypeOK, Unlocked

LEMMA SlotTypeInit == SlotInit => SlotTypeOK
<1> SUFFICES ASSUME SlotInit PROVE SlotTypeOK
  OBVIOUS
<1>1. 1 \in 1..(MaxSlot + 1)
  BY SlotAssumption
<1>2. QED
  BY <1>1 DEF SlotInit, SlotTypeOK, Stages

LEMMA SlotTypeStep == ASSUME SlotTypeOK, [SlotNext]_slotVars PROVE SlotTypeOK'
<1> USE SlotAssumption DEF SlotTypeOK, Stages
<1>1. ASSUME NEW r \in Run, Enter(r) PROVE SlotTypeOK'
  BY <1>1 DEF Enter, Walk, Move
<1>2. ASSUME NEW r \in Run, Try(r) PROVE SlotTypeOK'
  <2>1. PICK p \in Provider :
          /\ NextProvider(r, p) /\ at[r] <= demand[r].limit[p]
          /\ \/ /\ slot[p][at[r]] = Free
                /\ slot' = [slot EXCEPT ![p][at[r]] = r]
                /\ Walk(r, Held(r) \union {p})
             \/ /\ slot[p][at[r]] # Free
                /\ at' = [at EXCEPT ![r] = @ + 1]
                /\ UNCHANGED <<slot, stage>>
    BY <1>2 DEF Try
  <2>2. demand[r].limit[p] \in 0..MaxSlot /\ at[r] \in 1..MaxSlot
    BY <2>1, LimitType DEF NextProvider
  <2>3. demand' = demand
    BY <1>2 DEF Try
  <2>4. CASE slot[p][at[r]] = Free
    <3>1. slot' = Taken(r, p, at[r]) /\ Walk(r, Held(r) \union {p})
      BY <2>1, <2>4 DEF Taken
    <3>2. slot' \in [Provider -> [1..MaxSlot -> Run \union {Free}]]
      BY <2>2, <3>1, SlotTaken
    <3>3. QED
      BY <2>3, <3>1, <3>2 DEF Walk, Move
  <2>5. CASE slot[p][at[r]] # Free
    BY <2>1, <2>2, <2>3, <2>5
  <2>6. QED
    BY <2>4, <2>5
<1>3. ASSUME NEW r \in Run, Again(r) PROVE SlotTypeOK'
  BY <1>3 DEF Again
<1>4. ASSUME NEW r \in Run, Busy(r) \/ SlotError(r) \/ LeaveBlock(r) PROVE SlotTypeOK'
  BY <1>4 DEF Busy, SlotError, LeaveBlock, Move
<1>5. ASSUME NEW r \in Run, GiveBack(r) \/ SlotCrash(r) PROVE SlotTypeOK'
  <2>1. slot' = slot \/ \E P : slot' = Unlocked(r, P)
    BY <1>5 DEF GiveBack, SlotCrash
  <2>2. slot' \in [Provider -> [1..MaxSlot -> Run \union {Free}]]
    BY <2>1, SlotGiven
  <2>3. demand' = demand /\ at' = at /\ stage' \in [Run -> Stages]
    BY <1>5 DEF GiveBack, SlotCrash, Move
  <2>4. QED
    BY <2>2, <2>3
<1>6. CASE UNCHANGED slotVars
  BY <1>6 DEF slotVars
<1>7. QED
  BY <1>1, <1>2, <1>3, <1>4, <1>5, <1>6 DEF SlotNext, Acquiring

\* A slot is had within the limit of a run that is not over, the lower providers first.
HoldInv ==
  /\ \A r \in Run : \A p \in Provider : \A i \in 1..MaxSlot :
       slot[p][i] = r => stage[r] # "idle" /\ p \in Capped(r) /\ i <= demand[r].limit[p]
  /\ \A r \in Run : stage[r] = "inside" => Capped(r) \subseteq Held(r)
  /\ \A r \in Run : stage[r] = "walking" =>
       \A p \in Held(r) : \A q \in Capped(r) \ Held(r) : p < q

LEMMA HoldInit == SlotInit => HoldInv
BY SlotAssumption DEF SlotInit, HoldInv, Held, Provider

LEMMA HoldStep == ASSUME SlotTypeOK, HoldInv, [SlotNext]_slotVars PROVE HoldInv'
<1> USE SlotAssumption DEF HoldInv, Stages
<1>1. ASSUME NEW r \in Run, Enter(r) PROVE HoldInv'
  <2>1. Held(r) = {}
    BY <1>1 DEF Enter, Held, SlotTypeOK
  <2>2. /\ demand' = demand /\ slot' = slot
        /\ \A s \in Run : Held(s)' = Held(s) /\ Capped(s)' = Capped(s)
    BY <1>1 DEF Enter, Held, Capped
  <2>3. /\ stage'[r] # "idle"
        /\ stage'[r] = "inside" => Capped(r) = {}
        /\ \A s \in Run \ {r} : stage'[s] = stage[s]
    BY <1>1 DEF Enter, Walk, Move, SlotTypeOK
  <2>4. QED
    BY <2>1, <2>2, <2>3
<1>2. ASSUME NEW r \in Run, Try(r) PROVE HoldInv'
  <2>1. PICK p \in Provider :
          /\ NextProvider(r, p) /\ at[r] <= demand[r].limit[p]
          /\ \/ /\ slot[p][at[r]] = Free
                /\ slot' = Taken(r, p, at[r])
                /\ Walk(r, Held(r) \union {p})
             \/ UNCHANGED <<slot, stage>>
    BY <1>2 DEF Try, Taken
  <2>2. demand' = demand /\ stage[r] = "walking"
    BY <1>2 DEF Try
  <2>3. at[r] \in 1..MaxSlot
    BY <2>1, LimitType DEF NextProvider, SlotTypeOK
  <2>4. CASE UNCHANGED <<slot, stage>>
    BY <2>2, <2>4 DEF Held, Capped
  <2>5. CASE slot[p][at[r]] = Free /\ slot' = Taken(r, p, at[r]) /\ Walk(r, Held(r) \union {p})
    <3>1. \A q \in Provider : \A j \in 1..MaxSlot :
            slot'[q][j] = IF q = p /\ j = at[r] THEN r ELSE slot[q][j]
      BY <2>3, <2>5, SlotTaken
    <3>2. \A s \in Run : Held(s)' = IF s = r THEN Held(r) \union {p} ELSE Held(s)
      BY <2>3, <2>5, <3>1 DEF Held
    <3>3. /\ stage'[r] = IF Capped(r) \subseteq Held(r) \union {p} THEN "inside" ELSE "walking"
          /\ \A s \in Run \ {r} : stage'[s] = stage[s]
      BY <2>5 DEF Walk, Move, SlotTypeOK
    <3>4. \A s \in Run : Capped(s)' = Capped(s)
      BY <2>2 DEF Capped
    <3>5. \A s \in Run : \A q \in Provider : \A j \in 1..MaxSlot :
            slot'[q][j] = s => stage'[s] # "idle" /\ q \in Capped(s) /\ j <= demand[s].limit[q]
      BY <2>1, <3>1, <3>3 DEF NextProvider
    <3>6. \A q \in Held(r) \union {p} : \A t \in Capped(r) \ (Held(r) \union {p}) : q < t
      <4>1. \A t \in Capped(r) \ (Held(r) \union {p}) : p < t
        BY <2>1, LimitType DEF NextProvider, Provider
      <4>2. QED
        BY <2>2, <4>1
    <3>7. \A s \in Run : stage'[s] = "inside" => Capped(s)' \subseteq Held(s)'
      BY <3>2, <3>3, <3>4
    <3>8. \A s \in Run : stage'[s] = "walking" =>
            \A q \in Held(s)' : \A t \in Capped(s)' \ Held(s)' : q < t
      BY <3>2, <3>3, <3>4, <3>6
    <3>9. QED
      BY <2>2, <3>4, <3>5, <3>7, <3>8
  <2>6. QED
    BY <2>1, <2>4, <2>5
<1>3. ASSUME NEW r \in Run, Again(r) PROVE HoldInv'
  BY <1>3 DEF Again, Held, Capped
<1>4. ASSUME NEW r \in Run, Busy(r) \/ SlotError(r) \/ LeaveBlock(r) PROVE HoldInv'
  <2>1. /\ stage'[r] = "backing"
        /\ \A s \in Run \ {r} : stage'[s] = stage[s]
        /\ slot' = slot /\ demand' = demand
    BY <1>4 DEF Busy, SlotError, LeaveBlock, Move, SlotTypeOK
  <2>2. stage[r] # "idle"
    BY <1>4 DEF Busy, SlotError, LeaveBlock
  <2>3. QED
    BY <2>1, <2>2 DEF Held, Capped
<1>5. ASSUME NEW r \in Run, GiveBack(r) \/ SlotCrash(r) PROVE HoldInv'
  <2>1. demand' = demand /\ stage[r] # "idle" /\ \A s \in Run \ {r} : stage'[s] = stage[s]
    BY <1>5 DEF GiveBack, SlotCrash, Move, SlotTypeOK
  <2>2. slot' = slot \/ \E P : slot' = Unlocked(r, P)
    BY <1>5 DEF GiveBack, SlotCrash
  <2>3. \A q \in Provider : \A j \in 1..MaxSlot :
          slot'[q][j] = slot[q][j] \/ (slot[q][j] = r /\ slot'[q][j] = Free)
    BY <2>2, SlotGiven
  <2>4. \A s \in Run \ {r} : Held(s)' = Held(s)
    BY <2>3 DEF Held
  <2>5. \A s \in Run : Capped(s)' = Capped(s)
    BY <2>1 DEF Capped
  <2>6. \/ stage'[r] = "backing"
        \/ stage'[r] = "idle" /\ \A q \in Provider : \A j \in 1..MaxSlot : slot'[q][j] # r
    <3>1. CASE SlotCrash(r)
      <4>1. \A q \in Provider : \A j \in 1..MaxSlot : slot'[q][j] # r
        BY <3>1, SlotGiven DEF SlotCrash
      <4>2. QED
        BY <3>1, <4>1 DEF SlotCrash, Move, SlotTypeOK
    <3>2. CASE GiveBack(r)
      BY <3>2 DEF GiveBack, Move, Held, SlotTypeOK
    <3>3. QED
      BY <1>5, <3>1, <3>2
  <2>7. QED
    BY <2>1, <2>3, <2>4, <2>5, <2>6
<1>6. CASE UNCHANGED slotVars
  BY <1>6 DEF slotVars, Held, Capped
<1>7. QED
  BY <1>1, <1>2, <1>3, <1>4, <1>5, <1>6 DEF SlotNext, Acquiring

LEMMA HoldImpliesFollow == ASSUME SlotTypeOK, HoldInv PROVE SlotsFollowTheRun
<1>1. \A r \in Run : stage[r] = "idle" => Held(r) = {}
  BY DEF HoldInv, Held
<1>2. QED
  BY <1>1 DEF HoldInv, SlotsFollowTheRun

LEMMA HoldImpliesCapacity == ASSUME SlotTypeOK, HoldInv PROVE CapacityHolds
<1> SUFFICES ASSUME NEW p \in Provider
             PROVE  LET users == {r \in Inside : p \in Capped(r)} IN
                      users # {} => \E r \in users : Cardinality(users) <= demand[r].limit[p]
  BY DEF CapacityHolds
<1> DEFINE users == {r \in Inside : p \in Capped(r)}
<1> SUFFICES ASSUME users # {}
             PROVE  \E r \in users : Cardinality(users) <= demand[r].limit[p]
  OBVIOUS
<1> DEFINE limits == {demand[r].limit[p] : r \in users}
           index  == [r \in users |-> CHOOSE i \in 1..MaxSlot : slot[p][i] = r]
<1>1. users \subseteq Run /\ \A r \in users : p \in Capped(r) /\ p \in Held(r)
  BY DEF Inside, HoldInv
<1>2. limits \in SUBSET (0..MaxSlot) /\ limits # {}
  BY <1>1, LimitType
<1>3. PICK m \in limits : \A n \in limits : n <= m
  BY <1>2, SlotAssumption, BoundedMax
<1>4. PICK most \in users : demand[most].limit[p] = m
  BY <1>3
<1>5. ASSUME NEW r \in users
      PROVE  index[r] \in 1..m /\ slot[p][index[r]] = r
  <2>1. \E i \in 1..MaxSlot : slot[p][i] = r
    BY <1>1 DEF Held
  <2>2. index[r] \in 1..MaxSlot /\ slot[p][index[r]] = r
    BY <2>1
  <2>3. index[r] <= demand[r].limit[p] /\ demand[r].limit[p] <= m
    BY <1>1, <1>3, <2>2 DEF HoldInv
  <2>4. demand[r].limit[p] \in 0..MaxSlot /\ m \in 0..MaxSlot
    BY <1>1, <1>2, <1>3, LimitType
  <2>5. QED
    BY <2>2, <2>3, <2>4, SlotAssumption
<1>6. index \in Injection(users, 1..m)
  <2>1. \A r \in users : index[r] \in 1..m
    BY <1>5
  <2>2. index \in [users -> 1..m]
    BY <2>1
  <2>3. \A r, s \in users : index[r] = index[s] => r = s
    BY <1>5
  <2>4. QED
    BY <2>2, <2>3 DEF Injection, IsInjective
<1>7. m \in Nat /\ IsFiniteSet(1..m) /\ Cardinality(1..m) = m
  <2> HIDE DEF limits
  <2>1. m \in Nat
    BY <1>2, <1>3, SlotAssumption
  <2>2. IsFiniteSet(1..m) /\ Cardinality(1..m) = IF 1 > m THEN 0 ELSE m - 1 + 1
    BY <2>1, FS_Interval
  <2>3. QED
    BY <2>1, <2>2
<1>8. Cardinality(users) <= m
  BY <1>6, <1>7, FS_Injection
<1>9. QED
  BY <1>4, <1>8

LEMMA HoldImpliesNoRing == ASSUME SlotTypeOK, HoldInv PROVE NobodyWaitsInARing
<1> SUFFICES ASSUME NEW S \in SUBSET Run, S # {}, \A r \in S : Waits(r, S)
             PROVE  FALSE
  BY DEF NobodyWaitsInARing
<1> DEFINE Waited(r, p) == /\ NextProvider(r, p) /\ demand[r].limit[p] > 0
                           /\ \A i \in 1..demand[r].limit[p] : slot[p][i] \in S
           wanted == {p \in Provider : \E r \in S : Waited(r, p)}
<1>1. \A r \in S : stage[r] = "walking" /\ \E p \in wanted : Waited(r, p)
  BY DEF Waits
<1>2. wanted \in SUBSET (0..Providers) /\ wanted # {}
  <2>1. wanted \subseteq Provider /\ wanted # {}
    BY <1>1
  <2>2. Provider \subseteq 0..Providers
    BY ProviderAssumption DEF Provider
  <2>3. QED
    BY <2>1, <2>2
<1>3. PICK last \in wanted : \A p \in wanted : p <= last
  BY <1>2, ProviderAssumption, BoundedMax
<1>4. PICK r \in S : Waited(r, last)
  BY <1>3
<1>5. demand[r].limit[last] \in 0..MaxSlot /\ 1 \in 1..MaxSlot
  BY <1>3, <1>4, LimitType, SlotAssumption DEF NextProvider
<1>6. PICK s \in S : slot[last][1] = s
  BY <1>4, <1>5
<1>7. last \in Held(s)
  BY <1>3, <1>5, <1>6 DEF Held
<1>8. PICK q \in wanted : Waited(s, q)
  BY <1>1
<1>9. last < q
  BY <1>1, <1>7, <1>8 DEF HoldInv, NextProvider
<1>10. last <= q /\ q <= last /\ last \in Int /\ q \in Int
  BY <1>2, <1>3, <1>8, <1>9, ProviderAssumption
<1>11. QED
  BY <1>9, <1>10

------------------------------------------------------------------------------
(* Runs under limits *)

\* limits/slots.py under cli/commands/run.py and resume: whatever a run does inside its block, a
\* run under the operator's limits handles its slots as the slot files demand.
THEOREM LimitsImplementSlots == Spec => SlotSpec
<1>1. Init => SlotInit
  BY DEF Init
<1>2. [Next]_vars => [SlotNext]_slotVars
  <2>1. ASSUME NEW r \in Run, Queue(r) PROVE SlotNext
    BY <2>1 DEF Queue, SlotNext
  <2>2. ASSUME NEW r \in Run, Execute(r) PROVE UNCHANGED slotVars
    BY <2>2 DEF Execute
  <2>3. ASSUME NEW r \in Run, EndOfBlock(r) PROVE SlotNext
    BY <2>3 DEF EndOfBlock, SlotNext
  <2>4. ASSUME NEW r \in Run, Crash(r) PROVE SlotNext
    BY <2>4 DEF Crash, SlotNext
  <2>5. CASE Tomorrow
    BY <2>5 DEF Tomorrow
  <2>6. CASE UNCHANGED vars
    BY <2>6 DEF vars
  <2>7. QED
    BY <2>1, <2>2, <2>3, <2>4, <2>5, <2>6 DEF Next
<1>3. QED
  BY <1>1, <1>2, PTL DEF Spec, SlotSpec

\* check_envelope and the settling of _finalize: what a run does inside its block, it does to the
\* ledger as SpendLedger says, and outside it leaves the ledger alone.
THEOREM LimitsImplementLedger == Spec => LedgerSpec
<1>1. Init => LedgerInit
  BY DEF Init
<1>2. [Next]_vars => [LedgerNext]_ledgerVars
  <2>1. ASSUME NEW r \in Run, Queue(r) PROVE UNCHANGED ledgerVars
    BY <2>1 DEF Queue
  <2>2. ASSUME NEW r \in Run, Execute(r) PROVE LedgerNext
    BY <2>2 DEF Execute, LedgerNext
  <2>3. ASSUME NEW r \in Run, EndOfBlock(r) PROVE [LedgerNext]_ledgerVars
    BY <2>3 DEF EndOfBlock, LedgerNext
  <2>4. ASSUME NEW r \in Run, Crash(r) PROVE [LedgerNext]_ledgerVars
    BY <2>4 DEF Crash, LedgerNext
  <2>5. CASE Tomorrow
    BY <2>5 DEF Tomorrow, LedgerNext
  <2>6. CASE UNCHANGED vars
    BY <2>6 DEF vars
  <2>7. QED
    BY <2>1, <2>2, <2>3, <2>4, <2>5, <2>6 DEF Next
<1>3. QED
  BY <1>1, <1>2, PTL DEF Spec, LedgerSpec

LEMMA SlotInvariant == Spec => [](SlotTypeOK /\ HoldInv)
<1>1. SlotInit => SlotTypeOK /\ HoldInv
  BY SlotTypeInit, HoldInit
<1>2. SlotTypeOK /\ HoldInv /\ [SlotNext]_slotVars => (SlotTypeOK /\ HoldInv)'
  BY SlotTypeStep, HoldStep
<1>3. QED
  BY <1>1, <1>2, LimitsImplementSlots, PTL DEF SlotSpec

\* acquire_slots and its exit stack: a run that executes holds a slot of every capped provider it
\* uses; one that is over, refused half-way or killed holds none.
THEOREM RunsHoldTheirSlots == Spec => []SlotsFollowTheRun
<1>1. SlotTypeOK /\ HoldInv => SlotsFollowTheRun
  BY HoldImpliesFollow
<1>2. QED
  BY <1>1, SlotInvariant, PTL

\* RunSlot: runs that execute with a provider are never more than the highest limit one of them
\* was given.
THEOREM CapacityIsKept == Spec => []CapacityHolds
<1>1. SlotTypeOK /\ HoldInv => CapacityHolds
  BY HoldImpliesCapacity
<1>2. QED
  BY <1>1, SlotInvariant, PTL

\* acquire_slots takes the providers in sorted order: in any set of runs one does not wait for
\* slots that are all held within the set.
THEOREM NoRingOfRuns == Spec => []NobodyWaitsInARing
<1>1. SlotTypeOK /\ HoldInv => NobodyWaitsInARing
  BY HoldImpliesNoRing
<1>2. QED
  BY <1>1, SlotInvariant, PTL

\* ledger.commit: no interleaving of runs, crashes and slots loses what a run has committed, or
\* books it twice.
THEOREM CommitsSurvive == Spec => [](CommitsLand /\ NothingBookedTwice)
BY LimitsImplementLedger, CommitsAreNeverLost, NothingIsBookedTwice, PTL

------------------------------------------------------------------------------
(* The daily ceiling *)

LEMMA SumAdds ==
  ASSUME NEW S, IsFiniteSet(S), NEW f \in [S -> Int], NEW g \in [S -> Int], NEW h \in [S -> Int],
         \A x \in S : h[x] = f[x] + g[x]
  PROVE  SumFunction(h) = SumFunction(f) + SumFunction(g)
<1> DEFINE bad == {s \in SUBSET S : Sums(h, S)[s] # Sums(f, S)[s] + Sums(g, S)[s]}
<1>1. ASSUME bad # {} PROVE FALSE
  <2>1. PICK s \in bad : \A y \in s : s \ {y} \notin bad
    BY <1>1, SmallestSet
  <2>2. Adds(f, S, s) /\ Adds(g, S, s) /\ Adds(h, S, s)
    BY <2>1, SumStep
  <2>3. s # {}
    BY <2>1, <2>2 DEF Adds
  <2> DEFINE y == Pick(s)
             t == s \ {y}
  <2>4. y \in s /\ t \in SUBSET S
    BY <2>1, <2>3 DEF Pick
  <2>5. /\ Sums(f, S)[s] = f[y] + Sums(f, S)[t]
        /\ Sums(g, S)[s] = g[y] + Sums(g, S)[t]
        /\ Sums(h, S)[s] = h[y] + Sums(h, S)[t]
    BY <2>2, <2>3 DEF Adds
  <2>6. Sums(h, S)[t] = Sums(f, S)[t] + Sums(g, S)[t]
    BY <2>1, <2>4
  <2>7. Sums(f, S)[t] \in Int /\ Sums(g, S)[t] \in Int
    BY <2>4, SumType
  <2>8. f[y] \in Int /\ g[y] \in Int /\ h[y] = f[y] + g[y]
    BY <2>1, <2>4
  <2>9. Sums(h, S)[s] # Sums(f, S)[s] + Sums(g, S)[s]
    BY <2>1
  <2> HIDE DEF y, t, bad
  <2>10. QED
    BY <2>5, <2>6, <2>7, <2>8, <2>9
<1>2. Sums(h, S)[S] = Sums(f, S)[S] + Sums(g, S)[S]
  BY <1>1
<1>3. /\ SumFunction(f) = Sums(f, S)[S] /\ SumFunction(g) = Sums(g, S)[S]
      /\ SumFunction(h) = Sums(h, S)[S]
  BY SumUnfolds
<1>4. QED
  BY <1>2, <1>3

\* Entries that stay within a share each, on top of another sum.
LEMMA SumShares ==
  ASSUME NEW S, IsFiniteSet(S), NEW f \in [S -> Int], NEW e \in [S -> Int], NEW c \in Nat,
         NEW U \in SUBSET S, \A x \in S : f[x] <= e[x] + IF x \in U THEN c ELSE 0
  PROVE  SumFunction(f) <= Cardinality(U) * c + SumFunction(e)
<1> DEFINE b == [x \in S |-> IF x \in U THEN c ELSE 0]
           h == [x \in S |-> b[x] + e[x]]
<1>1. b \in [S -> Nat] /\ b \in [S -> Int] /\ \A x \in S : b[x] = IF x \in U THEN c ELSE 0
  OBVIOUS
<1>2. SumFunction(b) <= Cardinality(U) * c
  <2>1. (\A x \in S : b[x] <= c) /\ \A x \in S \ U : b[x] = 0
    BY <1>1
  <2> HIDE DEF b
  <2>2. QED
    BY <1>1, <2>1, SumBound
<1> HIDE DEF b
<1>3. h \in [S -> Int] /\ \A x \in S : h[x] = b[x] + e[x]
  BY <1>1
<1> HIDE DEF h
<1>4. SumFunction(h) = SumFunction(b) + SumFunction(e)
  BY <1>1, <1>3, SumAdds
<1>5. \A x \in S : f[x] <= h[x]
  BY <1>1, <1>3
<1>6. SumFunction(f) <= SumFunction(h)
  BY <1>3, <1>5, SumMonotone
<1>7. /\ SumFunction(f) \in Int /\ SumFunction(e) \in Int /\ SumFunction(b) \in Int
      /\ Cardinality(U) \in Nat
  BY <1>1, SumIsInt, FS_Subset, FS_CardinalityType
<1> DEFINE n == Cardinality(U) * c
<1>8. n \in Int
  BY <1>7
<1> HIDE DEF n
<1>9. SumFunction(b) <= n
  BY <1>2 DEF n
<1>10. SumFunction(f) <= n + SumFunction(e)
  BY <1>4, <1>6, <1>7, <1>8, <1>9
<1>11. QED
  BY <1>10 DEF n

LEMMA Multiples ==
  ASSUME NEW a \in Nat, NEW b \in Nat, NEW c \in Nat, a <= b
  PROVE  a * c <= b * c /\ a * c \in Nat
<1>1. PICK k \in Nat : b = a + k
  <2>1. b - a \in Nat /\ b = a + (b - a)
    OBVIOUS
  <2>2. QED
    BY <2>1
<1>2. b * c = a * c + k * c
  BY <1>1
<1>3. k * c \in Nat /\ a * c \in Nat
  OBVIOUS
<1>4. QED
  BY <1>2, <1>3

\* What the leaves of some steps may cost, and what a run may have under way.
Price(S) == Cardinality(S) * MaxCost
Share    == Parallel * MaxCost

LEMMA ShareType == ASSUME caps \in Envelope PROVE Parallel \in Nat /\ Share \in Nat
<1>1. Parallel \in Nat /\ MaxCost \in Nat
  BY BoundsType DEF Envelope, Parallel
<1>2. Parallel <= Parallel
  BY <1>1
<1>3. QED
  BY <1>1, <1>2, Multiples DEF Share

LEMMA ShareStays == ASSUME UNCHANGED caps PROVE Parallel' = Parallel /\ Share' = Share
BY DEF Parallel, Share

LEMMA PriceFacts ==
  /\ \A S \in SUBSET Task : Price(S) \in Nat /\ IsFiniteSet(S) /\ Cardinality(S) \in Nat
  /\ caps \in Envelope =>
       Share \in Nat /\ \A S \in SUBSET Task : Cardinality(S) <= Parallel => Price(S) <= Share
  /\ \A S, T \in SUBSET Task : S \subseteq T => Price(S) <= Price(T)
  /\ \A S \in SUBSET Task : \A t \in S : Price(S) = Price(S \ {t}) + MaxCost
  /\ \A S \in SUBSET Task : \A t \in Task \ S : Price(S \union {t}) = Price(S) + MaxCost
  /\ Price({}) = 0 /\ MaxCost \in Nat
<1>0. MaxCost \in Nat
  BY BoundsType
<1>1. \A S \in SUBSET Task : IsFiniteSet(S) /\ Cardinality(S) \in Nat
  BY JobFacts, FS_Subset, FS_CardinalityType
<1>2. ASSUME NEW n \in Nat, NEW m \in Nat, n <= m
      PROVE  n * MaxCost <= m * MaxCost /\ n * MaxCost \in Nat
  BY <1>0, <1>2, Multiples
<1>3. \A S \in SUBSET Task : Price(S) \in Nat
  <2>1. ASSUME NEW S \in SUBSET Task PROVE Price(S) \in Nat
    <3>1. Cardinality(S) \in Nat /\ Cardinality(S) <= Cardinality(S)
      BY <1>1
    <3>2. QED
      BY <1>2, <3>1 DEF Price
  <2>2. QED
    BY <2>1
<1>4. ASSUME caps \in Envelope
      PROVE  Share \in Nat /\ \A S \in SUBSET Task : Cardinality(S) <= Parallel => Price(S) <= Share
  <2>1. Parallel \in Nat /\ Share \in Nat
    BY <1>4, ShareType
  <2>2. QED
    BY <1>0, <1>1, <1>2, <2>1 DEF Price, Share
<1>5. ASSUME NEW S \in SUBSET Task, NEW T \in SUBSET Task, S \subseteq T
      PROVE  Price(S) <= Price(T)
  <2>1. Cardinality(S) <= Cardinality(T)
    BY <1>1, <1>5, FS_Subset
  <2>2. QED
    BY <1>1, <1>2, <2>1 DEF Price
<1>6. ASSUME NEW S \in SUBSET Task, NEW t \in S PROVE Price(S) = Price(S \ {t}) + MaxCost
  <2> DEFINE n == Cardinality(S)
  <2>1. Cardinality(S \ {t}) = n - 1 /\ n \in Nat
    BY <1>1, FS_RemoveElement
  <2> HIDE DEF n
  <2>2. (n - 1) * MaxCost = n * MaxCost - MaxCost /\ n * MaxCost \in Int
    BY <1>0, <2>1
  <2>3. Price(S) = n * MaxCost /\ Price(S \ {t}) = (n - 1) * MaxCost
    BY <2>1 DEF n, Price
  <2>4. QED
    BY <1>0, <2>2, <2>3
<1>7. ASSUME NEW S \in SUBSET Task, NEW t \in Task \ S
      PROVE  Price(S \union {t}) = Price(S) + MaxCost
  <2>1. S \union {t} \in SUBSET Task /\ t \in S \union {t} /\ (S \union {t}) \ {t} = S
    OBVIOUS
  <2>2. QED
    BY <1>6, <2>1
<1>8. Price({}) = 0
  BY <1>0, FS_EmptySet DEF Price
<1>9. QED
  BY <1>0, <1>1, <1>3, <1>4, <1>5, <1>6, <1>7, <1>8

Pos(n) == IF n > 0 THEN n ELSE 0

LEMMA PosFacts ==
  /\ \A n \in Int : Pos(n) \in Nat /\ n <= Pos(n)
  /\ \A n \in Int : n >= 0 => Pos(n) = n
  /\ \A x, y, z \in Int : Pos(x - z) <= Pos(x - y) + Pos(y - z)
  /\ \A x, y \in Int : x <= y => Pos(x) <= Pos(y)
BY DEF Pos

------------------------------------------------------------------------------
(* What the invariant says of the money. *)

Ended == {"succeeded", "failed", "paused"}

\* What r has spent and not booked, the steps of r that may still spend, and both.
Owed(r)    == Pos(known[r] - book.booked[r])
Loose(r)   == {t \in Task : act[r][t] \in {"cleared", "fly"}}
Reserve(r) == Owed(r) + Price(Loose(r))

\* The steps that may have spent when t starts on its check: a later check sees more.
Ahead(r, t) == Loose(r) \union {u \in Task : act[r][u] = "launch" /\ asked[r][u] <= asked[r][t]}

Still(r) == \A t \in Task : act[r][t] = "none"

MoneyType ==
  /\ status \in [Run -> Statuses] /\ why \in [Run -> Controls \union {"none"}]
  /\ waived \in [Run -> SUBSET (Controls \union {"none"})] /\ extra \in [Run -> Nat]
  /\ deaths \in Nat /\ excused \in BOOLEAN

\* What a run and its steps are at fits its status and its place among the slots.
PlaceOk(r) ==
  /\ act[r][0] \in {"none", "waive", "first", "settle", "final", "outcome", "save"}
  /\ \A t \in Task : act[r][t] \in {"none", "launch", "cleared", "fly", "judge", "backoff",
                                    "persist", "account"}
  /\ status[r] # "live" \/ act[r][0] # "none" => Still(r)
  /\ status[r] = "live" => act[r][0] \in {"none", "waive", "first"}
  /\ act[r][0] \in {"waive", "first"} => status[r] = "live"
  /\ act[r][0] \in {"settle", "final", "outcome", "save"} => status[r] \in Ended
  /\ status[r] = "live" \/ act[r][0] # "none" => stage[r] = "inside"
  /\ "money" \notin waived[r]
  /\ Cardinality(Holders(r)) <= Parallel

\* An operation was asked for with what the run knew then; the last commit leaves nothing out.
AskedOk(r) ==
  /\ \A j \in Job : act[r][j] \in Asking => moment[r][j] <= today /\ asked[r][j] <= known[r]
  /\ act[r][0] \in {"settle", "final"} => amount[r][0] = known[r]

\* If t started now, no more than a share would be owed, but for what nobody sees.
LaunchOk(r, t) ==
  known[r] + Price(Ahead(r, t))
    <= Share + extra[r] + asked[r][t] + Pos(book.booked[r] - amount[r][t])

\* A run never owes more than its leaves cost, but for what its checks did not see.
MoneyOk(r) ==
  /\ saved[r] <= known[r]
  /\ status[r] = "fresh" => known[r] = 0 /\ book.booked[r] = 0
  /\ status[r] \in Ended /\ act[r][0] \in {"outcome", "save", "none"} => known[r] <= book.booked[r]
  /\ Reserve(r) <= Share + extra[r]
  /\ \A t \in Task : act[r][t] = "launch" => LaunchOk(r, t)

FutureEmpty == \A d \in 1..Days : d > today => book.day[d] = 0

Dead == {r \in Run : status[r] = "dead"}

DeathsCounted == Cardinality(Dead) <= deaths

\* Under a ceiling of zero no check lets a leaf start.
ZeroOk(r) == /\ known[r] = 0 /\ saved[r] = 0 /\ book.booked[r] = 0 /\ Still(r)
             /\ act[r][0] \in Asking => amount[r][0] = 0
             /\ status[r] = "live" /\ act[r][0] = "none" => why[r] # "none"
ZeroHolds == caps.day = 0 => (\A r \in Run : ZeroOk(r)) /\ \A d \in 1..Days : book.day[d] = 0

Slack(w) == (w + deaths) * Share

Reserves == SumFunction([r \in Run |-> Reserve(r)])

\* Past its ceiling, the day and what may still be booked on it stay within the slack.
CeilingHolds ==
  caps.day # 0 /\ book.day[today] > caps.day =>
    \A p \in Provider, w \in 0..MaxSlot : Shared(p, w) =>
      book.day[today] + Reserves <= caps.day + Slack(w) + SumFunction(extra)

Governing == caps.day # Uncapped /\ ~excused

RunOk(r) == PlaceOk(r) /\ AskedOk(r) /\ MoneyOk(r)
Inv      == (\A r \in Run : RunOk(r)) /\ FutureEmpty /\ DeathsCounted /\ ZeroHolds /\ CeilingHolds
MoneyInv == Governing => Inv
Types    == SlotTypeOK /\ HoldInv /\ LedgerInv /\ MoneyType

\* What these are.
Numbers ==
  /\ \A r \in Run :
       /\ known[r] \in Int /\ saved[r] \in Int /\ book.booked[r] \in Int /\ extra[r] \in Nat
       /\ Owed(r) \in Nat /\ Reserve(r) \in Nat
       /\ Loose(r) \in SUBSET Task /\ Price(Loose(r)) \in Nat
       /\ \A t \in Task : Ahead(r, t) \in SUBSET Task /\ Price(Ahead(r, t)) \in Nat
       /\ \A j \in Job : /\ asked[r][j] \in Int /\ amount[r][j] \in Int
                         /\ moment[r][j] \in 1..Days /\ amount[r][j] <= asked[r][j]
  /\ \A d \in 1..Days : book.day[d] \in Int
  /\ today \in 1..Days /\ deaths \in Nat
  /\ Reserves \in Int /\ SumFunction(extra) \in Nat
  /\ caps \in Envelope /\ (caps.day # Uncapped => caps.day \in Nat)

LEMMA MoneyTypes == LedgerInv /\ MoneyType => Numbers
<1> SUFFICES ASSUME LedgerInv, MoneyType PROVE Numbers
  OBVIOUS
<1> USE DEF LedgerInv, BookType
<1>1. ASSUME NEW r \in Run
      PROVE  /\ known[r] \in Int /\ saved[r] \in Int /\ book.booked[r] \in Int /\ extra[r] \in Nat
             /\ Owed(r) \in Nat
             /\ Loose(r) \in SUBSET Task /\ Price(Loose(r)) \in Nat
             /\ \A t \in Task : Ahead(r, t) \in SUBSET Task /\ Price(Ahead(r, t)) \in Nat
  <2>1. known[r] \in Int /\ saved[r] \in Int /\ book.booked[r] \in Int /\ extra[r] \in Nat
    BY DEF Books, MoneyType
  <2>2. Loose(r) \in SUBSET Task /\ \A t \in Task : Ahead(r, t) \in SUBSET Task
    BY DEF Loose, Ahead
  <2>3. Owed(r) \in Nat
    <3>1. known[r] - book.booked[r] \in Int
      BY <2>1
    <3>2. QED
      BY <3>1, PosFacts DEF Owed
  <2>4. QED
    BY <2>1, <2>2, <2>3, PriceFacts
<1>2. ASSUME NEW r \in Run PROVE Reserve(r) \in Nat
  BY <1>1 DEF Reserve
<1>3. ASSUME NEW r \in Run, NEW j \in Job
      PROVE  /\ asked[r][j] \in Int /\ amount[r][j] \in Int /\ moment[r][j] \in 1..Days
             /\ amount[r][j] <= asked[r][j]
  BY DEF AskedInv
<1>4. \A d \in 1..Days : book.day[d] \in Int
  BY DEF Books
<1>5. Reserves \in Int /\ SumFunction(extra) \in Nat
  <2>1. [r \in Run |-> Reserve(r)] \in [Run -> Int]
    BY <1>2
  <2>2. QED
    BY <2>1, RunAssumption, SumIsInt, SumIsNat DEF Reserves, MoneyType
<1>6. caps \in Envelope /\ (caps.day # Uncapped => caps.day \in Nat)
  BY BoundsType DEF Envelope
<1>7. QED
  BY <1>1, <1>2, <1>3, <1>4, <1>5, <1>6 DEF Numbers, MoneyType

\* All the runs together may book no more than a share for every slot and every killed run.
LEMMA ReservesFit ==
  ASSUME Types, \A r \in Run : RunOk(r), DeathsCounted,
         NEW p \in Provider, NEW w \in 0..MaxSlot, Shared(p, w)
  PROVE  Reserves <= Slack(w) + SumFunction(extra) /\ Slack(w) \in Nat
<1> DEFINE U == Inside \union Dead
           f == [r \in Run |-> Reserve(r)]
<1>1. Share \in Nat /\ deaths \in Nat /\ w \in Nat
  BY MoneyTypes, ShareType, SlotAssumption DEF Types, MoneyType, Numbers
<1>2. U \in SUBSET Run /\ Inside \in SUBSET Run /\ Dead \in SUBSET Run
  BY DEF Inside, Dead
<1>3. Cardinality(Inside) <= w
  <2>1. CapacityHolds
    BY HoldImpliesCapacity DEF Types
  <2>2. Inside = {r \in Inside : p \in Capped(r)}
    BY <1>2 DEF Shared
  <2>3. CASE Inside = {}
    BY <1>1, <2>3, FS_EmptySet
  <2>4. CASE Inside # {}
    <3>1. PICK r \in Inside : Cardinality(Inside) <= demand[r].limit[p]
      BY <2>1, <2>2, <2>4 DEF CapacityHolds
    <3>2. /\ demand[r].limit[p] \in 0..MaxSlot /\ demand[r].limit[p] <= w
          /\ Cardinality(Inside) \in Nat
      BY <1>2, LimitType, RunAssumption, FS_Subset, FS_CardinalityType DEF Types, Shared
    <3>3. QED
      BY <1>1, <3>1, <3>2
  <2>5. QED
    BY <2>3, <2>4
<1>4. Cardinality(U) \in Nat /\ Cardinality(U) <= w + deaths
  <2>1. IsFiniteSet(Inside) /\ IsFiniteSet(Dead) /\ IsFiniteSet(U) /\ IsFiniteSet(Inside \cap Dead)
    BY <1>2, RunAssumption, FS_Subset
  <2>2. Cardinality(U) = Cardinality(Inside) + Cardinality(Dead) - Cardinality(Inside \cap Dead)
    BY <2>1, FS_Union
  <2>3. /\ Cardinality(U) \in Nat /\ Cardinality(Inside) \in Nat /\ Cardinality(Dead) \in Nat
        /\ Cardinality(Inside \cap Dead) \in Nat
    BY <2>1, FS_CardinalityType
  <2>4. QED
    BY <1>1, <1>3, <2>2, <2>3 DEF DeathsCounted
<1>5. LedgerInv /\ MoneyType /\ \A r \in Run : RunOk(r)
  BY DEF Types
<1>6. ASSUME NEW r \in Run \ U PROVE Reserve(r) = 0
  <2>1. /\ status[r] \in Statuses /\ act[r][0] = "none"
        /\ status[r] \notin {"live", "dead"} /\ Still(r)
    BY <1>5 DEF Inside, Dead, RunOk, PlaceOk, MoneyType
  <2>2. Loose(r) = {}
    BY <2>1 DEF Loose, Still
  <2>3. known[r] <= book.booked[r] /\ known[r] \in Int /\ book.booked[r] \in Int
    BY <1>5, <2>1, MoneyTypes DEF RunOk, MoneyOk, Statuses, Ended, Numbers
  <2>4. QED
    BY <2>2, <2>3, PriceFacts DEF Reserve, Owed, Pos
<1>7. f \in [Run -> Int] /\ extra \in [Run -> Nat] /\ extra \in [Run -> Int]
  BY <1>5, MoneyTypes DEF MoneyType, Numbers
<1>8. ASSUME NEW r \in Run PROVE f[r] <= extra[r] + IF r \in U THEN Share ELSE 0
  <2>1. f[r] = Reserve(r) /\ f[r] \in Int /\ extra[r] \in Nat
    BY <1>7
  <2>2. Reserve(r) <= Share + extra[r]
    BY <1>5 DEF RunOk, MoneyOk
  <2>3. r \notin U => Reserve(r) = 0
    BY <1>6
  <2> HIDE DEF U, f
  <2>4. QED
    BY <1>1, <2>1, <2>2, <2>3
<1>9. SumFunction(f) = Reserves
  BY DEF Reserves
<1> HIDE DEF U, f
<1>10. SumFunction(f) <= Cardinality(U) * Share + SumFunction(extra)
  BY <1>1, <1>2, <1>7, <1>8, RunAssumption, SumShares
<1>11. /\ Cardinality(U) * Share <= (w + deaths) * Share
       /\ (w + deaths) * Share \in Nat /\ Cardinality(U) * Share \in Nat
  BY <1>1, <1>4, Multiples
<1>12. Reserves \in Int /\ SumFunction(extra) \in Nat
  BY <1>5, MoneyTypes DEF Numbers
<1> DEFINE x == Cardinality(U) * Share
           y == (w + deaths) * Share
<1>13. x <= y /\ y \in Nat /\ x \in Nat /\ Reserves <= x + SumFunction(extra)
  BY <1>9, <1>10, <1>11
<1> HIDE DEF x, y
<1>14. Reserves <= y + SumFunction(extra)
  BY <1>12, <1>13
<1>15. QED
  BY <1>13, <1>14 DEF Slack, y

\* Past the ceiling or not, the day and what may still be booked on it stay within the slack.
LEMMA CeilingAlways ==
  ASSUME Types, Inv, Governing, caps.day # 0,
         NEW p \in Provider, NEW w \in 0..MaxSlot, Shared(p, w)
  PROVE  /\ book.day[today] + Reserves <= caps.day + Slack(w) + SumFunction(extra)
         /\ Slack(w) \in Nat
<1>1. Reserves <= Slack(w) + SumFunction(extra) /\ Slack(w) \in Nat
  BY ReservesFit DEF Inv
<1>2. /\ book.day[today] \in Int /\ caps.day \in Nat /\ Reserves \in Int
      /\ SumFunction(extra) \in Nat
  BY MoneyTypes DEF Types, Governing, Numbers
<1>3. CASE book.day[today] > caps.day
  BY <1>1, <1>3 DEF Inv, CeilingHolds
<1>4. CASE ~(book.day[today] > caps.day)
  BY <1>1, <1>2, <1>4
<1>5. QED
  BY <1>3, <1>4

LEMMA MoneyBounds == ASSUME Types, MoneyInv PROVE OvershootIsBounded
<1> SUFFICES ASSUME Governing, NEW p \in Provider, NEW w \in 0..MaxSlot, Shared(p, w)
             PROVE  book.day[today] <=
                      IF caps.day = 0 THEN 0
                      ELSE caps.day + (w + deaths) * (Parallel * MaxCost) + SumFunction(extra)
  BY DEF OvershootIsBounded, Governing
<1>1. /\ book.day[today] \in Int /\ caps.day \in Nat /\ Reserves \in Int
      /\ SumFunction(extra) \in Nat /\ today \in 1..Days
  BY MoneyTypes DEF Types, Governing, Numbers
<1>2. CASE caps.day = 0
  BY <1>1, <1>2 DEF MoneyInv, Inv, ZeroHolds
<1>3. CASE caps.day # 0
  <2>1. /\ book.day[today] + Reserves <= caps.day + Slack(w) + SumFunction(extra)
        /\ Slack(w) \in Nat
    BY <1>3, CeilingAlways DEF MoneyInv
  <2>2. Reserves >= 0
    <3>1. [r \in Run |-> Reserve(r)] \in [Run -> Nat]
      BY MoneyTypes DEF Types, Numbers
    <3>2. Reserves \in Nat
      BY <3>1, RunAssumption, SumIsNat DEF Reserves
    <3>3. QED
      BY <3>2
  <2>3. book.day[today] <= caps.day + Slack(w) + SumFunction(extra)
    BY <1>1, <2>1, <2>2
  <2>4. QED
    BY <1>3, <2>3 DEF Slack, Share
<1>4. QED
  BY <1>2, <1>3

------------------------------------------------------------------------------
(* Steps *)

LEMMA UnseenType ==
  ASSUME LedgerInv, NEW r \in Run, NEW j \in Job, NEW next
  PROVE  /\ Unseen(r, j, book, next) \in Nat
         /\ ~Commits(act[r][j]) /\ next # "cleared" => Unseen(r, j, book, next) = 0
         /\ Commits(act[r][j]) /\ next # "cleared" =>
              Unseen(r, j, book, next) = Pos(book.booked[r] - amount[r][j])
         /\ Commits(act[r][j]) /\ next = "cleared" =>
              Unseen(r, j, book, next) =
                Pos(book.booked[r] - amount[r][j]) + (asked[r][j] - amount[r][j])
                  + IF moment[r][j] < today THEN MaxCost ELSE 0
<1>1. /\ book.booked[r] \in Int /\ asked[r][j] \in Int /\ amount[r][j] \in Int
      /\ amount[r][j] <= asked[r][j]
  BY DEF LedgerInv, BookType, AskedInv, Books
<1>2. MaxCost \in Nat
  BY BoundsType
<1> DEFINE b == book.booked[r]
           a == amount[r][j]
           k == asked[r][j]
           back == IF Commits(act[r][j]) /\ b > a THEN b - a ELSE 0
           hid  == IF next = "cleared" THEN k - a ELSE 0
           day  == IF next = "cleared" /\ moment[r][j] < today THEN MaxCost ELSE 0
<1>3. Unseen(r, j, book, next) = back + hid + day
  BY DEF Unseen
<1>4. b \in Int /\ a \in Int /\ k \in Int /\ a <= k
  BY <1>1
<1> HIDE DEF b, a, k
<1>5. back = IF Commits(act[r][j]) THEN Pos(b - a) ELSE 0
  BY <1>4 DEF Pos
<1>6. back \in Nat /\ hid \in Nat /\ day \in Nat
  BY <1>2, <1>4
<1>7. /\ next # "cleared" => hid = 0 /\ day = 0
      /\ next = "cleared" => hid = k - a /\ day = IF moment[r][j] < today THEN MaxCost ELSE 0
  OBVIOUS
<1> HIDE DEF back, hid, day
<1>8. QED
  BY <1>3, <1>5, <1>6, <1>7 DEF b, a, k

LEMMA MoneyTypeStep == ASSUME LedgerInv, MoneyType, [Next]_vars PROVE MoneyType'
<1> USE DEF MoneyType
<1>1. ASSUME NEW r \in Run, Queue(r) PROVE MoneyType'
  BY <1>1 DEF Queue, ledgerVars, runVars, histories
<1>2. ASSUME NEW r \in Run, Execute(r) PROVE MoneyType'
  <2>1. deaths' = deaths
    BY <1>2 DEF Execute
  <2>2. CASE Begin(r)
    <3>1. waived' \in [Run -> SUBSET (Controls \union {"none"})] /\ excused' \in BOOLEAN
      <4>1. PICK approved \in BOOLEAN :
              LET retired == IF approved /\ status[r] = "paused" THEN {why[r]} ELSE {} IN
                /\ waived' = [waived EXCEPT ![r] = retired]
                /\ excused' = (excused \/ "money" \in retired)
        BY <2>2 DEF Begin
      <4>2. QED
        BY <4>1
    <3>2. QED
      BY <2>1, <2>2, <3>1 DEF Begin, Statuses
  <2>3. ASSUME NEW j \in Job, Lock(r, j) \/ Unasked(r, j) PROVE MoneyType'
    BY <2>1, <2>3 DEF Lock, Unasked, runVars, histories
  <2>4. ASSUME NEW t \in Task, Open(r, t) \/ LeafEnds(r, t) \/ GiveUp(r, t) \/ Persist(r, t)
        PROVE  MoneyType'
    BY <2>1, <2>4 DEF Open, LeafEnds, GiveUp, Persist, histories
  <2>5. ASSUME NEW t \in Task, Launch(r, t) PROVE MoneyType'
    <3>1. extra' = extra \/ extra' = [extra EXCEPT ![r] = @ + MaxCost]
      BY <2>5 DEF Launch, Blind
    <3>2. extra' \in [Run -> Nat]
      BY <3>1, BoundsType
    <3>3. QED
      BY <2>1, <2>5, <3>2 DEF Launch
  <2>6. CASE Beat(r) \/ End(r)
    BY <2>1, <2>6 DEF Beat, End, Statuses, histories
  <2>7. ASSUME NEW j \in Job, Write(r, j) PROVE MoneyType'
    <3>1. UNCHANGED <<status, waived, excused>>
      BY <2>7 DEF Write
    <3>2. PICK off \in BOOLEAN :
            LET control == IF act[r][j] \in Checks /\ ~off THEN Verdict(r, j, book') ELSE "none"
                next    == IF off THEN "persist" ELSE Following(r, act[r][j], control)
            IN
            /\ why' = [why EXCEPT ![r] = IF control = "none" THEN @ ELSE control]
            /\ extra' = [extra EXCEPT ![r] = @ + Unseen(r, j, book, next)]
      BY <2>7, WriteFacts, Zenon
    <3>3. why' \in [Run -> Controls \union {"none"}]
      BY <3>2 DEF Verdict, Controls
    <3>4. extra' \in [Run -> Nat]
      <4>1. \E n : n \in Nat /\ extra' = [extra EXCEPT ![r] = @ + n]
        BY <3>2, UnseenType, Zenon
      <4>2. QED
        BY <4>1
    <3>5. QED
      BY <2>1, <3>1, <3>3, <3>4
  <2>8. QED
    BY <1>2, <2>2, <2>3, <2>4, <2>5, <2>6, <2>7 DEF Execute, LedgerStep
<1>3. ASSUME NEW r \in Run, EndOfBlock(r) PROVE MoneyType'
  BY <1>3 DEF EndOfBlock, Finish, ledgerVars, runVars, histories
<1>4. ASSUME NEW r \in Run, Crash(r) PROVE MoneyType'
  BY <1>4 DEF Crash, LedgerCrash, ledgerVars, runVars, histories, Statuses
<1>5. CASE Tomorrow
  BY <1>5 DEF Tomorrow, Midnight, runVars, histories
<1>6. CASE UNCHANGED vars
  BY <1>6 DEF vars, ledgerVars, runVars, histories
<1>7. QED
  BY <1>1, <1>2, <1>3, <1>4, <1>5, <1>6 DEF Next

LEMMA NextMoneyTypes == ASSUME LedgerInv', MoneyType' PROVE Numbers'
<1>1. (LedgerInv /\ MoneyType => Numbers)'
  BY MoneyTypes, PTL
<1>2. QED
  BY <1>1

\* A step leaves what the invariant says of run s alone.
Same(s) ==
  /\ status'[s] = status[s] /\ act'[s] = act[s] /\ moment'[s] = moment[s]
  /\ amount'[s] = amount[s] /\ asked'[s] = asked[s] /\ known'[s] = known[s]
  /\ saved'[s] = saved[s] /\ waived'[s] = waived[s] /\ why'[s] = why[s] /\ extra'[s] = extra[s]
  /\ stage'[s] = stage[s] /\ book'.booked[s] = book.booked[s]

\* All but r.
Others(r) == \A s \in Run \ {r} : Same(s)

LEMMA SameKeeps ==
  ASSUME Types, NEW s \in Run, Same(s), UNCHANGED caps,
         today <= today', today \in Int, today' \in Int
  PROVE  /\ RunOk(s) => RunOk(s)'
         /\ ZeroOk(s) => ZeroOk(s)'
         /\ Reserve(s)' = Reserve(s)
<1>1. Owed(s)' = Owed(s) /\ Loose(s)' = Loose(s) /\ \A t \in Task : Ahead(s, t)' = Ahead(s, t)
  BY DEF Same, Owed, Loose, Ahead
<1>2. Reserve(s)' = Reserve(s)
  BY <1>1 DEF Reserve
<1>3. Still(s)' = Still(s) /\ Holders(s)' = Holders(s)
  BY DEF Same, Still, Holders
<1>4. PlaceOk(s) => PlaceOk(s)'
  BY <1>3, ShareStays DEF Same, PlaceOk
<1>5. AskedOk(s) => AskedOk(s)'
  <2>1. \A j \in Job : moment[s][j] \in Int
    BY MoneyTypes DEF Types, Numbers
  <2>2. QED
    BY <2>1 DEF Same, AskedOk
<1>6. MoneyOk(s) => MoneyOk(s)'
  BY <1>1, <1>2, ShareStays DEF Same, MoneyOk, LaunchOk
<1>7. ZeroOk(s) => ZeroOk(s)'
  BY <1>3 DEF Same, ZeroOk
<1>8. QED
  BY <1>2, <1>4, <1>5, <1>6, <1>7 DEF RunOk

LEMMA SlackGrows ==
  ASSUME caps \in Envelope, UNCHANGED caps,
         deaths \in Nat, deaths' \in Nat, deaths <= deaths', NEW w \in 0..MaxSlot
  PROVE  Slack(w) <= Slack(w)' /\ Slack(w) \in Int /\ Slack(w)' \in Int
<1> DEFINE b == deaths'
<1>1. w \in Nat /\ b \in Nat /\ deaths <= b /\ Share \in Nat
  BY ShareType, SlotAssumption
<1> HIDE DEF b
<1>2. w + deaths \in Nat /\ w + b \in Nat /\ w + deaths <= w + b
  BY <1>1
<1>3. (w + deaths) * Share <= (w + b) * Share /\ (w + deaths) * Share \in Nat
  BY <1>1, <1>2, Multiples
<1>4. (w + b) * Share \in Nat
  BY <1>1, <1>2
<1>5. QED
  BY <1>3, <1>4, ShareStays DEF Slack, b

LEMMA DeadShrink ==
  ASSUME DeathsCounted, deaths \in Nat, deaths' = deaths,
         \A s \in Run : status'[s] = "dead" => status[s] = "dead"
  PROVE  DeathsCounted'
<1>1. Dead' \subseteq Dead /\ Dead \subseteq Run
  BY DEF Dead
<1>2. IsFiniteSet(Dead)
  BY <1>1, RunAssumption, FS_Subset
<1>3. Dead' \in SUBSET Dead
  BY <1>1
<1>4. Cardinality(Dead') <= Cardinality(Dead)
  BY <1>2, <1>3, FS_Subset
<1>5. Cardinality(Dead') \in Nat /\ Cardinality(Dead) \in Nat
  BY <1>2, <1>3, FS_Subset, FS_CardinalityType
<1>6. QED
  BY <1>4, <1>5 DEF DeathsCounted

\* What a step of r must show: on the day, what r owes and what is booked stay within what they
\* were and what was not seen.
Covered(r) ==
  book'.day[today'] > caps.day =>
    book'.day[today'] + Reserve(r)' - extra'[r] <= book.day[today] + Reserve(r) - extra[r]

LEMMA StepKeeps ==
  ASSUME Types, Types', Governing, Inv, NEW r \in Run, UNCHANGED <<caps, today, demand>>,
         deaths <= deaths', Others(r), RunOk(r)', DeathsCounted', FutureEmpty', Covered(r),
         caps.day = 0 => ZeroOk(r)' /\ \A d \in 1..Days : book'.day[d] = 0
  PROVE  Inv'
<1>1. Numbers /\ Numbers'
  BY MoneyTypes, NextMoneyTypes DEF Types
<1>2. ASSUME NEW s \in Run \ {r}
      PROVE  RunOk(s)' /\ (ZeroOk(s) => ZeroOk(s)') /\ Reserve(s)' = Reserve(s)
  BY <1>1, SameKeeps DEF Inv, Others, Numbers
<1>3. \A s \in Run : RunOk(s)'
  BY <1>2
<1>4. ZeroHolds'
  BY <1>2 DEF Inv, ZeroHolds
<1>5. ASSUME NEW p \in Provider, NEW w \in 0..MaxSlot, Shared(p, w)', caps.day # 0,
             book'.day[today] > caps.day
      PROVE  book'.day[today] + Reserves' <= caps.day + Slack(w)' + SumFunction(extra')
  <2>1. Shared(p, w)
    BY <1>5 DEF Shared, Capped
  <2>2. book.day[today] + Reserves <= caps.day + Slack(w) + SumFunction(extra)
    BY <1>5, <2>1, CeilingAlways
  <2>3. Slack(w) <= Slack(w)' /\ Slack(w) \in Int /\ Slack(w)' \in Int
    BY <1>1, SlackGrows DEF Numbers
  <2> DEFINE f == [s \in Run |-> Reserve(s)]
             h == [s \in Run |-> Reserve(s)']
  <2>4. /\ f \in [Run -> Int] /\ h \in [Run -> Int] /\ \A s \in Run \ {r} : h[s] = f[s]
        /\ f[r] = Reserve(r) /\ h[r] = Reserve(r)' /\ Reserves = SumFunction(f)
        /\ Reserves' = SumFunction(h)
    BY <1>1, <1>2 DEF Numbers, Reserves
  <2> HIDE DEF f, h
  <2>5. SumFunction(h) = SumFunction(f) + h[r] - f[r]
    BY <2>4, RunAssumption, SumChange
  <2>6. SumFunction(extra') = SumFunction(extra) + extra'[r] - extra[r]
    <3> DEFINE e == extra'
    <3>1. extra \in [Run -> Int] /\ e \in [Run -> Int] /\ \A s \in Run \ {r} : e[s] = extra[s]
      BY DEF Types, MoneyType, Others, Same
    <3> HIDE DEF e
    <3>2. SumFunction(e) = SumFunction(extra) + e[r] - extra[r]
      BY <3>1, RunAssumption, SumChange
    <3>3. QED
      BY <3>2 DEF e
  <2>7. book'.day[today] + Reserve(r)' - extra'[r] <= book.day[today] + Reserve(r) - extra[r]
    BY <1>5 DEF Covered
  <2>8. /\ book'.day[today] \in Int /\ book.day[today] \in Int /\ caps.day \in Int
        /\ Reserve(r) \in Int /\ Reserve(r)' \in Int /\ extra[r] \in Int /\ extra'[r] \in Int
        /\ SumFunction(extra) \in Int /\ Reserves \in Int
    BY <1>1 DEF Numbers, Governing
  <2> DEFINE d1 == book'.day[today]
             d0 == book.day[today]
             R1 == Reserve(r)'
             R0 == Reserve(r)
             e1 == extra'[r]
             S1 == Slack(w)'
             T1 == SumFunction(extra')
             V1 == Reserves'
  <2>9. /\ d1 \in Int /\ d0 \in Int /\ R0 \in Int /\ R1 \in Int /\ e1 \in Int /\ S1 \in Int
        /\ d1 + R1 - e1 <= d0 + R0 - extra[r] /\ Slack(w) <= S1
        /\ T1 = SumFunction(extra) + e1 - extra[r] /\ V1 = Reserves + R1 - R0
        /\ d0 + Reserves <= caps.day + Slack(w) + SumFunction(extra)
    BY <2>2, <2>3, <2>4, <2>5, <2>6, <2>7, <2>8
  <2> HIDE DEF d1, d0, R1, R0, e1, S1, T1, V1
  <2>10. d1 + V1 <= caps.day + S1 + T1
    BY <2>3, <2>8, <2>9
  <2>11. QED
    BY <2>10 DEF d1, S1, T1, V1
<1>6. CeilingHolds'
  BY <1>5 DEF CeilingHolds
<1>7. QED
  BY <1>3, <1>4, <1>6 DEF Inv

\* A step of r that leaves the ledger alone.
LEMMA QuietKeeps ==
  ASSUME Types, Types', Governing, Inv, NEW r \in Run, UNCHANGED <<caps, today, demand, book>>,
         deaths <= deaths', Others(r), RunOk(r)', DeathsCounted', caps.day = 0 => ZeroOk(r)',
         Reserve(r)' - extra'[r] <= Reserve(r) - extra[r]
  PROVE  Inv'
<1>1. Numbers /\ Numbers'
  BY MoneyTypes, NextMoneyTypes DEF Types
<1>2. Covered(r)
  <2> DEFINE R1 == Reserve(r)'
             e1 == extra'[r]
             d0 == book.day[today]
  <2>1. /\ R1 \in Int /\ e1 \in Int /\ d0 \in Int /\ Reserve(r) \in Int /\ extra[r] \in Int
        /\ R1 - e1 <= Reserve(r) - extra[r]
    BY <1>1 DEF Numbers
  <2> HIDE DEF R1, e1, d0
  <2>2. d0 + R1 - e1 <= d0 + Reserve(r) - extra[r]
    BY <2>1
  <2>3. QED
    BY <2>2 DEF R1, e1, d0, Covered
<1>3. FutureEmpty'
  BY DEF Inv, FutureEmpty
<1>4. caps.day = 0 => \A d \in 1..Days : book'.day[d] = 0
  BY DEF Inv, ZeroHolds
<1>5. QED
  BY <1>2, <1>3, <1>4, StepKeeps

\* Among the slots, outside the block.
LEMMA StageKeeps ==
  ASSUME Types, Types', Governing, Inv, NEW r \in Run, act[r][0] = "none", status[r] # "live",
         UNCHANGED <<ledgerVars, deaths, demand>>, \A s \in Run \ {r} : stage'[s] = stage[s]
  PROVE  Inv'
<1>1. /\ UNCHANGED <<book, caps, today, demand, deaths>>
      /\ UNCHANGED <<status, act, moment, amount, asked, known, saved, waived, why, extra>>
  BY DEF ledgerVars, runVars, jobVars, histories
<1>2. /\ Owed(r)' = Owed(r) /\ Loose(r)' = Loose(r) /\ Still(r)' = Still(r)
      /\ Holders(r)' = Holders(r) /\ \A t \in Task : Ahead(r, t)' = Ahead(r, t)
  BY <1>1 DEF Owed, Loose, Ahead, Still, Holders
<1>3. Reserve(r)' = Reserve(r)
  BY <1>2 DEF Reserve
<1>4. Others(r)
  BY <1>1 DEF Others, Same
<1>5. PlaceOk(r)'
  BY <1>1, <1>2, ShareStays DEF PlaceOk, Inv, RunOk
<1>6. AskedOk(r)'
  BY <1>1 DEF AskedOk, Inv, RunOk
<1>7. MoneyOk(r)'
  BY <1>1, <1>2, <1>3, ShareStays DEF MoneyOk, LaunchOk, Inv, RunOk
<1>8. caps.day = 0 => ZeroOk(r)'
  BY <1>1, <1>2 DEF ZeroOk, Inv, ZeroHolds
<1>9. Numbers /\ DeathsCounted' /\ deaths <= deaths'
  BY <1>1, DeadShrink, MoneyTypes DEF Inv, Types, Numbers
<1>10. Reserve(r)' - extra'[r] <= Reserve(r) - extra[r]
  BY <1>1, <1>3, <1>9 DEF Numbers
<1>11. QED
  BY <1>1, <1>4, <1>5, <1>6, <1>7, <1>8, <1>9, <1>10, QuietKeeps DEF RunOk

LEMMA IdleKeeps == ASSUME Types, Governing, Inv, UNCHANGED vars PROVE Inv'
<1>1. Numbers /\ UNCHANGED <<book, caps, today, demand, deaths, status, extra>>
  BY MoneyTypes DEF Types, vars, slotVars, ledgerVars, runVars, histories
<1>2. \A s \in Run : Same(s)
  BY DEF Same, vars, slotVars, ledgerVars, runVars, jobVars, histories
<1>3. \A s \in Run : RunOk(s)' /\ (ZeroOk(s) => ZeroOk(s)') /\ Reserve(s)' = Reserve(s)
  BY <1>1, <1>2, SameKeeps DEF Inv, Numbers
<1>4. Reserves' = Reserves
  BY <1>3 DEF Reserves
<1>5. CeilingHolds'
  BY <1>1, <1>4, ShareStays DEF Inv, CeilingHolds, Shared, Capped, Slack
<1>6. QED
  BY <1>1, <1>3, <1>5 DEF Inv, FutureEmpty, DeathsCounted, Dead, ZeroHolds

------------------------------------------------------------------------------
(* A step of one run's graph moves, or its runner does. *)

\* Only step t of run r moves.
OnlyTask(r, t) ==
  /\ \A j \in Job \ {t} : /\ act'[r][j] = act[r][j] /\ moment'[r][j] = moment[r][j]
                          /\ amount'[r][j] = amount[r][j] /\ asked'[r][j] = asked[r][j]

LEMMA RowSets ==
  ASSUME NEW r \in Run, NEW t \in Task, OnlyTask(r, t)
  PROVE  /\ Loose(r)' = IF act'[r][t] \in {"cleared", "fly"} THEN Loose(r) \union {t}
                        ELSE Loose(r) \ {t}
         /\ Holders(r)' = IF act'[r][t] \in Holding THEN Holders(r) \union {t}
                          ELSE Holders(r) \ {t}
         /\ \A u \in Task \ {t} :
              /\ Ahead(r, u)' \subseteq Ahead(r, u) \union {t}
              /\ act'[r][t] \notin Holding => Ahead(r, u)' = Ahead(r, u) \ {t}
<1>1. \A u \in Task \ {t} : act'[r][u] = act[r][u] /\ asked'[r][u] = asked[r][u]
  BY JobFacts DEF OnlyTask
<1>2. Loose(r)' = IF act'[r][t] \in {"cleared", "fly"} THEN Loose(r) \union {t}
                  ELSE Loose(r) \ {t}
  BY <1>1 DEF Loose
<1>3. Holders(r)' = IF act'[r][t] \in Holding THEN Holders(r) \union {t} ELSE Holders(r) \ {t}
  BY <1>1 DEF Holders
<1>4. ASSUME NEW u \in Task \ {t}
      PROVE  /\ Ahead(r, u)' \subseteq Ahead(r, u) \union {t}
             /\ act'[r][t] \notin Holding => Ahead(r, u)' = Ahead(r, u) \ {t}
  <2> DEFINE w  == {v \in Task : act[r][v] = "launch" /\ asked[r][v] <= asked[r][u]}
             w1 == {v \in Task : act'[r][v] = "launch" /\ asked'[r][v] <= asked'[r][u]}
  <2>1. w1 \subseteq w \union {t} /\ (act'[r][t] # "launch" => w1 = w \ {t})
    BY <1>1
  <2>2. Ahead(r, u) = Loose(r) \union w /\ Ahead(r, u)' = Loose(r)' \union w1
    BY DEF Ahead
  <2> HIDE DEF w, w1
  <2>3. Loose(r)' \subseteq Loose(r) \union {t}
    BY <1>2
  <2>4. act'[r][t] \notin Holding => Loose(r)' = Loose(r) \ {t} /\ act'[r][t] # "launch"
    BY <1>2 DEF Holding
  <2>5. QED
    BY <2>1, <2>2, <2>3, <2>4
<1>5. QED
  BY <1>2, <1>3, <1>4

\* The steps that may spend when u starts are among those that hold a permit.
LEMMA AheadHolds ==
  ASSUME NEW r \in Run, NEW u \in Task
  PROVE  Ahead(r, u) \subseteq Holders(r) /\ Holders(r) \in SUBSET Task
BY DEF Ahead, Loose, Holders, Holding

\* What step t spends while it flies, and what it leaves of its share when it is done.
LEMMA Retires ==
  ASSUME Numbers, Numbers', NEW r \in Run, NEW t \in Task, OnlyTask(r, t), MoneyOk(r),
         UNCHANGED caps,
         act'[r][t] \notin Holding, book'.booked[r] = book.booked[r], extra'[r] = extra[r],
         \/ known'[r] = known[r]
         \/ act[r][t] = "fly" /\ \E cost \in 1..MaxCost : known'[r] = known[r] + cost
  PROVE  /\ Reserve(r)' - extra'[r] <= Reserve(r) - extra[r]
         /\ Reserve(r)' <= Share + extra'[r]
         /\ \A u \in Task : act'[r][u] = "launch" => LaunchOk(r, u)'
<1> DEFINE K  == known[r]
           K1 == known'[r]
           B  == book.booked[r]
           E  == extra[r]
           L  == Loose(r)
           L1 == Loose(r)'
<1>0. /\ K \in Int /\ K1 \in Int /\ B \in Int /\ E \in Nat /\ MaxCost \in Nat /\ Share \in Nat
      /\ L \in SUBSET Task /\ Price(L) \in Nat /\ Price(L1) \in Nat
      /\ book'.booked[r] = B /\ extra'[r] = E
  BY PriceFacts DEF Numbers
<1>1. L1 = L \ {t}
  BY RowSets DEF Holding
<1>2. K1 >= K /\ K1 + Price(L1) <= K + Price(L) /\ K1 - K <= Price(L) - Price(L1)
  <2>1. CASE known'[r] = known[r]
    <3>1. Price(L1) <= Price(L)
      BY <1>0, <1>1, PriceFacts
    <3>2. QED
      BY <1>0, <2>1, <3>1
  <2>2. CASE act[r][t] = "fly" /\ \E cost \in 1..MaxCost : known'[r] = known[r] + cost
    <3>1. t \in L
      BY <2>2 DEF Loose
    <3>2. Price(L) = Price(L1) + MaxCost
      BY <1>0, <1>1, <3>1, PriceFacts
    <3>3. PICK cost \in 1..MaxCost : K1 = K + cost
      BY <2>2
    <3> HIDE DEF K, K1, L, L1
    <3>4. QED
      BY <1>0, <3>2, <3>3
  <2>3. QED
    BY <2>1, <2>2
<1>3. Owed(r)' = Pos(K1 - B) /\ Owed(r) = Pos(K - B)
  BY <1>0 DEF Owed
<1>4. Reserve(r)' = Pos(K1 - B) + Price(L1) /\ Reserve(r) = Pos(K - B) + Price(L)
  BY <1>3 DEF Reserve
<1>5. Reserve(r) <= Share + E
  BY DEF MoneyOk
<1>6. ASSUME NEW u \in Task, act'[r][u] = "launch" PROVE LaunchOk(r, u)'
  <2> DEFINE A  == Ahead(r, u)
             A1 == Ahead(r, u)'
             k  == asked[r][u]
             a  == amount[r][u]
  <2>1. u # t /\ u \in Job /\ asked'[r][u] = k /\ amount'[r][u] = a /\ act[r][u] = "launch"
    BY <1>6, JobFacts DEF OnlyTask, Holding
  <2>2. A1 = A \ {t} /\ L \subseteq A /\ A \in SUBSET Task /\ k \in Int /\ a \in Int
    BY <2>1, RowSets DEF Ahead, Numbers
  <2>3. K + Price(A) <= Share + E + k + Pos(B - a)
    BY <2>1 DEF MoneyOk, LaunchOk
  <2>4. K1 + Price(A1) <= K + Price(A)
    <3>1. CASE known'[r] = known[r]
      <4>1. Price(A1) <= Price(A) /\ Price(A1) \in Nat /\ Price(A) \in Nat
        BY <2>2, PriceFacts
      <4>2. QED
        BY <1>0, <3>1, <4>1
    <3>2. CASE act[r][t] = "fly" /\ \E cost \in 1..MaxCost : known'[r] = known[r] + cost
      <4>1. t \in A
        BY <2>2, <3>2 DEF Loose
      <4>2. Price(A) = Price(A1) + MaxCost /\ Price(A1) \in Nat
        BY <2>2, <4>1, PriceFacts
      <4>3. PICK cost \in 1..MaxCost : K1 = K + cost
        BY <3>2
      <4> HIDE DEF K, K1, A, A1
      <4>4. QED
        BY <1>0, <4>2, <4>3
    <3>3. QED
      BY <3>1, <3>2
  <2>5. Price(A) \in Nat /\ Price(A1) \in Nat /\ Pos(B - a) \in Nat
    BY <1>0, <2>2, PriceFacts, PosFacts
  <2>6. LaunchOk(r, u)' <=> K1 + Price(A1) <= Share + E + k + Pos(B - a)
    BY <1>0, <2>1, ShareStays DEF LaunchOk
  <2> HIDE DEF K, K1, B, E, A, A1, k, a
  <2>7. QED
    BY <1>0, <2>2, <2>3, <2>4, <2>5, <2>6
<1> DEFINE P == Pos(K - B)
           P1 == Pos(K1 - B)
<1>7. P \in Nat /\ P1 \in Nat /\ P1 <= P + (K1 - K)
  BY <1>0, <1>2 DEF Pos
<1> DEFINE R  == Reserve(r)
           R1 == Reserve(r)'
<1>8. R1 = P1 + Price(L1) /\ R = P + Price(L) /\ R <= Share + E
  BY <1>4, <1>5
<1> HIDE DEF K, K1, B, E, L, L1, P, P1, R, R1
<1>9. R1 - E <= R - E /\ R1 <= Share + E
  BY <1>0, <1>2, <1>7, <1>8
<1>10. QED
  BY <1>0, <1>6, <1>9 DEF R, R1, E

\* Nothing that counts changes but what a run has saved, and a step that opens its turn.
LEMMA MoneyStays ==
  ASSUME Numbers, NEW r \in Run, MoneyOk(r), UNCHANGED caps,
         book'.booked[r] = book.booked[r], extra'[r] = extra[r], known'[r] = known[r],
         Loose(r)' = Loose(r),
         \A u \in Task : act'[r][u] = "launch" =>
           /\ act[r][u] = "launch" /\ Ahead(r, u)' = Ahead(r, u)
           /\ asked'[r][u] = asked[r][u] /\ amount'[r][u] = amount[r][u]
  PROVE  /\ Reserve(r)' - extra'[r] <= Reserve(r) - extra[r]
         /\ Reserve(r)' <= Share + extra'[r]
         /\ \A u \in Task : act'[r][u] = "launch" => LaunchOk(r, u)'
<1>1. Reserve(r)' = Reserve(r)
  BY DEF Reserve, Owed
<1>2. \A u \in Task : act'[r][u] = "launch" => LaunchOk(r, u)'
  BY ShareStays DEF LaunchOk, MoneyOk
<1>3. Reserve(r) \in Int /\ extra[r] \in Int
  BY DEF Numbers
<1>4. QED
  BY <1>1, <1>2, <1>3 DEF MoneyOk

\* The runner moves while its steps rest: it may forget what it did not save.
LEMMA RunnerMoves ==
  ASSUME Numbers, Numbers', NEW r \in Run, Still(r)', MoneyOk(r), Loose(r) = {},
         book'.booked[r] = book.booked[r], extra'[r] = extra[r], known'[r] <= known[r]
  PROVE  /\ Reserve(r)' - extra'[r] <= Reserve(r) - extra[r]
         /\ Reserve(r)' <= Share + extra'[r]
         /\ \A u \in Task : act'[r][u] = "launch" => LaunchOk(r, u)'
<1> DEFINE K1 == known'[r]
           R1 == Reserve(r)'
           B  == book.booked[r]
<1>1. /\ K1 \in Int /\ B \in Int /\ known[r] \in Int /\ Reserve(r) \in Nat /\ extra[r] \in Nat
      /\ R1 \in Nat /\ Share \in Nat /\ Price({}) = 0 /\ K1 <= known[r]
  BY PriceFacts DEF Numbers
<1>2. Loose(r)' = {} /\ \A u \in Task : act'[r][u] # "launch"
  BY DEF Still, Loose
<1>3. R1 = Pos(K1 - B) + Price({}) /\ Reserve(r) = Pos(known[r] - B) + Price({})
  BY <1>2 DEF Reserve, Owed
<1>4. Reserve(r) <= Share + extra[r]
  BY DEF MoneyOk
<1> HIDE DEF K1, R1, B
<1>5. R1 <= Reserve(r)
  BY <1>1, <1>3 DEF Pos
<1>6. R1 <= Share + extra[r] /\ R1 - extra[r] <= Reserve(r) - extra[r]
  BY <1>1, <1>4, <1>5
<1>7. QED
  BY <1>2, <1>6 DEF R1

------------------------------------------------------------------------------
(* Each step but those of the ledger *)

TaskActs == {"none", "launch", "cleared", "fly", "judge", "backoff", "persist", "account"}

\* A step of a graph is under way only while its run works.
LEMMA Working ==
  ASSUME NEW r \in Run, PlaceOk(r), NEW t \in Task, act[r][t] # "none"
  PROVE  AtWork(r) /\ stage[r] = "inside"
BY DEF PlaceOk, Still, AtWork

\* What a turn of a step leaves as it was.
LEMMA TaskTurn ==
  ASSUME LedgerInv, LedgerInv', NEW r \in Run, NEW t \in Task, NEW a \in Acts, Turn(r, t, a)
  PROVE  /\ OnlyTask(r, t) /\ act'[r][t] = a
         /\ moment'[r][t] = (IF a \in Asking THEN today ELSE 1)
         /\ asked'[r][t] = (IF a \in Asking THEN known'[r] ELSE 0)
         /\ \A s \in Run \ {r} : /\ act'[s] = act[s] /\ moment'[s] = moment[s]
                               /\ amount'[s] = amount[s] /\ asked'[s] = asked[s]
<1>1. BookType /\ known' \in [Run -> Int] /\ prior' \in [Run -> [Job -> Nat]] /\ t \in Job
  BY JobFacts DEF LedgerInv, BookType
<1>2. /\ act'[r][t] = a /\ moment'[r][t] = (IF a \in Asking THEN today ELSE 1)
      /\ asked'[r][t] = IF a \in Asking THEN known'[r] ELSE 0
  BY <1>1, TurnFacts
<1>3. \A s \in Run \ {r} : /\ act'[s] = act[s] /\ moment'[s] = moment[s]
                           /\ amount'[s] = amount[s] /\ asked'[s] = asked[s]
  BY <1>1, TurnFacts
<1>4. \A s \in Run, k \in Job : s # r \/ k # t =>
        /\ act'[s][k] = act[s][k] /\ moment'[s][k] = moment[s][k]
        /\ amount'[s][k] = amount[s][k] /\ asked'[s][k] = asked[s][k]
  BY <1>1, TurnFacts
<1>5. OnlyTask(r, t)
  BY <1>4 DEF OnlyTask
<1>6. QED
  BY <1>2, <1>3, <1>5

\* ... and of its place and of what its run asks for.
LEMMA TaskPlace ==
  ASSUME Numbers, Numbers', NEW r \in Run, NEW t \in Task, RunOk(r), AtWork(r), stage[r] = "inside",
         OnlyTask(r, t), act'[r][t] \in TaskActs,
         moment'[r][t] = IF act'[r][t] \in Asking THEN today ELSE 1,
         asked'[r][t] = IF act'[r][t] \in Asking THEN known'[r] ELSE 0,
         status'[r] = status[r], stage'[r] = stage[r], waived'[r] = waived[r],
         UNCHANGED <<caps, today>>, known[r] <= known'[r],
         act'[r][t] \in Holding => \/ act[r][t] \in Holding
                                   \/ Cardinality(Holders(r)) < Parallel
  PROVE  PlaceOk(r)' /\ AskedOk(r)'
<1> USE DEF RunOk
<1>1. act'[r][0] = "none" /\ status'[r] = "live" /\ stage'[r] = "inside"
  BY JobFacts DEF OnlyTask, AtWork
<1>2. \A u \in Task : act'[r][u] \in TaskActs
  BY JobFacts DEF OnlyTask, PlaceOk, TaskActs
<1>3. Cardinality(Holders(r)')  <= Parallel
  <2>1. /\ IsFiniteSet(Holders(r)) /\ Cardinality(Holders(r)) <= Parallel
        /\ Cardinality(Holders(r)) \in Nat /\ Parallel \in Nat
    BY AheadHolds, PriceFacts, ShareType DEF PlaceOk, Holders, Numbers
  <2>2. CASE act'[r][t] \notin Holding
    <3>1. Holders(r)' = Holders(r) \ {t}
      BY <2>2, RowSets
    <3>2. Cardinality(Holders(r) \ {t}) \in {Cardinality(Holders(r)), Cardinality(Holders(r)) - 1}
      BY <2>1, FS_RemoveElement
    <3>3. QED
      BY <2>1, <3>1, <3>2
  <2>3. CASE act'[r][t] \in Holding
    <3>1. Holders(r)' = Holders(r) \union {t}
      BY <2>3, RowSets
    <3>2. CASE t \in Holders(r)
      <4>1. Holders(r)' = Holders(r)
        BY <3>1, <3>2
      <4>2. QED
        BY <2>1, <4>1
    <3>3. CASE t \notin Holders(r)
      <4>1. Cardinality(Holders(r)) < Parallel
        BY <2>3, <3>3 DEF Holders
      <4>2. Cardinality(Holders(r) \union {t}) = Cardinality(Holders(r)) + 1
        BY <2>1, <3>3, FS_AddElement
      <4>3. QED
        BY <2>1, <3>1, <4>1, <4>2
    <3>4. QED
      BY <3>2, <3>3
  <2>4. QED
    BY <2>2, <2>3
<1>4. PlaceOk(r)'
  BY <1>1, <1>2, <1>3, ShareStays DEF PlaceOk, TaskActs
<1>5. AskedOk(r)'
  <2>1. ASSUME NEW j \in Job, act'[r][j] \in Asking
        PROVE  moment'[r][j] <= today' /\ asked'[r][j] <= known'[r]
    <3>1. CASE j = t
      BY <2>1, <3>1, BoundsType DEF Numbers
    <3>2. CASE j # t
      <4>1. act[r][j] \in Asking /\ moment'[r][j] = moment[r][j] /\ asked'[r][j] = asked[r][j]
        BY <2>1, <3>2 DEF OnlyTask
      <4>2. asked[r][j] <= known[r] /\ moment[r][j] <= today
        BY <4>1 DEF AskedOk
      <4>3. known[r] \in Int /\ known'[r] \in Int /\ asked[r][j] \in Int
        BY DEF Numbers
      <4>4. QED
        BY <4>1, <4>2, <4>3
    <3>3. QED
      BY <3>1, <3>2
  <2>2. QED
    BY <1>1, <2>1 DEF AskedOk
<1>6. QED
  BY <1>4, <1>5

\* An attempt ends, is given up or not made, its record is saved.
LEMMA RetireKeeps ==
  ASSUME Types, Types', Governing, Inv, NEW r \in Run, NEW t \in Task,
         UNCHANGED <<slotVars, deaths>>,
         Open(r, t) \/ LeafEnds(r, t) \/ GiveUp(r, t) \/ Persist(r, t), act'[r][t] # "fly"
  PROVE  Inv'
<1>1. Numbers /\ Numbers' /\ LedgerInv /\ LedgerInv'
  BY MoneyTypes, NextMoneyTypes DEF Types
<1>2. RunOk(r)
  BY DEF Inv
<1>3. act[r][t] # "none"
  BY DEF Open, LeafEnds, GiveUp, Persist
<1>4. AtWork(r) /\ stage[r] = "inside"
  BY <1>2, <1>3, Working DEF RunOk
<1>5. /\ UNCHANGED <<caps, today, demand, book, stage, status, waived, extra>>
      /\ \A s \in Run \ {r} : known'[s] = known[s] /\ saved'[s] = saved[s] /\ why'[s] = why[s]
      /\ saved'[r] = saved[r] \/ saved'[r] = Total(r)
      /\ \/ known'[r] = known[r]
         \/ act[r][t] = "fly" /\ \E cost \in 1..MaxCost : known'[r] = known[r] + cost
  <2>1. CASE Open(r, t) \/ GiveUp(r, t)
    BY <2>1 DEF Open, GiveUp, histories, slotVars
  <2>2. CASE Persist(r, t)
    BY <2>2 DEF Persist, histories, slotVars, Types, LedgerInv, BookType
  <2>3. CASE LeafEnds(r, t)
    <3>1. PICK cost \in 1..MaxCost : known' = [known EXCEPT ![r] = @ + cost]
      BY <2>3 DEF LeafEnds
    <3>2. known \in [Run -> Int] /\ MaxCost \in Nat
      BY <1>1, BoundsType DEF LedgerInv, BookType
    <3>3. known'[r] = known[r] + cost /\ \A s \in Run \ {r} : known'[s] = known[s]
      BY <3>1, <3>2
    <3>4. QED
      BY <2>3, <3>3 DEF LeafEnds, slotVars
  <2>4. QED
    BY <2>1, <2>2, <2>3
<1>6. known[r] <= known'[r] /\ known[r] \in Int /\ known'[r] \in Int
  BY <1>1, <1>5, BoundsType DEF Numbers
<1>7. PICK a \in Acts : Turn(r, t, a)
  BY <1>1, QuietMoves, LeafFacts
<1>8. /\ OnlyTask(r, t) /\ act'[r][t] = a
      /\ moment'[r][t] = (IF a \in Asking THEN today ELSE 1)
      /\ asked'[r][t] = (IF a \in Asking THEN known'[r] ELSE 0)
      /\ \A s \in Run \ {r} : /\ act'[s] = act[s] /\ moment'[s] = moment[s]
                            /\ amount'[s] = amount[s] /\ asked'[s] = asked[s]
  BY <1>1, <1>7, TaskTurn
<1>9. a \in TaskActs /\ a \notin Holding
  <2>1. a \in {"none", "judge", "persist", "account"}
    <3>1. CASE Open(r, t)
      <4>1. Turn(r, t, IF why[r] = "none" THEN "fly" ELSE "persist")
        BY <3>1 DEF Open
      <4>2. {"fly", "persist"} \subseteq Acts
        BY DEF Acts
      <4>3. act'[r][t] \in {"fly", "persist"}
        BY <1>1, <4>1, <4>2, TaskTurn
      <4>4. QED
        BY <1>8, <4>3
    <3>2. CASE LeafEnds(r, t)
      <4>1. PICK failed \in BOOLEAN :
              Turn(r, t, IF failed /\ why[r] = "none" THEN "judge" ELSE "persist")
        BY <3>2 DEF LeafEnds
      <4>2. {"judge", "persist"} \subseteq Acts
        BY DEF Acts, Asking, Checks
      <4>3. QED
        BY <1>1, <1>8, <4>1, <4>2, TaskTurn
    <3>3. CASE GiveUp(r, t)
      <4>1. Turn(r, t, "persist") /\ "persist" \in Acts
        BY <3>3 DEF GiveUp, Acts
      <4>2. QED
        BY <1>1, <1>8, <4>1, TaskTurn
    <3>4. CASE Persist(r, t)
      <4>1. Turn(r, t, IF why[r] = "none" THEN "account" ELSE "none")
        BY <3>4 DEF Persist
      <4>2. {"account", "none"} \subseteq Acts
        BY DEF Acts, Asking, Checks
      <4>3. QED
        BY <1>1, <1>8, <4>1, <4>2, TaskTurn
    <3>5. QED
      BY <3>1, <3>2, <3>3, <3>4
  <2>2. QED
    BY <2>1 DEF TaskActs, Holding
<1>10. PlaceOk(r)' /\ AskedOk(r)'
  BY <1>1, <1>2, <1>4, <1>5, <1>6, <1>8, <1>9, TaskPlace
<1>11. /\ Reserve(r)' - extra'[r] <= Reserve(r) - extra[r]
       /\ Reserve(r)' <= Share + extra'[r]
       /\ \A u \in Task : act'[r][u] = "launch" => LaunchOk(r, u)'
  BY <1>1, <1>2, <1>5, <1>8, <1>9, Retires DEF RunOk
<1>12. saved'[r] <= known'[r]
  <2>1. Total(r) \in Int /\ Total(r) <= known[r]
    BY <1>1, TotalType DEF LedgerInv
  <2>2. saved[r] <= known[r] /\ saved[r] \in Int
    BY <1>1, <1>2 DEF RunOk, MoneyOk, Numbers
  <2>3. QED
    BY <1>5, <1>6, <2>1, <2>2
<1>13. status[r] = "live"
  BY <1>4 DEF AtWork
<1>14. RunOk(r)'
  BY <1>5, <1>10, <1>11, <1>12, <1>13, ShareStays DEF RunOk, MoneyOk, Ended
<1>15. Others(r)
  BY <1>5, <1>8 DEF Others, Same
<1>16. caps.day = 0 => FALSE
  BY <1>3 DEF Inv, ZeroHolds, ZeroOk, Still
<1>17. DeathsCounted' /\ deaths <= deaths'
  BY <1>1, <1>5, DeadShrink DEF Inv, Numbers
<1>18. QED
  BY <1>5, <1>11, <1>14, <1>15, <1>16, <1>17, QuietKeeps

\* A turn is opened.
LEMMA OpenKeeps ==
  ASSUME Types, Types', Governing, Inv, NEW r \in Run, NEW t \in Task,
         UNCHANGED <<slotVars, deaths>>, Open(r, t)
  PROVE  Inv'
<1>0. CASE act'[r][t] # "fly"
  BY <1>0, RetireKeeps
<1>a. CASE act'[r][t] = "fly"
  <2>1. Numbers /\ Numbers' /\ LedgerInv /\ LedgerInv' /\ RunOk(r)
    BY MoneyTypes, NextMoneyTypes DEF Types, Inv
  <2>2. act[r][t] = "cleared" /\ AtWork(r) /\ stage[r] = "inside"
    BY <2>1, Working DEF Open, RunOk
  <2>3. /\ UNCHANGED <<caps, today, demand, book, stage, status, waived, why, extra, known, saved>>
        /\ \E a \in {"fly", "persist"} : Turn(r, t, a)
    BY DEF Open, histories, slotVars
  <2>4. {"fly", "persist"} \subseteq Acts
    BY DEF Acts
  <2>5. /\ OnlyTask(r, t)
        /\ moment'[r][t] = (IF act'[r][t] \in Asking THEN today ELSE 1)
        /\ asked'[r][t] = (IF act'[r][t] \in Asking THEN known'[r] ELSE 0)
        /\ \A s \in Run \ {r} : /\ act'[s] = act[s] /\ moment'[s] = moment[s]
                              /\ amount'[s] = amount[s] /\ asked'[s] = asked[s]
    BY <2>1, <2>3, <2>4, TaskTurn
  <2>6. PlaceOk(r)' /\ AskedOk(r)'
    <3>1. act'[r][t] \in TaskActs /\ act[r][t] \in Holding /\ known[r] \in Int
      BY <1>a, <2>1, <2>2 DEF TaskActs, Holding, Numbers
    <3>2. QED
      BY <2>1, <2>2, <2>3, <2>5, <3>1, TaskPlace
  <2>7. \A u \in Task \ {t} : act'[r][u] = act[r][u] /\ asked'[r][u] = asked[r][u]
                              /\ amount'[r][u] = amount[r][u]
    BY <2>5, JobFacts DEF OnlyTask
  <2>8. Loose(r)' = Loose(r)
    BY <1>a, <2>2, <2>7 DEF Loose
  <2>9. \A u \in Task : act'[r][u] = "launch" =>
           /\ act[r][u] = "launch" /\ Ahead(r, u)' = Ahead(r, u)
           /\ asked'[r][u] = asked[r][u] /\ amount'[r][u] = amount[r][u]
    BY <1>a, <2>2, <2>7, <2>8 DEF Ahead
  <2>10. /\ Reserve(r)' - extra'[r] <= Reserve(r) - extra[r]
         /\ Reserve(r)' <= Share + extra'[r]
         /\ \A u \in Task : act'[r][u] = "launch" => LaunchOk(r, u)'
    BY <2>1, <2>3, <2>8, <2>9, MoneyStays DEF RunOk
  <2>11. RunOk(r)'
    BY <2>1, <2>2, <2>3, <2>6, <2>10, ShareStays DEF RunOk, MoneyOk, AtWork, Ended
  <2>12. Others(r)
    BY <2>3, <2>5 DEF Others, Same
  <2>13. caps.day = 0 => FALSE
    BY <2>2 DEF Inv, ZeroHolds, ZeroOk, Still
  <2>14. DeathsCounted' /\ deaths <= deaths'
    BY <2>1, <2>3, DeadShrink DEF Inv, Numbers
  <2>15. QED
    BY <2>3, <2>10, <2>11, <2>12, <2>13, <2>14, QuietKeeps
<1>1. QED
  BY <1>0, <1>a

\* A check is asked for: whoever sees all that was spent, or more, has a share left.
LEMMA AskKeeps ==
  ASSUME Numbers, Numbers', NEW r \in Run, NEW t \in Task, OnlyTask(r, t), RunOk(r), PlaceOk(r)',
         UNCHANGED caps,
         act[r][t] \in {"none", "backoff"}, act'[r][t] = "launch", asked'[r][t] = known[r],
         book'.booked[r] = book.booked[r], extra'[r] = extra[r], known'[r] = known[r]
  PROVE  /\ Reserve(r)' = Reserve(r)
         /\ \A u \in Task : act'[r][u] = "launch" => LaunchOk(r, u)'
<1>1. Loose(r)' = Loose(r)
  <2>1. Loose(r)' = Loose(r) \ {t}
    BY RowSets
  <2>2. t \notin Loose(r)
    BY DEF Loose
  <2>3. QED
    BY <2>1, <2>2
<1>2. Reserve(r)' = Reserve(r)
  BY <1>1 DEF Reserve, Owed
<1>3. ASSUME NEW u \in Task, act'[r][u] = "launch" PROVE LaunchOk(r, u)'
  <2> DEFINE A1 == Ahead(r, u)'
             k1 == asked'[r][u]
             p1 == Pos(book'.booked[r] - amount'[r][u])
             B  == book.booked[r]
  <2>1. /\ A1 \in SUBSET Task /\ Price(A1) \in Nat /\ k1 \in Int /\ known[r] \in Int
        /\ extra[r] \in Nat /\ Share \in Nat /\ B \in Int /\ u \in Job
    BY PriceFacts, JobFacts DEF Numbers
  <2>2. p1 \in Nat
    <3>1. book'.booked[r] - amount'[r][u] \in Int
      BY <2>1 DEF Numbers
    <3>2. QED
      BY <3>1, PosFacts
  <2>3. LaunchOk(r, u)' <=> known[r] + Price(A1) <= Share + extra[r] + k1 + p1
    BY ShareStays DEF LaunchOk
  <2>4. CASE k1 >= known[r]
    <3>1. A1 \subseteq Holders(r)' /\ Holders(r)' \in SUBSET Task
      BY DEF Ahead, Loose, Holders, Holding
    <3>2. Cardinality(Holders(r)') <= Parallel
      BY ShareStays DEF PlaceOk
    <3>3. Price(A1) <= Price(Holders(r)') /\ Price(Holders(r)') <= Share
          /\ Price(Holders(r)') \in Nat
      BY <2>1, <3>1, <3>2, PriceFacts DEF Numbers
    <3> DEFINE h == Price(Holders(r)')
    <3>4. h \in Nat /\ Price(A1) <= h /\ h <= Share
      BY <3>3
    <3> HIDE DEF h, A1, k1, p1
    <3>5. QED
      BY <2>1, <2>2, <2>3, <2>4, <3>4
  <2>5. CASE ~(k1 >= known[r])
    <3>1. u # t
      BY <2>1, <2>5
    <3>2. act[r][u] = "launch" /\ k1 = asked[r][u] /\ amount'[r][u] = amount[r][u]
      BY <1>3, <2>1, <3>1 DEF OnlyTask
    <3>3. t \notin A1
      BY <1>1, <2>1, <2>5 DEF Ahead, Loose
    <3>4. A1 \subseteq Ahead(r, u)
      BY <3>1, <3>3, RowSets
    <3>5. Price(A1) <= Price(Ahead(r, u)) /\ Price(Ahead(r, u)) \in Nat
      BY <2>1, <3>4, PriceFacts DEF Numbers
    <3>6. known[r] + Price(Ahead(r, u)) <= Share + extra[r] + k1 + p1
      BY <3>2 DEF RunOk, MoneyOk, LaunchOk
    <3> HIDE DEF A1, k1, p1
    <3>7. QED
      BY <2>1, <2>2, <2>3, <3>5, <3>6
  <2>6. QED
    BY <2>4, <2>5
<1>4. QED
  BY <1>2, <1>3

\* A step starts that is never asked about: what it may cost was not seen.
LEMMA BlindKeeps ==
  ASSUME Numbers, Numbers', NEW r \in Run, NEW t \in Task, OnlyTask(r, t), RunOk(r),
         UNCHANGED caps, act[r][t] \in {"none", "backoff"}, act'[r][t] = "cleared",
         book'.booked[r] = book.booked[r], extra'[r] = extra[r] + MaxCost, known'[r] = known[r]
  PROVE  /\ Reserve(r)' = Reserve(r) + MaxCost
         /\ \A u \in Task : act'[r][u] = "launch" => LaunchOk(r, u)'
<1>0. MaxCost \in Nat /\ Share \in Nat /\ extra[r] \in Nat /\ known[r] \in Int /\ Owed(r) \in Nat
  BY PriceFacts DEF Numbers
<1>1. Price(Loose(r)') = Price(Loose(r)) + MaxCost /\ Price(Loose(r)) \in Nat
  <2>1. Loose(r)' = Loose(r) \union {t}
    BY RowSets
  <2>2. t \notin Loose(r) /\ Loose(r) \in SUBSET Task
    BY DEF Loose
  <2>3. QED
    BY <2>1, <2>2, PriceFacts
<1>2. Reserve(r)' = Reserve(r) + MaxCost
  <2>1. Reserve(r)' = Owed(r) + Price(Loose(r)')
    BY DEF Reserve, Owed
  <2>2. QED
    BY <1>0, <1>1, <2>1 DEF Reserve
<1>3. ASSUME NEW u \in Task, act'[r][u] = "launch" PROVE LaunchOk(r, u)'
  <2> DEFINE A  == Ahead(r, u)
             A1 == Ahead(r, u)'
             p  == Pos(book.booked[r] - amount[r][u])
             k  == asked[r][u]
             E1 == extra'[r]
  <2>1. u # t /\ u \in Job /\ act[r][u] = "launch" /\ asked'[r][u] = k
        /\ amount'[r][u] = amount[r][u]
    BY <1>3, JobFacts DEF OnlyTask
  <2>2. A \in SUBSET Task /\ A1 \subseteq A \union {t} /\ t \notin A
    BY <2>1, RowSets DEF Ahead, Loose
  <2>3. Price(A1) <= Price(A \union {t}) /\ Price(A \union {t}) = Price(A) + MaxCost
        /\ Price(A) \in Nat /\ Price(A1) \in Nat
    BY <2>2, PriceFacts
  <2>4. k \in Int /\ p \in Nat
    <3>1. book.booked[r] - amount[r][u] \in Int /\ k \in Int
      BY <2>1 DEF Numbers
    <3>2. QED
      BY <3>1, PosFacts
  <2>5. known[r] + Price(A) <= Share + extra[r] + k + p
    BY <2>1 DEF RunOk, MoneyOk, LaunchOk
  <2>6. LaunchOk(r, u)' <=> known[r] + Price(A1) <= Share + E1 + k + p
    BY <2>1, ShareStays DEF LaunchOk
  <2>7. E1 = extra[r] + MaxCost /\ Price(A1) <= Price(A) + MaxCost
    BY <2>3
  <2> HIDE DEF A, A1, p, k, E1
  <2>8. QED
    BY <1>0, <2>3, <2>4, <2>5, <2>6, <2>7
<1>4. QED
  BY <1>2, <1>3

LEMMA LaunchKeeps ==
  ASSUME Types, Types', Governing, Inv, NEW r \in Run, NEW t \in Task,
         UNCHANGED <<slotVars, deaths>>, Launch(r, t), stage[r] = "inside"
  PROVE  Inv'
<1>1. Numbers /\ Numbers' /\ LedgerInv /\ LedgerInv' /\ RunOk(r)
  BY MoneyTypes, NextMoneyTypes DEF Types, Inv
<1>2. /\ AtWork(r) /\ act[r][t] \in {"none", "backoff"} /\ why[r] = "none"
      /\ Cardinality(Holders(r)) < Parallel
      /\ UNCHANGED <<caps, today, demand, book, stage, status, waived, why, known, saved>>
      /\ \/ Turn(r, t, "launch") /\ UNCHANGED extra
         \/ Turn(r, t, "cleared") /\ extra' = [extra EXCEPT ![r] = @ + MaxCost]
  BY DEF Launch, slotVars, Blind
<1>3. {"launch", "cleared"} \subseteq Acts /\ "launch" \in Asking /\ "cleared" \notin Asking
  BY DEF Acts, Asking, Checks
<1>4. /\ OnlyTask(r, t)
      /\ moment'[r][t] = (IF act'[r][t] \in Asking THEN today ELSE 1)
      /\ asked'[r][t] = (IF act'[r][t] \in Asking THEN known'[r] ELSE 0)
      /\ \A s \in Run \ {r} : /\ act'[s] = act[s] /\ moment'[s] = moment[s]
                            /\ amount'[s] = amount[s] /\ asked'[s] = asked[s]
  BY <1>1, <1>2, <1>3, TaskTurn
<1>5. \/ act'[r][t] = "launch" /\ extra' = extra
      \/ act'[r][t] = "cleared" /\ extra' = [extra EXCEPT ![r] = @ + MaxCost]
  BY <1>1, <1>2, <1>3, TaskTurn
<1>6. PlaceOk(r)' /\ AskedOk(r)'
  <2>1. act'[r][t] \in TaskActs /\ known[r] \in Int
    BY <1>1, <1>5 DEF TaskActs, Numbers
  <2>2. QED
    BY <1>1, <1>2, <1>4, <2>1, TaskPlace
<1>7. extra \in [Run -> Nat] /\ MaxCost \in Nat /\ Share \in Nat
  BY <1>1, PriceFacts DEF Types, MoneyType, Numbers
<1>8. /\ Reserve(r)' - extra'[r] <= Reserve(r) - extra[r]
      /\ Reserve(r)' <= Share + extra'[r]
      /\ \A u \in Task : act'[r][u] = "launch" => LaunchOk(r, u)'
  <2>1. Reserve(r) <= Share + extra[r] /\ Reserve(r) \in Int /\ extra[r] \in Int
    BY <1>1 DEF RunOk, MoneyOk, Numbers
  <2>2. CASE act'[r][t] = "launch" /\ extra' = extra
    <3>1. asked'[r][t] = known[r]
      BY <1>2, <1>3, <1>4, <2>2
    <3>2. /\ Reserve(r)' = Reserve(r)
          /\ \A u \in Task : act'[r][u] = "launch" => LaunchOk(r, u)'
      BY <1>1, <1>2, <1>4, <1>6, <2>2, <3>1, AskKeeps
    <3>3. QED
      BY <2>1, <2>2, <3>2
  <2>3. CASE act'[r][t] = "cleared" /\ extra' = [extra EXCEPT ![r] = @ + MaxCost]
    <3>1. extra'[r] = extra[r] + MaxCost
      BY <1>7, <2>3
    <3>2. /\ Reserve(r)' = Reserve(r) + MaxCost
          /\ \A u \in Task : act'[r][u] = "launch" => LaunchOk(r, u)'
      BY <1>1, <1>2, <1>4, <2>3, <3>1, BlindKeeps
    <3> DEFINE R1 == Reserve(r)'
               e1 == extra'[r]
    <3>3. R1 = Reserve(r) + MaxCost /\ e1 = extra[r] + MaxCost
      BY <3>1, <3>2
    <3> HIDE DEF R1, e1
    <3>4. R1 - e1 <= Reserve(r) - extra[r] /\ R1 <= Share + e1
      BY <1>7, <2>1, <3>3
    <3>5. QED
      BY <3>2, <3>4 DEF R1, e1
  <2>4. QED
    BY <1>5, <2>2, <2>3
<1>9. RunOk(r)'
  BY <1>1, <1>2, <1>6, <1>8, ShareStays DEF RunOk, MoneyOk, AtWork, Ended
<1>10. Others(r)
  BY <1>2, <1>4, <1>5, <1>7 DEF Others, Same
<1>11. caps.day = 0 => FALSE
  BY <1>2 DEF Inv, ZeroHolds, ZeroOk, AtWork
<1>12. DeathsCounted' /\ deaths <= deaths'
  BY <1>1, <1>2, DeadShrink DEF Inv, Numbers
<1>13. QED
  BY <1>2, <1>8, <1>9, <1>10, <1>11, <1>12, QuietKeeps

\* While no step is under way the records hide nothing.
LEMMA StillHides ==
  ASSUME NEW a, NEW p \in [Run -> [Job -> Nat]], NEW r \in Run, \A t \in Task : a[r][t] = "none"
  PROVE  SumFunction([t \in Task |-> IF a[r][t] = "fly" THEN p[r][t] ELSE 0]) = 0
<1> DEFINE f == [t \in Task |-> IF a[r][t] = "fly" THEN p[r][t] ELSE 0]
<1>1. f \in [Task -> Nat] /\ \A t \in Task : f[t] = 0
  OBVIOUS
<1> HIDE DEF f
<1>2. SumFunction(f) \in Nat
  BY <1>1, JobFacts, SumIsNat
<1>3. SumFunction(f) <= Cardinality({}) * 0
  <2>1. {} \in SUBSET Task /\ 0 \in Nat /\ \A t \in Task : f[t] <= 0
    BY <1>1
  <2>2. QED
    BY <1>1, <2>1, JobFacts, SumBound
<1>4. Cardinality({}) * 0 = 0
  BY FS_EmptySet
<1>5. SumFunction(f) = 0
  BY <1>2, <1>3, <1>4
<1>6. QED
  BY <1>5 DEF f

LEMMA StillTotals ==
  /\ LedgerInv => \A r \in Run : Still(r) => Total(r) = known[r]
  /\ LedgerInv' => \A r \in Run : Still(r)' => Hidden(r)' = 0
<1>1. ASSUME LedgerInv, NEW r \in Run, Still(r) PROVE Total(r) = known[r]
  <2>1. Hidden(r) = 0
    BY <1>1, StillHides DEF LedgerInv, BookType, Still, Hidden
  <2>2. known[r] \in Int
    BY <1>1 DEF LedgerInv, BookType
  <2>3. QED
    BY <2>1, <2>2 DEF Total
<1>2. ASSUME LedgerInv', NEW r \in Run, Still(r)' PROVE Hidden(r)' = 0
  <2>1. prior' \in [Run -> [Job -> Nat]] /\ \A t \in Task : act'[r][t] = "none"
    BY <1>2 DEF LedgerInv, BookType, Still
  <2>2. SumFunction([t \in Task |-> IF act'[r][t] = "fly" THEN prior'[r][t] ELSE 0]) = 0
    BY <2>1, StillHides
  <2>3. QED
    BY <2>2 DEF Hidden
<1>3. QED
  BY <1>1, <1>2

LEMMA RunnerTurn ==
  ASSUME LedgerInv, LedgerInv', NEW r \in Run, NEW a \in Acts, Turn(r, 0, a), Still(r)
  PROVE  /\ act'[r][0] = a /\ Still(r)' /\ Loose(r)' = {} /\ Loose(r) = {} /\ Holders(r)' = {}
         /\ \A t \in Task : act'[r][t] \notin Asking
         /\ moment'[r][0] = (IF a \in Asking THEN today ELSE 1)
         /\ asked'[r][0] = (IF a \in Asking THEN known'[r] ELSE 0)
         /\ amount'[r][0] = (IF a \in Asking THEN known'[r] ELSE 0)
         /\ \A s \in Run \ {r} : /\ act'[s] = act[s] /\ moment'[s] = moment[s]
                               /\ amount'[s] = amount[s] /\ asked'[s] = asked[s]
<1>1. BookType /\ known' \in [Run -> Int] /\ prior' \in [Run -> [Job -> Nat]] /\ 0 \in Job
  BY JobFacts DEF LedgerInv, BookType
<1>2. /\ act'[r][0] = a /\ moment'[r][0] = (IF a \in Asking THEN today ELSE 1)
      /\ asked'[r][0] = IF a \in Asking THEN known'[r] ELSE 0
  BY <1>1, TurnFacts
<1>3. \A s \in Run \ {r} : /\ act'[s] = act[s] /\ moment'[s] = moment[s]
                           /\ amount'[s] = amount[s] /\ asked'[s] = asked[s]
  BY <1>1, TurnFacts
<1>4. \A s \in Run, k \in Job : s # r \/ k # 0 => act'[s][k] = act[s][k]
  BY <1>1, TurnFacts
<1>5. \A t \in Task : act'[r][t] = "none"
  BY <1>4, JobFacts DEF Still
<1>6. /\ Still(r)' /\ Loose(r)' = {} /\ Loose(r) = {} /\ Holders(r)' = {}
      /\ \A t \in Task : act'[r][t] \notin Asking
  BY <1>5 DEF Still, Loose, Holders, Holding, Asking, Checks
<1>7. amount'[r][0] = IF a \in Asking THEN known'[r] ELSE 0
  <2>1. Hidden(r)' = 0
    BY <1>6, StillTotals
  <2>2. amount'[r][0] = IF a \in Asking THEN known'[r] - Hidden(r)' ELSE 0
    BY <1>1, TurnFacts
  <2>3. known'[r] \in Int
    BY <1>1
  <2>4. QED
    BY <2>1, <2>2, <2>3
<1>8. QED
  BY <1>2, <1>3, <1>6, <1>7

\* The runner begins, ends the run or makes its last save.
LEMMA RunnerKeeps ==
  ASSUME Types, Types', Governing, Inv, NEW r \in Run, NEW a \in Acts, Turn(r, 0, a), Still(r),
         UNCHANGED <<caps, today, demand, book, extra, deaths>>,
         \A s \in Run \ {r} : /\ known'[s] = known[s] /\ saved'[s] = saved[s] /\ why'[s] = why[s]
                            /\ status'[s] = status[s] /\ waived'[s] = waived[s]
                            /\ stage'[s] = stage[s],
         stage'[r] = "inside" \/ a = "none", "money" \notin waived'[r],
         saved'[r] <= known'[r], known'[r] <= known[r], saved'[r] \in {saved[r], known[r]},
         \/ a \in {"waive", "first"} /\ status'[r] = "live"
         \/ a \in {"settle", "final"} /\ status'[r] \in Ended
         \/ a = "none" /\ status'[r] \in Ended /\ known'[r] <= book.booked[r]
  PROVE  Inv'
<1>1. Numbers /\ Numbers' /\ LedgerInv /\ LedgerInv' /\ RunOk(r)
  BY MoneyTypes, NextMoneyTypes DEF Types, Inv
<1>2. /\ act'[r][0] = a /\ Still(r)' /\ Loose(r)' = {} /\ Loose(r) = {} /\ Holders(r)' = {}
      /\ \A t \in Task : act'[r][t] \notin Asking
      /\ moment'[r][0] = (IF a \in Asking THEN today ELSE 1)
      /\ asked'[r][0] = (IF a \in Asking THEN known'[r] ELSE 0)
      /\ amount'[r][0] = (IF a \in Asking THEN known'[r] ELSE 0)
      /\ \A s \in Run \ {r} : /\ act'[s] = act[s] /\ moment'[s] = moment[s]
                            /\ amount'[s] = amount[s] /\ asked'[s] = asked[s]
  BY <1>1, RunnerTurn
<1>3. status'[r] \notin {"fresh", "dead"} /\ a \in {"none", "waive", "first", "settle", "final"}
  BY DEF Ended
<1>4. PlaceOk(r)'
  <2>1. Cardinality(Holders(r)') <= Parallel
    BY <1>1, <1>2, FS_EmptySet, ShareType DEF Numbers
  <2>2. \A t \in Task : act'[r][t] = "none"
    BY <1>2 DEF Still
  <2>3. QED
    BY <1>2, <1>3, <2>1, <2>2, ShareStays DEF PlaceOk, Ended
<1>5. AskedOk(r)'
  <2>1. today \in Int /\ known'[r] \in Int /\ Job = Task \union {0}
    BY <1>1, BoundsType DEF Numbers, Task, Job
  <2>2. {"settle", "final"} \subseteq Asking
    BY DEF Asking, Checks
  <2>3. ASSUME NEW j \in Job, act'[r][j] \in Asking
        PROVE  moment'[r][j] <= today' /\ asked'[r][j] <= known'[r]
    BY <1>2, <2>1, <2>3
  <2>4. QED
    BY <1>2, <2>2, <2>3 DEF AskedOk
<1>6. /\ Reserve(r)' - extra'[r] <= Reserve(r) - extra[r]
      /\ Reserve(r)' <= Share + extra'[r]
      /\ \A u \in Task : act'[r][u] = "launch" => LaunchOk(r, u)'
  BY <1>1, <1>2, RunnerMoves DEF RunOk
<1>7. MoneyOk(r)'
  BY <1>2, <1>3, <1>6, ShareStays DEF MoneyOk, Ended
<1>8. Others(r)
  BY <1>2 DEF Others, Same
<1>9. caps.day = 0 => ZeroOk(r)'
  <2>1. SUFFICES ASSUME caps.day = 0 PROVE ZeroOk(r)'
    OBVIOUS
  <2>2. known[r] = 0 /\ saved[r] = 0 /\ book.booked[r] = 0
    BY <2>1 DEF Inv, ZeroHolds, ZeroOk
  <2>3. saved'[r] = 0 /\ known'[r] \in Int /\ known'[r] <= 0 /\ 0 <= known'[r]
    BY <1>1, <2>2 DEF Numbers
  <2>4. known'[r] = 0
    BY <2>3
  <2>5. status'[r] = "live" => act'[r][0] # "none"
    BY <1>2 DEF Ended
  <2>6. QED
    BY <1>2, <2>2, <2>3, <2>4, <2>5 DEF ZeroOk
<1>10. DeathsCounted' /\ deaths <= deaths'
  <2>1. \A s \in Run : status'[s] = "dead" => status[s] = "dead"
    BY <1>3
  <2>2. QED
    BY <1>1, <2>1, DeadShrink DEF Inv, Numbers
<1>11. QED
  BY <1>4, <1>5, <1>6, <1>7, <1>8, <1>9, <1>10, QuietKeeps DEF RunOk

LEMMA BeginKeeps ==
  ASSUME Types, Types', Governing, Governing', Inv, NEW r \in Run, Begin(r), stage[r] = "inside",
         UNCHANGED <<slotVars, deaths>>
  PROVE  Inv'
<1>1. Numbers /\ LedgerInv /\ LedgerInv' /\ RunOk(r) /\ MoneyType
  BY MoneyTypes DEF Types, Inv
<1>2. PICK approved \in BOOLEAN :
        LET retired == IF approved /\ status[r] = "paused" THEN {why[r]} ELSE {} IN
          /\ waived' = [waived EXCEPT ![r] = retired]
          /\ excused' = (excused \/ "money" \in retired)
          /\ Turn(r, 0, IF "streak" \in retired THEN "waive" ELSE "first")
  BY DEF Begin
<1>3. /\ "money" \notin waived'[r] /\ \A s \in Run \ {r} : waived'[s] = waived[s]
      /\ \E a \in {"waive", "first"} : Turn(r, 0, a)
  BY <1>1, <1>2 DEF Governing, MoneyType
<1>4. {"waive", "first"} \subseteq Acts
  BY DEF Acts, Asking, Checks
<1>5. Still(r)
  BY <1>1 DEF Begin, Resumable, RunOk, PlaceOk
<1>6. /\ status'[r] = "live" /\ known'[r] = saved[r] /\ saved'[r] = saved[r]
      /\ UNCHANGED <<caps, today, demand, book, extra, deaths>> /\ stage'[r] = "inside"
      /\ \A s \in Run \ {r} : /\ known'[s] = known[s] /\ saved'[s] = saved[s] /\ why'[s] = why[s]
                            /\ status'[s] = status[s] /\ stage'[s] = stage[s]
  BY <1>1 DEF Begin, slotVars, MoneyType, LedgerInv, BookType
<1>7. saved[r] <= known[r] /\ saved[r] \in Int
  BY <1>1 DEF RunOk, MoneyOk, Numbers
<1>8. QED
  BY <1>3, <1>4, <1>5, <1>6, <1>7, RunnerKeeps

LEMMA EndKeeps ==
  ASSUME Types, Types', Governing, Inv, NEW r \in Run, End(r), UNCHANGED <<slotVars, deaths>>
  PROVE  Inv'
<1>1. Numbers /\ LedgerInv /\ RunOk(r) /\ MoneyType
  BY MoneyTypes DEF Types, Inv
<1>2. \E a \in {"settle", "final"} : Turn(r, 0, a)
  BY DEF End, Governing, Spends
<1>3. {"settle", "final"} \subseteq Acts
  BY DEF Acts, Asking, Checks
<1>4. Still(r) /\ stage[r] = "inside" /\ "money" \notin waived[r]
  BY <1>1 DEF End, Still, AtWork, RunOk, PlaceOk
<1>5. /\ status'[r] \in Ended
      /\ UNCHANGED <<caps, today, demand, book, extra, deaths, known, saved, why, waived, stage>>
      /\ \A s \in Run \ {r} : status'[s] = status[s]
  BY <1>1 DEF End, slotVars, MoneyType, Ended, histories
<1>6. saved[r] <= known[r] /\ saved[r] \in Int /\ known[r] \in Int
  BY <1>1 DEF RunOk, MoneyOk, Numbers
<1>7. QED
  BY <1>2, <1>3, <1>4, <1>5, <1>6, RunnerKeeps

LEMMA FinishKeeps ==
  ASSUME Types, Types', Governing, Inv, NEW r \in Run, Finish(r), UNCHANGED <<demand, deaths>>,
         \A s \in Run \ {r} : stage'[s] = stage[s]
  PROVE  Inv'
<1>1. Numbers /\ LedgerInv /\ RunOk(r) /\ MoneyType
  BY MoneyTypes DEF Types, Inv
<1>2. Turn(r, 0, "none") /\ "none" \in Acts
  BY DEF Finish, Acts
<1>3. /\ Still(r) /\ "money" \notin waived[r] /\ status[r] \in Ended
      /\ known[r] <= book.booked[r]
  BY <1>1 DEF Finish, RunOk, PlaceOk, MoneyOk
<1>4. Total(r) = known[r]
  BY <1>1, <1>3, StillTotals
<1>5. /\ saved'[r] = known[r] /\ known[r] \in Int
      /\ UNCHANGED <<caps, today, book, extra, known, why, waived, status>>
      /\ \A s \in Run \ {r} : saved'[s] = saved[s]
  BY <1>1, <1>4 DEF Finish, LedgerInv, BookType, histories
<1>6. QED
  BY <1>2, <1>3, <1>5, RunnerKeeps

\* The thread takes the lock, maybe on a later day.
LEMMA LockKeeps ==
  ASSUME Types, Types', Governing, Inv, NEW r \in Run, NEW j \in Job, Lock(r, j),
         UNCHANGED <<slotVars, deaths>>
  PROVE  Inv'
<1>1. Numbers /\ Numbers' /\ LedgerInv /\ RunOk(r)
  BY MoneyTypes, NextMoneyTypes DEF Types, Inv
<1>2. /\ UNCHANGED <<caps, today, demand, book, deaths, stage, status, waived, why, known, saved,
                     extra, act, amount, asked>>
  BY DEF Lock, slotVars, runVars, histories
<1>3. PICK d \in moment[r][j]..today : moment' = [moment EXCEPT ![r][j] = d]
  BY DEF Lock
<1>4. /\ \A s \in Run \ {r} : moment'[s] = moment[s]
      /\ moment'[r][j] <= today /\ \A k \in Job \ {j} : moment'[r][k] = moment[r][k]
  <2>1. d \in 1..Days /\ d <= today
    BY <1>1, <1>3, BoundsType DEF Numbers
  <2>2. QED
    BY <1>1, <1>3, <2>1, Replaced DEF LedgerInv, BookType
<1>5. /\ Loose(r)' = Loose(r) /\ Holders(r)' = Holders(r) /\ Still(r)' = Still(r)
      /\ \A u \in Task : Ahead(r, u)' = Ahead(r, u)
  BY <1>2 DEF Loose, Holders, Still, Ahead
<1>6. PlaceOk(r)'
  BY <1>1, <1>2, <1>5, ShareStays DEF RunOk, PlaceOk
<1>7. AskedOk(r)'
  BY <1>1, <1>2, <1>4 DEF RunOk, AskedOk
<1>8. /\ Reserve(r)' - extra'[r] <= Reserve(r) - extra[r]
      /\ Reserve(r)' <= Share + extra'[r]
      /\ \A u \in Task : act'[r][u] = "launch" => LaunchOk(r, u)'
  BY <1>1, <1>2, <1>5, MoneyStays DEF RunOk
<1>9. MoneyOk(r)'
  BY <1>1, <1>2, <1>8, ShareStays DEF RunOk, MoneyOk
<1>10. Others(r)
  BY <1>2, <1>4 DEF Others, Same
<1>11. caps.day = 0 => ZeroOk(r)'
  BY <1>2, <1>5 DEF Inv, ZeroHolds, ZeroOk
<1>12. DeathsCounted' /\ deaths <= deaths'
  BY <1>1, <1>2, DeadShrink DEF Inv, Numbers
<1>13. QED
  BY <1>2, <1>6, <1>7, <1>8, <1>9, <1>10, <1>11, <1>12, QuietKeeps DEF RunOk

LEMMA BeatKeeps ==
  ASSUME Types, Types', Governing, Inv, NEW r \in Run, Beat(r), UNCHANGED <<slotVars, deaths>>
  PROVE  Inv'
<1>1. Numbers /\ Numbers' /\ LedgerInv /\ RunOk(r)
  BY MoneyTypes, NextMoneyTypes DEF Types, Inv
<1>2. /\ UNCHANGED <<caps, today, demand, book, deaths, stage, status, waived, why, known,
                     extra, act, amount, asked, moment>>
      /\ saved'[r] = Total(r) /\ \A s \in Run \ {r} : saved'[s] = saved[s]
  BY <1>1 DEF Beat, slotVars, jobVars, histories, LedgerInv, BookType
<1>3. /\ Loose(r)' = Loose(r) /\ Holders(r)' = Holders(r) /\ Still(r)' = Still(r)
      /\ \A u \in Task : Ahead(r, u)' = Ahead(r, u)
  BY <1>2 DEF Loose, Holders, Still, Ahead
<1>4. PlaceOk(r)' /\ AskedOk(r)'
  BY <1>1, <1>2, <1>3, ShareStays DEF RunOk, PlaceOk, AskedOk
<1>5. /\ Reserve(r)' - extra'[r] <= Reserve(r) - extra[r]
      /\ Reserve(r)' <= Share + extra'[r]
      /\ \A u \in Task : act'[r][u] = "launch" => LaunchOk(r, u)'
  BY <1>1, <1>2, <1>3, MoneyStays DEF RunOk
<1>6. saved'[r] <= known'[r]
  BY <1>1, <1>2, TotalType DEF LedgerInv
<1>7. MoneyOk(r)'
  BY <1>1, <1>2, <1>5, <1>6, ShareStays DEF RunOk, MoneyOk
<1>8. Others(r)
  BY <1>2 DEF Others, Same
<1>9. caps.day = 0 => ZeroOk(r)'
  <2>1. SUFFICES ASSUME caps.day = 0 PROVE ZeroOk(r)'
    OBVIOUS
  <2>2. ZeroOk(r)
    BY <2>1 DEF Inv, ZeroHolds
  <2>3. Total(r) = 0
    BY <1>1, <2>2, StillTotals DEF ZeroOk
  <2>4. QED
    BY <1>2, <1>3, <2>2, <2>3 DEF ZeroOk
<1>10. DeathsCounted' /\ deaths <= deaths'
  BY <1>1, <1>2, DeadShrink DEF Inv, Numbers
<1>11. QED
  BY <1>2, <1>4, <1>5, <1>7, <1>8, <1>9, <1>10, QuietKeeps DEF RunOk

\* A killed run owes no more than it did, and one more death answers for it.
LEMMA CrashKeeps ==
  ASSUME Types, Types', Governing, Inv, NEW r \in Run, LedgerCrash(r), deaths' = deaths + 1,
         UNCHANGED demand, \A s \in Run \ {r} : stage'[s] = stage[s]
  PROVE  Inv'
<1>1. Numbers /\ Numbers' /\ LedgerInv /\ RunOk(r) /\ MoneyType
  BY MoneyTypes, NextMoneyTypes DEF Types, Inv
<1>2. /\ UNCHANGED <<caps, today, demand, book, saved, extra>>
      /\ status'[r] = "dead" /\ known'[r] = saved[r] /\ waived'[r] = {}
      /\ \A j \in Job : act'[r][j] = "none"
      /\ \A s \in Run \ {r} : Same(s)
  BY <1>1 DEF LedgerCrash, All, Same, histories, LedgerInv, BookType, MoneyType
<1>3. /\ Still(r)' /\ Holders(r)' = {} /\ Loose(r)' = {} /\ act'[r][0] = "none"
      /\ \A u \in Task : act'[r][u] = "none"
  BY <1>2, JobFacts DEF Still, Holders, Holding, Loose
<1>4. PlaceOk(r)'
  <2>1. Cardinality(Holders(r)') <= Parallel
    BY <1>1, <1>3, FS_EmptySet, ShareType DEF Numbers
  <2>2. QED
    BY <1>2, <1>3, <2>1, ShareStays DEF PlaceOk
<1>5. AskedOk(r)'
  BY <1>2, <1>3 DEF AskedOk, Asking, Checks
<1> DEFINE K  == known[r]
           K1 == known'[r]
           B  == book.booked[r]
           L  == Price(Loose(r))
           R  == Reserve(r)
           R1 == Reserve(r)'
<1>6. /\ K \in Int /\ K1 \in Int /\ B \in Int /\ L \in Nat /\ extra[r] \in Nat /\ Share \in Nat
      /\ K1 <= K /\ R = Pos(K - B) + L /\ R <= Share + extra[r] /\ R1 = Pos(K1 - B) + 0
  BY <1>1, <1>2, <1>3, PriceFacts DEF Numbers, RunOk, MoneyOk, Reserve, Owed
<1>7. R1 <= Share + extra[r] /\ R1 - extra[r] <= R - extra[r]
  <2> HIDE DEF K, K1, B, L, R, R1
  <2>1. QED
    BY <1>6 DEF Pos
<1>8. MoneyOk(r)'
  BY <1>1, <1>2, <1>3, <1>7, ShareStays DEF MoneyOk, Ended, Numbers
<1>9. Reserve(r)' - extra'[r] <= Reserve(r) - extra[r]
  BY <1>2, <1>7
<1>10. caps.day = 0 => ZeroOk(r)'
  BY <1>2, <1>3 DEF Inv, ZeroHolds, ZeroOk, Asking, Checks
<1>11. DeathsCounted' /\ deaths <= deaths'
  <2>1. Dead' \subseteq Dead \union {r} /\ Dead \subseteq Run
    BY <1>2 DEF Dead, Same
  <2>2. IsFiniteSet(Dead) /\ IsFiniteSet(Dead \union {r}) /\ Dead' \in SUBSET (Dead \union {r})
    BY <2>1, RunAssumption, FS_Subset, FS_AddElement
  <2>3. Cardinality(Dead \union {r}) \in {Cardinality(Dead), Cardinality(Dead) + 1}
    BY <2>2, FS_AddElement
  <2>4. Cardinality(Dead') <= Cardinality(Dead \union {r})
    BY <2>2, FS_Subset
  <2>5. Cardinality(Dead') \in Nat /\ Cardinality(Dead) \in Nat
    BY <2>2, FS_Subset, FS_CardinalityType
  <2> DEFINE n1 == Cardinality(Dead')
             D1 == deaths'
  <2>6. D1 = deaths + 1 /\ deaths \in Nat /\ Cardinality(Dead) <= deaths
        /\ n1 <= Cardinality(Dead \union {r}) /\ n1 \in Nat
    BY <1>1, <2>4, <2>5 DEF Inv, DeathsCounted, Numbers
  <2> HIDE DEF n1, D1
  <2>7. n1 <= D1 /\ deaths <= D1
    BY <2>3, <2>5, <2>6
  <2>8. QED
    BY <2>7 DEF n1, D1, DeathsCounted
<1>12. QED
  BY <1>2, <1>4, <1>5, <1>8, <1>9, <1>10, <1>11, QuietKeeps DEF RunOk, Others

\* A new day starts empty.
LEMMA MidnightKeeps ==
  ASSUME Types, Types', Governing, Inv, Tomorrow
  PROVE  Inv'
<1>1. Numbers /\ Numbers' /\ LedgerInv
  BY MoneyTypes, NextMoneyTypes DEF Types
<1>2. UNCHANGED <<caps, book, demand, deaths, status, extra>> /\ today' = today + 1
  BY DEF Tomorrow, Midnight, slotVars, runVars, histories
<1>3. \A s \in Run : Same(s)
  BY DEF Tomorrow, Midnight, slotVars, runVars, jobVars, histories, Same
<1>4. today \in Int /\ today' \in 1..Days /\ today <= today' /\ today' > today
  BY <1>1, <1>2, BoundsType DEF Numbers
<1>5. \A s \in Run : RunOk(s)' /\ (ZeroOk(s) => ZeroOk(s)')
  BY <1>2, <1>3, <1>4, SameKeeps DEF Inv
<1>6. FutureEmpty'
  <2>1. \A d \in 1..Days : d > today' => d > today
    BY <1>1, <1>2, <1>4, BoundsType DEF Numbers
  <2>2. QED
    BY <1>2, <2>1 DEF Inv, FutureEmpty
<1>7. CeilingHolds'
  <2>1. book'.day[today'] = 0
    BY <1>2, <1>4 DEF Inv, FutureEmpty
  <2>2. caps'.day \in Nat
    BY <1>1, <1>2 DEF Numbers, Governing
  <2>3. QED
    BY <2>1, <2>2 DEF CeilingHolds
<1>8. QED
  BY <1>2, <1>5, <1>6, <1>7 DEF Inv, DeathsCounted, Dead, ZeroHolds

------------------------------------------------------------------------------
(* The operations of the ledger *)

LEMMA Governs ==
  ASSUME Governing, NEW r \in Run, RunOk(r)
  PROVE  Spends /\ ChecksMoney(r) /\ \A j \in Job : ~Unasked(r, j)
BY DEF Governing, Spends, RunOk, PlaceOk, ChecksMoney, Active, Unasked

\* What a commit leaves of the ledger.
LEMMA CommitBook ==
  ASSUME Types, Inv, NEW r \in Run, NEW j \in Job, Write(r, j), Commits(act[r][j])
  PROVE  /\ book'.booked[r] = amount[r][j]
         /\ \A s \in Run \ {r} : book'.booked[s] = book.booked[s]
         /\ \A d \in 1..Days : book'.day[d] = IF d = moment[r][j]
                                                THEN book.day[d] + amount[r][j] - book.booked[r]
                                                ELSE book.day[d]
         /\ asked[r][j] <= known[r] /\ amount[r][j] <= asked[r][j] /\ moment[r][j] <= today
         /\ today' = today /\ FutureEmpty'
<1>1. Numbers /\ LedgerInv /\ RunOk(r)
  BY MoneyTypes DEF Types, Inv
<1>2. /\ act[r][j] \in Asking
      /\ book'.booked = [book.booked EXCEPT ![r] = amount[r][j]]
      /\ book'.day = [book.day EXCEPT ![moment[r][j]] = @ + amount[r][j] - book.booked[r]]
      /\ today' = today
  BY <1>1, WriteFacts
<1>3. book.booked \in [Run -> Int] /\ book.day \in [1..Days -> Int] /\ moment[r][j] \in 1..Days
  BY <1>1 DEF LedgerInv, BookType, Books, Numbers
<1>4. asked[r][j] <= known[r] /\ amount[r][j] <= asked[r][j] /\ moment[r][j] <= today
  BY <1>1, <1>2 DEF RunOk, AskedOk, Numbers
<1>5. \A d \in 1..Days : book'.day[d] = IF d = moment[r][j]
                                          THEN book.day[d] + amount[r][j] - book.booked[r]
                                          ELSE book.day[d]
  BY <1>2, <1>3
<1>6. FutureEmpty'
  <2>1. \A d \in 1..Days : d > today => d # moment[r][j]
    BY <1>1, <1>3, <1>4, BoundsType DEF Numbers
  <2>2. QED
    BY <1>2, <1>5, <2>1 DEF Inv, FutureEmpty
<1>7. QED
  BY <1>2, <1>3, <1>4, <1>5, <1>6

\* A commit that lets nothing start: what it takes back was not seen.
LEMMA CommitOwes ==
  ASSUME Numbers, Numbers', NEW r \in Run, NEW j \in Job, RunOk(r),
         UNCHANGED <<caps, today>>, amount[r][j] <= known[r], known'[r] = known[r],
         book'.booked[r] = amount[r][j],
         extra'[r] = extra[r] + Pos(book.booked[r] - amount[r][j]),
         book'.day[today] \in {book.day[today], book.day[today] + amount[r][j] - book.booked[r]},
         Loose(r)' \subseteq Loose(r)
  PROVE  /\ Covered(r) /\ Reserve(r)' <= Share + extra'[r]
         /\ \A u \in Task : /\ act[r][u] = "launch" /\ Ahead(r, u)' \subseteq Ahead(r, u)
                           /\ asked'[r][u] = asked[r][u] /\ amount'[r][u] = amount[r][u]
                           => LaunchOk(r, u)'
<1> DEFINE K  == known[r]
           B  == book.booked[r]
           a  == amount[r][j]
           E  == extra[r]
           E1 == extra'[r]
           R  == Reserve(r)
           R1 == Reserve(r)'
           p  == Price(Loose(r))
           p1 == Price(Loose(r)')
           d0 == book.day[today]
           d1 == book'.day[today]
<1>1. /\ K \in Int /\ B \in Int /\ a \in Int /\ E \in Nat /\ d0 \in Int /\ d1 \in {d0, d0 + a - B}
      /\ Share \in Nat /\ a <= K /\ E1 = E + Pos(B - a)
  BY PriceFacts DEF Numbers
<1>2. p \in Nat /\ p1 \in Nat /\ p1 <= p
  BY PriceFacts DEF Numbers
<1>3. R = Pos(K - B) + p /\ R1 = Pos(K - a) + p1 /\ R <= Share + E
  BY DEF Reserve, Owed, RunOk, MoneyOk
<1>4. ASSUME NEW u \in Task, act[r][u] = "launch", Ahead(r, u)' \subseteq Ahead(r, u),
             asked'[r][u] = asked[r][u], amount'[r][u] = amount[r][u]
      PROVE  LaunchOk(r, u)'
  <2> DEFINE q  == Price(Ahead(r, u))
             q1 == Price(Ahead(r, u)')
             k  == asked[r][u]
             v  == amount[r][u]
  <2>1. K + q <= Share + E + k + Pos(B - v)
    BY <1>4 DEF RunOk, MoneyOk, LaunchOk
  <2>2. LaunchOk(r, u)' <=> K + q1 <= Share + E1 + k + Pos(a - v)
    BY <1>4, ShareStays DEF LaunchOk
  <2>3. q \in Nat /\ q1 \in Nat /\ q1 <= q
    BY <1>4, PriceFacts DEF Numbers
  <2>4. k \in Int /\ v \in Int
    BY JobFacts DEF Numbers
  <2> HIDE DEF K, B, a, E, E1, q, q1, k, v
  <2>5. Pos(B - v) <= Pos(B - a) + Pos(a - v)
    BY <1>1, <2>4 DEF Pos
  <2>6. Pos(B - a) \in Nat /\ Pos(a - v) \in Nat /\ Pos(B - v) \in Nat
    BY <1>1, <2>4 DEF Pos
  <2>7. QED
    BY <1>1, <2>1, <2>2, <2>3, <2>4, <2>5, <2>6
<1>5. Covered(r) <=> (d1 > caps.day => d1 + R1 - E1 <= d0 + R - E)
  BY DEF Covered
<1> HIDE DEF K, B, a, E, E1, R, R1, p, p1, d0, d1
<1>6. d1 + R1 - E1 <= d0 + R - E /\ R1 <= Share + E1
  <2>1. Pos(K - a) = K - a
    BY <1>1 DEF Pos
  <2>2. CASE a >= B
    <3>1. Pos(B - a) = 0 /\ Pos(K - B) = K - B
      BY <1>1, <2>2 DEF Pos
    <3>2. QED
      BY <1>1, <1>2, <1>3, <2>1, <2>2, <3>1
  <2>3. CASE ~(a >= B)
    <3>1. Pos(B - a) = B - a /\ Pos(K - B) >= K - B /\ Pos(K - B) \in Nat
      BY <1>1, <2>3 DEF Pos
    <3>2. QED
      BY <1>1, <1>2, <1>3, <2>1, <2>3, <3>1
  <2>4. QED
    BY <2>2, <2>3
<1>7. QED
  BY <1>4, <1>5, <1>6 DEF R1, E1

\* A commit that lets step t start: it had asked for that much, or it was hidden.
LEMMA StartOwes ==
  ASSUME Numbers, Numbers', NEW r \in Run, NEW t \in Task, RunOk(r), OnlyTask(r, t),
         UNCHANGED <<caps, today>>, act[r][t] = "launch", act'[r][t] = "cleared",
         asked[r][t] <= known[r], known'[r] = known[r], book'.booked[r] = amount[r][t],
         extra'[r] = extra[r] + (Pos(book.booked[r] - amount[r][t]) + (asked[r][t] - amount[r][t])
                                   + IF moment[r][t] < today THEN MaxCost ELSE 0),
         \/ moment[r][t] < today /\ book'.day[today] = book.day[today]
         \/ ~(book'.day[today] > caps.day)
  PROVE  /\ Covered(r) /\ Reserve(r)' <= Share + extra'[r]
         /\ \A u \in Task : act'[r][u] = "launch" => LaunchOk(r, u)'
<1> DEFINE K  == known[r]
           B  == book.booked[r]
           a  == amount[r][t]
           k  == asked[r][t]
           E  == extra[r]
           E1 == extra'[r]
           R  == Reserve(r)
           R1 == Reserve(r)'
           p  == Price(Loose(r))
           p1 == Price(Loose(r)')
           c  == IF moment[r][t] < today THEN MaxCost ELSE 0
           d0 == book.day[today]
           d1 == book'.day[today]
<1>1. /\ K \in Int /\ B \in Int /\ a \in Int /\ k \in Int /\ E \in Nat /\ d0 \in Int
      /\ Share \in Nat /\ MaxCost \in Nat /\ a <= k /\ k <= K
      /\ E1 = E + (Pos(B - a) + (k - a) + c) /\ c \in Nat /\ Pos(B - a) \in Nat
  <2>1. t \in Job /\ book.booked[r] - amount[r][t] \in Int
    BY JobFacts DEF Numbers
  <2>2. QED
    BY <2>1, PriceFacts, PosFacts DEF Numbers
<1>2. /\ p \in Nat /\ p1 = p + MaxCost
      /\ Loose(r)' = Loose(r) \union {t} /\ Loose(r)' \subseteq Ahead(r, t)
  <2>1. Loose(r)' = Loose(r) \union {t}
    BY RowSets
  <2>2. t \notin Loose(r) /\ Loose(r) \in SUBSET Task
    BY DEF Loose
  <2>3. Loose(r)' \subseteq Ahead(r, t)
    BY <1>1, <2>1 DEF Ahead
  <2>4. QED
    BY <2>1, <2>2, <2>3, PriceFacts
<1> DEFINE q == Price(Ahead(r, t))
<1>3. /\ R = Pos(K - B) + p /\ R1 = Pos(K - a) + p1 /\ R <= Share + E
      /\ K + q <= Share + E + k + Pos(B - a) /\ q \in Nat /\ p1 <= q
  <2>1. R = Pos(K - B) + p /\ R1 = Pos(K - a) + p1
    BY DEF Reserve, Owed
  <2>2. R <= Share + E /\ K + q <= Share + E + k + Pos(B - a)
    BY DEF RunOk, MoneyOk, LaunchOk
  <2>3. q \in Nat /\ p1 <= q
    BY <1>2, PriceFacts DEF Numbers
  <2>4. QED
    BY <2>1, <2>2, <2>3
<1>4. ASSUME NEW u \in Task, act'[r][u] = "launch" PROVE LaunchOk(r, u)'
  <2> DEFINE A  == Ahead(r, u)
             A1 == Ahead(r, u)'
             s  == Price(A)
             s1 == Price(A1)
             l  == asked[r][u]
             v  == amount[r][u]
  <2>1. u # t /\ u \in Job /\ act[r][u] = "launch" /\ asked'[r][u] = l /\ amount'[r][u] = v
    BY <1>4, JobFacts DEF OnlyTask
  <2>2. K + s <= Share + E + l + Pos(B - v)
    BY <2>1 DEF RunOk, MoneyOk, LaunchOk
  <2>3. LaunchOk(r, u)' <=> K + s1 <= Share + E1 + l + Pos(a - v)
    BY <2>1, ShareStays DEF LaunchOk
  <2>4. l \in Int /\ v \in Int /\ v <= l /\ s \in Nat /\ s1 \in Nat
    BY <2>1 DEF Numbers
  <2>5. Pos(B - v) <= Pos(B - a) + Pos(a - v) /\ Pos(B - v) \in Nat /\ Pos(a - v) \in Nat
        /\ a - v <= Pos(a - v)
    <3> HIDE DEF B, a, v
    <3>1. QED
      BY <1>1, <2>4 DEF Pos
  <2>6. CASE k <= l
    <3>1. A1 \subseteq A
      <4>1. A1 \subseteq A \union {t} /\ t \in A
        BY <2>1, <2>6, RowSets DEF Ahead
      <4>2. QED
        BY <4>1
    <3>2. s1 <= s
      BY <3>1, PriceFacts DEF Numbers
    <3> HIDE DEF K, B, a, k, E, E1, s, s1, l, v, c
    <3>3. QED
      BY <1>1, <2>2, <2>3, <2>4, <2>5, <3>2
  <2>7. CASE ~(k <= l)
    <3>1. A1 \subseteq Ahead(r, t)
      <4>1. \A w \in Task : act'[r][w] = "launch" =>
              /\ act[r][w] = "launch" /\ asked'[r][w] = asked[r][w] /\ asked[r][w] \in Int
        BY JobFacts DEF OnlyTask, Numbers
      <4>2. \A w \in Task : act'[r][w] = "launch" /\ asked'[r][w] <= asked'[r][u]
                              => act[r][w] = "launch" /\ asked[r][w] <= asked[r][t]
        BY <1>1, <2>1, <2>4, <2>7, <4>1
      <4>3. QED
        BY <1>2, <4>2 DEF Ahead
    <3>2. s1 <= q
      BY <3>1, PriceFacts DEF Numbers
    <3> HIDE DEF K, B, a, k, E, E1, s, s1, l, v, c, q
    <3>3. QED
      BY <1>1, <1>3, <2>3, <2>4, <2>5, <3>2
  <2>8. QED
    BY <2>6, <2>7
<1>5. \/ moment[r][t] < today /\ d1 = d0 /\ c = MaxCost
      \/ ~(d1 > caps.day)
  OBVIOUS
<1>6. Covered(r) <=> (d1 > caps.day => d1 + R1 - E1 <= d0 + R - E)
  BY DEF Covered
<1> HIDE DEF K, B, a, k, E, E1, R, R1, p, p1, c, d0, d1, q
<1>7. Pos(K - a) = K - a /\ Pos(K - B) \in Nat /\ K - a <= Pos(K - B) + Pos(B - a)
  BY <1>1 DEF Pos
<1>8. R1 <= Share + E1
  BY <1>1, <1>2, <1>3, <1>7
<1>9. d1 > caps.day => d1 + R1 - E1 <= d0 + R - E
  <2>1. SUFFICES ASSUME d1 = d0, c = MaxCost PROVE d1 + R1 - E1 <= d0 + R - E
    BY <1>5
  <2>2. QED
    BY <1>1, <1>2, <1>3, <1>7, <2>1
<1>10. QED
  BY <1>4, <1>6, <1>8, <1>9 DEF R1, E1

LEMMA WriteTaskKeeps ==
  ASSUME Types, Types', Governing, Inv, NEW r \in Run, NEW t \in Task, Write(r, t),
         UNCHANGED <<slotVars, deaths>>
  PROVE  Inv'
<1>1. Numbers /\ Numbers' /\ LedgerInv /\ LedgerInv' /\ RunOk(r) /\ MoneyType /\ t \in Job
  BY MoneyTypes, NextMoneyTypes, JobFacts DEF Types, Inv
<1>2. /\ act[r][t] \in Asking
      /\ UNCHANGED <<known, caps, today, status, saved, waived, demand, stage, deaths>>
  BY <1>1, WriteFacts DEF slotVars
<1>3. act[r][t] \in {"launch", "judge", "account"} /\ act[r][t] # "none"
  BY <1>1, <1>2 DEF RunOk, PlaceOk, Asking, Checks
<1>4. AtWork(r) /\ stage[r] = "inside" /\ Commits(act[r][t]) /\ act[r][t] \in Checks
  BY <1>1, <1>3, Working, Governs DEF RunOk, Commits, Checks
<1>5. PICK off \in BOOLEAN :
        LET control == IF act[r][t] \in Checks /\ ~off THEN Verdict(r, t, book') ELSE "none"
            next    == IF off THEN "persist" ELSE Following(r, act[r][t], control)
        IN
        /\ next \in Acts /\ Turn(r, t, next)
        /\ why' = [why EXCEPT ![r] = IF control = "none" THEN @ ELSE control]
        /\ extra' = [extra EXCEPT ![r] = @ + Unseen(r, t, book, next)]
  BY <1>1, WriteFacts, Zenon
<1> DEFINE control == IF act[r][t] \in Checks /\ ~off THEN Verdict(r, t, book') ELSE "none"
           next    == IF off THEN "persist" ELSE Following(r, act[r][t], control)
<1>6. /\ next \in Acts /\ Turn(r, t, next)
      /\ why' = [why EXCEPT ![r] = IF control = "none" THEN @ ELSE control]
      /\ extra' = [extra EXCEPT ![r] = @ + Unseen(r, t, book, next)]
  BY <1>5, Zenon
<1>7. /\ next \in {"cleared", "persist", "backoff", "none"}
      /\ next = "cleared" => act[r][t] = "launch" /\ ~off /\ Verdict(r, t, book') = "none"
  <2>1. off => next = "persist"
    OBVIOUS
  <2>2. ~off => control = Verdict(r, t, book') /\ next = Following(r, act[r][t], control)
    BY <1>4
  <2> HIDE DEF control, next
  <2>3. Following(r, act[r][t], control) =
          IF act[r][t] = "launch" THEN IF control = "none" THEN "cleared" ELSE "persist"
          ELSE IF act[r][t] = "judge" THEN IF control = "none" THEN "backoff" ELSE "persist"
          ELSE "none"
    BY <1>3 DEF Following
  <2>4. QED
    BY <1>3, <2>1, <2>2, <2>3
<1>8. /\ \A s \in Run \ {r} : why'[s] = why[s] /\ extra'[s] = extra[s]
      /\ extra'[r] = extra[r] + Unseen(r, t, book, next)
  <2> HIDE DEF control, next
  <2>1. QED
    BY <1>1, <1>6 DEF MoneyType
<1> HIDE DEF control, next
<1>9. /\ OnlyTask(r, t) /\ act'[r][t] = next
      /\ moment'[r][t] = (IF next \in Asking THEN today ELSE 1)
      /\ asked'[r][t] = (IF next \in Asking THEN known'[r] ELSE 0)
      /\ \A s \in Run \ {r} : /\ act'[s] = act[s] /\ moment'[s] = moment[s]
                            /\ amount'[s] = amount[s] /\ asked'[s] = asked[s]
  BY <1>1, <1>6, TaskTurn
<1>10. PlaceOk(r)' /\ AskedOk(r)'
  <2>1. act'[r][t] \in TaskActs /\ (act'[r][t] \in Holding => act[r][t] \in Holding)
        /\ known[r] \in Int
    BY <1>1, <1>7, <1>9 DEF TaskActs, Holding, Numbers
  <2>2. QED
    BY <1>1, <1>2, <1>4, <1>9, <2>1, TaskPlace
<1>11. /\ book'.booked[r] = amount[r][t]
       /\ \A s \in Run \ {r} : book'.booked[s] = book.booked[s]
       /\ book'.day[today] = IF today = moment[r][t]
                               THEN book.day[today] + amount[r][t] - book.booked[r]
                               ELSE book.day[today]
       /\ asked[r][t] <= known[r] /\ amount[r][t] <= asked[r][t] /\ moment[r][t] <= today
       /\ FutureEmpty'
  BY <1>1, <1>4, CommitBook DEF Numbers
<1>12. /\ Covered(r) /\ Reserve(r)' <= Share + extra'[r]
       /\ \A u \in Task : act'[r][u] = "launch" => LaunchOk(r, u)'
  <2>1. CASE next = "cleared"
    <3>1. extra'[r] = extra[r] + (Pos(book.booked[r] - amount[r][t])
                                    + (asked[r][t] - amount[r][t])
                                    + IF moment[r][t] < today THEN MaxCost ELSE 0)
      BY <1>1, <1>4, <1>8, <2>1, UnseenType
    <3>2. \/ moment[r][t] < today /\ book'.day[today] = book.day[today]
          \/ ~(book'.day[today] > caps.day)
      <4>1. CASE moment[r][t] = today
        <5>1. ~MoneyTrips(r, t, book')
          BY <1>7, <2>1 DEF Verdict
        <5>2. ~Exceeds(book'.day[moment[r][t]], caps.day)
          BY <1>1, <5>1, Governs DEF MoneyTrips
        <5>3. QED
          BY <4>1, <5>2 DEF Exceeds, Governing
      <4>2. CASE moment[r][t] # today
        <5>1. moment[r][t] \in Int /\ today \in Int
          BY <1>1, BoundsType DEF Numbers
        <5>2. QED
          BY <1>11, <4>2, <5>1
      <4>3. QED
        BY <4>1, <4>2
    <3>3. QED
      BY <1>1, <1>2, <1>7, <1>9, <1>11, <2>1, <3>1, <3>2, StartOwes
  <2>2. CASE next # "cleared"
    <3>1. extra'[r] = extra[r] + Pos(book.booked[r] - amount[r][t])
      BY <1>1, <1>4, <1>8, <2>2, UnseenType
    <3>2. act'[r][t] \notin Holding
      BY <1>7, <1>9, <2>2 DEF Holding
    <3>3. /\ Loose(r)' \subseteq Loose(r)
          /\ \A u \in Task \ {t} : Ahead(r, u)' \subseteq Ahead(r, u)
      BY <1>9, <3>2, RowSets DEF Holding
    <3>4. amount[r][t] <= known[r]
      BY <1>1, <1>11 DEF Numbers
    <3>5. book'.day[today] \in {book.day[today], book.day[today] + amount[r][t] - book.booked[r]}
      BY <1>11
    <3>6. /\ Covered(r) /\ Reserve(r)' <= Share + extra'[r]
          /\ \A u \in Task : /\ act[r][u] = "launch" /\ Ahead(r, u)' \subseteq Ahead(r, u)
                            /\ asked'[r][u] = asked[r][u] /\ amount'[r][u] = amount[r][u]
                            => LaunchOk(r, u)'
      BY <1>1, <1>2, <1>11, <3>1, <3>3, <3>4, <3>5, CommitOwes
    <3>7. \A u \in Task : act'[r][u] = "launch" =>
            /\ u # t /\ act[r][u] = "launch"
            /\ asked'[r][u] = asked[r][u] /\ amount'[r][u] = amount[r][u]
      BY <1>9, <3>2, JobFacts DEF OnlyTask, Holding
    <3>8. QED
      BY <3>3, <3>6, <3>7
  <2>3. QED
    BY <2>1, <2>2
<1>13. RunOk(r)'
  BY <1>1, <1>2, <1>4, <1>10, <1>12, ShareStays DEF RunOk, MoneyOk, AtWork, Ended
<1>14. Others(r)
  BY <1>2, <1>8, <1>9, <1>11 DEF Others, Same
<1>15. caps.day = 0 => FALSE
  BY <1>3 DEF Inv, ZeroHolds, ZeroOk, Still
<1>16. DeathsCounted' /\ deaths <= deaths'
  BY <1>1, <1>2, DeadShrink DEF Inv, Numbers
<1>17. QED
  BY <1>2, <1>11, <1>12, <1>13, <1>14, <1>15, <1>16, StepKeeps

LEMMA WriteRunnerKeeps ==
  ASSUME Types, Types', Governing, Inv, NEW r \in Run, Write(r, 0), UNCHANGED <<slotVars, deaths>>
  PROVE  Inv'
<1>1. Numbers /\ Numbers' /\ LedgerInv /\ LedgerInv' /\ RunOk(r) /\ MoneyType /\ 0 \in Job
  BY MoneyTypes, NextMoneyTypes, JobFacts DEF Types, Inv
<1>2. /\ act[r][0] \in Asking
      /\ UNCHANGED <<known, caps, today, status, saved, waived, demand, stage, deaths>>
  BY <1>1, WriteFacts DEF slotVars
<1> DEFINE a == act[r][0]
<1>3. /\ a \in {"waive", "first", "settle", "final", "outcome"} /\ Still(r) /\ stage[r] = "inside"
      /\ a \in {"waive", "first"} => status[r] = "live"
      /\ a \in {"settle", "final", "outcome"} => status[r] \in Ended
  BY <1>1, <1>2 DEF RunOk, PlaceOk, Asking, Checks
<1>4. \E control : LET next == Following(r, a, control) IN
        /\ control = (IF a \in Checks THEN Verdict(r, 0, book') ELSE "none")
        /\ next \in Acts /\ Turn(r, 0, next)
        /\ why' = [why EXCEPT ![r] = IF control = "none" THEN @ ELSE control]
        /\ extra' = [extra EXCEPT ![r] = @ + Unseen(r, 0, book, next)]
  <2>1. PICK off \in BOOLEAN :
        LET control == IF a \in Checks /\ ~off THEN Verdict(r, 0, book') ELSE "none"
            next    == IF off THEN "persist" ELSE Following(r, a, control)
        IN
        /\ off => 0 # 0
        /\ next \in Acts /\ Turn(r, 0, next)
        /\ why' = [why EXCEPT ![r] = IF control = "none" THEN @ ELSE control]
        /\ extra' = [extra EXCEPT ![r] = @ + Unseen(r, 0, book, next)]
    BY <1>1, WriteFacts, Zenon
  <2>2. off = FALSE
    BY <2>1, Zenon
  <2>3. QED
    BY <2>1, <2>2
<1>5. PICK control : LET next == Following(r, a, control) IN
        /\ control = (IF a \in Checks THEN Verdict(r, 0, book') ELSE "none")
        /\ next \in Acts /\ Turn(r, 0, next)
        /\ why' = [why EXCEPT ![r] = IF control = "none" THEN @ ELSE control]
        /\ extra' = [extra EXCEPT ![r] = @ + Unseen(r, 0, book, next)]
  BY <1>4
<1> DEFINE next == Following(r, a, control)
<1>6. /\ control = (IF a \in Checks THEN Verdict(r, 0, book') ELSE "none")
      /\ next \in Acts /\ Turn(r, 0, next)
      /\ why' = [why EXCEPT ![r] = IF control = "none" THEN @ ELSE control]
      /\ extra' = [extra EXCEPT ![r] = @ + Unseen(r, 0, book, next)]
  BY <1>5
<1>7. /\ a = "waive" => next = "first" /\ ~Commits(a)
      /\ a = "first" => next = "none" /\ Commits(a)
      /\ a = "settle" => next = "final" /\ Commits(a)
      /\ a = "final" => next \in {"outcome", "save"} /\ Commits(a)
      /\ a = "outcome" => next = "save" /\ ~Commits(a)
  BY <1>1, Governs DEF Following, Commits, Checks
<1>8. next # "cleared" /\ next \in {"first", "none", "final", "outcome", "save"}
  BY <1>3, <1>7
<1> HIDE DEF next
<1>9. /\ act'[r][0] = next /\ Still(r)' /\ Loose(r)' = {} /\ Loose(r) = {} /\ Holders(r)' = {}
      /\ \A t \in Task : act'[r][t] \notin Asking
      /\ moment'[r][0] = (IF next \in Asking THEN today ELSE 1)
      /\ asked'[r][0] = (IF next \in Asking THEN known'[r] ELSE 0)
      /\ amount'[r][0] = (IF next \in Asking THEN known'[r] ELSE 0)
      /\ \A s \in Run \ {r} : /\ act'[s] = act[s] /\ moment'[s] = moment[s]
                            /\ amount'[s] = amount[s] /\ asked'[s] = asked[s]
  BY <1>1, <1>3, <1>6, RunnerTurn
<1>10. /\ \A s \in Run \ {r} : why'[s] = why[s] /\ extra'[s] = extra[s]
       /\ extra'[r] = extra[r] + Unseen(r, 0, book, next)
  BY <1>1, <1>6 DEF MoneyType
<1>11. PlaceOk(r)'
  <2>1. Cardinality(Holders(r)') <= Parallel
    BY <1>1, <1>9, FS_EmptySet, ShareType DEF Numbers
  <2>2. \A t \in Task : act'[r][t] = "none"
    BY <1>9 DEF Still
  <2>3. status'[r] = "live" => next \in {"none", "first"}
    BY <1>2, <1>3, <1>7 DEF Ended
  <2>4. next = "first" => status'[r] = "live"
    BY <1>2, <1>3, <1>7
  <2>5. next \in {"final", "outcome", "save"} => status'[r] \in Ended
    BY <1>2, <1>3, <1>7
  <2>6. "money" \notin waived'[r] /\ stage'[r] = "inside"
    BY <1>1, <1>2, <1>3 DEF RunOk, PlaceOk
  <2>7. QED
    BY <1>2, <1>8, <1>9, <2>1, <2>2, <2>3, <2>4, <2>5, <2>6, ShareStays DEF PlaceOk
<1>12. AskedOk(r)'
  <2>1. today \in Int /\ known'[r] \in Int /\ Job = Task \union {0}
    BY <1>1, BoundsType DEF Numbers, Task, Job
  <2>2. "final" \in Asking /\ next # "settle"
    BY <1>8 DEF Asking, Checks
  <2>3. ASSUME NEW j \in Job, act'[r][j] \in Asking
        PROVE  moment'[r][j] <= today' /\ asked'[r][j] <= known'[r]
    BY <1>2, <1>9, <2>1, <2>3
  <2>4. QED
    BY <1>9, <2>2, <2>3 DEF AskedOk
<1>13. Commits(a) =>
         /\ book'.booked[r] = amount[r][0]
         /\ \A s \in Run \ {r} : book'.booked[s] = book.booked[s]
         /\ \A d \in 1..Days : book'.day[d] = IF d = moment[r][0]
                                                THEN book.day[d] + amount[r][0] - book.booked[r]
                                                ELSE book.day[d]
         /\ asked[r][0] <= known[r] /\ amount[r][0] <= asked[r][0] /\ moment[r][0] <= today
         /\ FutureEmpty' /\ extra'[r] = extra[r] + Pos(book.booked[r] - amount[r][0])
  BY <1>1, <1>8, <1>10, CommitBook, UnseenType
<1>14. ~Commits(a) =>
         /\ book'.booked = book.booked /\ book'.day = book.day /\ extra'[r] = extra[r]
         /\ FutureEmpty'
  <2>1. SUFFICES ASSUME ~Commits(a)
                 PROVE  /\ book'.booked = book.booked /\ book'.day = book.day
                        /\ extra'[r] = extra[r] /\ FutureEmpty'
    OBVIOUS
  <2>2. book'.booked = book.booked /\ book'.day = book.day
    BY <1>1, <2>1, WriteFacts
  <2>3. Unseen(r, 0, book, next) = 0
    BY <1>1, <1>8, <2>1, UnseenType
  <2>4. QED
    BY <1>1, <1>2, <1>10, <2>2, <2>3 DEF Inv, FutureEmpty, Numbers
<1>15. Covered(r) /\ Reserve(r)' <= Share + extra'[r]
  <2>1. CASE Commits(a)
    <3>1. amount[r][0] <= known[r]
      BY <1>1, <1>13, <2>1 DEF Numbers
    <3>2. book'.day[today] \in {book.day[today], book.day[today] + amount[r][0] - book.booked[r]}
      BY <1>1, <1>13, <2>1 DEF Numbers
    <3>3. QED
      BY <1>1, <1>2, <1>9, <1>13, <2>1, <3>1, <3>2, CommitOwes
  <2>2. CASE ~Commits(a)
    <3>1. book'.booked[r] = book.booked[r] /\ extra'[r] = extra[r] /\ known'[r] <= known[r]
      BY <1>1, <1>2, <1>14, <2>2 DEF Numbers
    <3>2. Reserve(r)' - extra'[r] <= Reserve(r) - extra[r] /\ Reserve(r)' <= Share + extra'[r]
      BY <1>1, <1>9, <3>1, RunnerMoves DEF RunOk
    <3> DEFINE R1 == Reserve(r)'
               e1 == extra'[r]
               d1 == book'.day[today]
    <3>3. R1 \in Int /\ e1 \in Int /\ d1 \in Int /\ Reserve(r) \in Int /\ extra[r] \in Int
          /\ d1 = book.day[today] /\ R1 - e1 <= Reserve(r) - extra[r]
      BY <1>1, <1>2, <1>14, <2>2, <3>2 DEF Numbers
    <3>4. Covered(r) <=> (d1 > caps.day =>
                           d1 + R1 - e1 <= book.day[today] + Reserve(r) - extra[r])
      BY <1>2 DEF Covered
    <3> HIDE DEF R1, e1, d1
    <3>5. d1 + R1 - e1 <= book.day[today] + Reserve(r) - extra[r]
      BY <3>3
    <3>6. QED
      BY <3>2, <3>4, <3>5
  <2>3. QED
    BY <2>1, <2>2
<1>16. MoneyOk(r)'
  <2>1. saved'[r] <= known'[r] /\ status'[r] # "fresh"
    BY <1>1, <1>2, <1>3 DEF RunOk, MoneyOk, Ended
  <2>2. \A u \in Task : act'[r][u] = "launch" => LaunchOk(r, u)'
    BY <1>9 DEF Asking, Checks
  <2>3. ASSUME status'[r] \in Ended, next \in {"outcome", "save", "none"}
        PROVE  known'[r] <= book'.booked[r]
    <3>1. a \in {"final", "outcome"}
      BY <1>2, <1>3, <1>7, <2>3 DEF Ended
    <3>2. CASE a = "final"
      BY <1>1, <1>2, <1>7, <1>13, <3>2 DEF RunOk, AskedOk, Numbers
    <3>3. CASE a = "outcome"
      BY <1>1, <1>2, <1>3, <1>7, <1>14, <3>3 DEF RunOk, MoneyOk
    <3>4. QED
      BY <3>1, <3>2, <3>3
  <2>4. QED
    BY <1>2, <1>9, <1>15, <2>1, <2>2, <2>3, ShareStays DEF MoneyOk
<1>17. Others(r)
  BY <1>2, <1>9, <1>10, <1>13, <1>14 DEF Others, Same
<1>18. caps.day = 0 => ZeroOk(r)' /\ \A d \in 1..Days : book'.day[d] = 0
  <2>1. SUFFICES ASSUME caps.day = 0 PROVE ZeroOk(r)' /\ \A d \in 1..Days : book'.day[d] = 0
    OBVIOUS
  <2>2. /\ known[r] = 0 /\ saved[r] = 0 /\ book.booked[r] = 0 /\ amount[r][0] = 0
        /\ \A d \in 1..Days : book.day[d] = 0
    BY <1>2, <2>1 DEF Inv, ZeroHolds, ZeroOk
  <2>3. book'.booked[r] = 0 /\ \A d \in 1..Days : book'.day[d] = 0
    BY <1>13, <1>14, <2>2
  <2>4. ASSUME status'[r] = "live", next = "none" PROVE why'[r] # "none"
    <3>1. a = "first" /\ a \in Checks
      BY <1>2, <1>3, <1>7, <2>4 DEF Ended, Checks
    <3>2. Exceeds(book'.day[moment[r][0]], caps.day)
      BY <2>1 DEF Exceeds, Governing
    <3>3. MoneyTrips(r, 0, book')
      BY <1>1, <3>2, Governs DEF MoneyTrips
    <3>4. control \in {"streak", "money"}
      BY <1>6, <3>1, <3>3 DEF Verdict
    <3>5. QED
      BY <1>1, <1>6, <3>4 DEF MoneyType
  <2>5. QED
    BY <1>2, <1>9, <2>2, <2>3, <2>4 DEF ZeroOk
<1>19. DeathsCounted' /\ deaths <= deaths'
  BY <1>1, <1>2, DeadShrink DEF Inv, Numbers
<1>20. QED
  BY <1>2, <1>11, <1>12, <1>13, <1>14, <1>15, <1>16, <1>17, <1>18, <1>19, StepKeeps DEF RunOk

LEMMA ExecuteKeeps ==
  ASSUME Types, Types', Governing, Governing', Inv, NEW r \in Run, Execute(r)
  PROVE  Inv'
<1>1. stage[r] = "inside" /\ UNCHANGED <<slotVars, deaths>> /\ (Begin(r) \/ LedgerStep(r))
  BY DEF Execute
<1>2. CASE Begin(r)
  BY <1>1, <1>2, BeginKeeps
<1>3. ASSUME NEW j \in Job, Lock(r, j) PROVE Inv'
  BY <1>1, <1>3, LockKeeps
<1>4. ASSUME NEW j \in Job, Write(r, j) PROVE Inv'
  <2>1. j = 0 \/ j \in Task
    BY BoundsType DEF Job, Task
  <2>2. CASE j = 0
    BY <1>1, <1>4, <2>2, WriteRunnerKeeps
  <2>3. CASE j \in Task
    BY <1>1, <1>4, <2>3, WriteTaskKeeps
  <2>4. QED
    BY <2>1, <2>2, <2>3
<1>5. ASSUME NEW j \in Job, Unasked(r, j) PROVE Inv'
  BY <1>5, Governs DEF Inv
<1>6. ASSUME NEW t \in Task, Launch(r, t) PROVE Inv'
  BY <1>1, <1>6, LaunchKeeps
<1>7. ASSUME NEW t \in Task, Open(r, t) PROVE Inv'
  BY <1>1, <1>7, OpenKeeps
<1>8. ASSUME NEW t \in Task, LeafEnds(r, t) \/ GiveUp(r, t) \/ Persist(r, t) PROVE Inv'
  <2>1. act'[r][t] # "fly"
    <3>1. \E a \in {"judge", "persist", "account", "none"} : Turn(r, t, a)
      BY <1>8 DEF LeafEnds, GiveUp, Persist
    <3>2. {"judge", "persist", "account", "none"} \subseteq Acts
      BY DEF Acts, Asking, Checks
    <3>3. QED
      BY <3>1, <3>2, TaskTurn DEF Types
  <2>2. QED
    BY <1>1, <1>8, <2>1, RetireKeeps
<1>9. CASE Beat(r)
  BY <1>1, <1>9, BeatKeeps
<1>10. CASE End(r)
  BY <1>1, <1>10, EndKeeps
<1>11. QED
  BY <1>1, <1>2, <1>3, <1>4, <1>5, <1>6, <1>7, <1>8, <1>9, <1>10 DEF LedgerStep

\* Nobody takes back that a money ceiling was waived.
LEMMA GoverningBefore ==
  ASSUME LedgerInv, MoneyType, [Next]_vars, Governing' PROVE Governing
<1>1. ASSUME NEW r \in Run, Begin(r) PROVE caps' = caps /\ (excused => excused')
  <2>1. PICK approved \in BOOLEAN :
          LET retired == IF approved /\ status[r] = "paused" THEN {why[r]} ELSE {}
          IN  excused' = (excused \/ "money" \in retired)
    BY <1>1 DEF Begin
  <2>2. QED
    BY <1>1, <2>1 DEF Begin
<1>2. ASSUME NEW r \in Run, LedgerStep(r) \/ Finish(r) \/ LedgerCrash(r)
      PROVE  caps' = caps /\ excused' = excused
  <2>1. CASE Finish(r) \/ LedgerCrash(r) \/ Beat(r) \/ End(r)
    BY <2>1 DEF Finish, LedgerCrash, Beat, End, histories
  <2>2. CASE \E j \in Job : Lock(r, j) \/ Write(r, j) \/ Unasked(r, j)
    BY <2>2 DEF Lock, Write, Unasked, histories
  <2>3. CASE \E t \in Task : Launch(r, t) \/ Open(r, t) \/ LeafEnds(r, t) \/ GiveUp(r, t)
                              \/ Persist(r, t)
    BY <2>3 DEF Launch, Open, LeafEnds, GiveUp, Persist, histories
  <2>4. QED
    BY <1>2, <2>1, <2>2, <2>3 DEF LedgerStep
<1>3. CASE Midnight \/ UNCHANGED ledgerVars
  BY <1>3 DEF Midnight, ledgerVars, histories, Governing
<1>4. QED
  BY <1>1, <1>2, <1>3
     DEF Next, Queue, Execute, EndOfBlock, Crash, Tomorrow, vars, Governing, ledgerVars, histories

LEMMA MoneyInvStep == ASSUME Types, Types', MoneyInv, [Next]_vars PROVE MoneyInv'
<1> SUFFICES ASSUME Governing' PROVE Inv'
  BY DEF MoneyInv
<1>1. Governing
  BY GoverningBefore DEF Types
<1>2. Inv
  BY <1>1 DEF MoneyInv
<1>3. ASSUME NEW r \in Run, Queue(r) PROVE Inv'
  <2>1. /\ stage[r] # "inside" /\ UNCHANGED <<ledgerVars, deaths, demand>>
        /\ \A s \in Run \ {r} : stage'[s] = stage[s]
    <3>1. stage \in [Run -> Stages]
      BY DEF Types, SlotTypeOK
    <3>2. CASE Enter(r)
      BY <1>3, <3>1, <3>2 DEF Queue, Enter, Walk, Move
    <3>3. CASE Try(r)
      BY <1>3, <3>1, <3>3 DEF Queue, Try, Walk, Move
    <3>4. CASE Again(r) \/ Busy(r) \/ SlotError(r)
      BY <1>3, <3>1, <3>4 DEF Queue, Again, Busy, SlotError, Move
    <3>5. CASE GiveBack(r)
      BY <1>3, <3>1, <3>5 DEF Queue, GiveBack, Move
    <3>6. QED
      BY <1>3, <3>2, <3>3, <3>4, <3>5 DEF Queue, Acquiring
  <2>2. act[r][0] = "none" /\ status[r] # "live"
    BY <1>2, <2>1 DEF Inv, RunOk, PlaceOk
  <2>3. QED
    BY <1>1, <1>2, <2>1, <2>2, StageKeeps
<1>4. ASSUME NEW r \in Run, Execute(r) PROVE Inv'
  BY <1>1, <1>2, <1>4, ExecuteKeeps
<1>5. ASSUME NEW r \in Run, EndOfBlock(r) PROVE Inv'
  <2>1. /\ LeaveBlock(r) /\ deaths' = deaths /\ demand' = demand
        /\ \A s \in Run \ {r} : stage'[s] = stage[s]
    BY <1>5 DEF EndOfBlock, LeaveBlock, Move, Types, SlotTypeOK
  <2>2. CASE Finish(r)
    BY <1>1, <1>2, <2>1, <2>2, FinishKeeps
  <2>3. CASE act[r][0] = "none" /\ status[r] # "live" /\ UNCHANGED ledgerVars
    BY <1>1, <1>2, <2>1, <2>3, StageKeeps
  <2>4. QED
    BY <1>5, <2>2, <2>3 DEF EndOfBlock
<1>6. ASSUME NEW r \in Run, Crash(r) PROVE Inv'
  <2>1. demand' = demand /\ \A s \in Run \ {r} : stage'[s] = stage[s]
    BY <1>6 DEF Crash, SlotCrash, Move, Types, SlotTypeOK
  <2>2. CASE status[r] = "live" \/ act[r][0] # "none"
    <3>1. LedgerCrash(r) /\ deaths' = deaths + 1
      BY <1>6, <2>2 DEF Crash
    <3>2. QED
      BY <1>1, <1>2, <2>1, <3>1, CrashKeeps
  <2>3. CASE ~(status[r] = "live" \/ act[r][0] # "none")
    <3>1. UNCHANGED <<ledgerVars, deaths>>
      BY <1>6, <2>3 DEF Crash
    <3>2. QED
      BY <1>1, <1>2, <2>1, <2>3, <3>1, StageKeeps
  <2>4. QED
    BY <2>2, <2>3
<1>7. CASE Tomorrow
  BY <1>1, <1>2, <1>7, MidnightKeeps
<1>8. CASE UNCHANGED vars
  BY <1>1, <1>2, <1>8, IdleKeeps
<1>9. QED
  BY <1>3, <1>4, <1>5, <1>6, <1>7, <1>8 DEF Next

LEMMA MoneyInit == ASSUME Init PROVE MoneyType /\ (Types => MoneyInv)
<1>1. /\ status = [r \in Run |-> "fresh"] /\ act = [r \in Run |-> [j \in Job |-> "none"]]
      /\ known = [r \in Run |-> 0] /\ saved = [r \in Run |-> 0] /\ extra = [r \in Run |-> 0]
      /\ waived = [r \in Run |-> {}] /\ why = [r \in Run |-> "none"]
      /\ book = Empty /\ today = 1 /\ excused = FALSE /\ deaths = 0
  BY DEF Init, LedgerInit, All
<1>2. MoneyType
  BY <1>1 DEF MoneyType, Statuses
<1>3. ASSUME Types, Governing PROVE Inv
  <2>0. Numbers
    BY <1>3, MoneyTypes DEF Types
  <2>1. ASSUME NEW r \in Run PROVE RunOk(r) /\ ZeroOk(r)
    <3>1. \A j \in Job : act[r][j] = "none"
      BY <1>1
    <3>2. /\ Still(r) /\ Loose(r) = {} /\ Holders(r) = {} /\ act[r][0] = "none"
          /\ \A t \in Task : act[r][t] = "none"
      BY <3>1, JobFacts DEF Still, Loose, Holders, Holding
    <3>3. Reserve(r) = 0 /\ Share \in Nat
      BY <1>1, <2>0, <3>2, PriceFacts DEF Reserve, Owed, Pos, Empty, Numbers
    <3>4. Cardinality(Holders(r)) <= Parallel
      BY <2>0, <3>2, FS_EmptySet, ShareType DEF Numbers
    <3>5. PlaceOk(r)
      BY <1>1, <3>2, <3>4 DEF PlaceOk
    <3>6. AskedOk(r)
      BY <3>1, <3>2 DEF AskedOk, Asking, Checks
    <3>7. MoneyOk(r)
      BY <1>1, <3>2, <3>3 DEF MoneyOk, Ended, Empty
    <3>8. ZeroOk(r)
      BY <1>1, <3>2 DEF ZeroOk, Empty, Asking, Checks
    <3>9. QED
      BY <3>5, <3>6, <3>7, <3>8 DEF RunOk
  <2>2. \A d \in 1..Days : book.day[d] = 0
    BY <1>1 DEF Empty
  <2>3. DeathsCounted
    <3>1. Dead = {}
      BY <1>1 DEF Dead
    <3>2. QED
      BY <1>1, <3>1, FS_EmptySet DEF DeathsCounted
  <2>4. CeilingHolds
    BY <1>3, <2>0, <2>2 DEF CeilingHolds, Governing, Numbers
  <2>5. QED
    BY <2>1, <2>2, <2>3, <2>4 DEF Inv, FutureEmpty, ZeroHolds
<1>4. QED
  BY <1>2, <1>3 DEF MoneyInv

\* The daily ceiling of check_envelope: of one provider's runs that race past it, with several steps
\* each, killed and resumed at any point, the leaves under way and what no check could see are all
\* that is booked over it.
THEOREM OvershootStaysBounded == Spec => []OvershootIsBounded
<1>1. Spec => [](SlotTypeOK /\ HoldInv)
  BY SlotInvariant
<1>2. Spec => []LedgerInv
  BY LimitsImplementLedger, LedgerInvariant, PTL
<1>3. Init => MoneyType /\ (Types => MoneyInv)
  BY MoneyInit
<1>4. LedgerInv /\ MoneyType /\ [Next]_vars => MoneyType'
  BY MoneyTypeStep
<1>5. Spec => []MoneyType
  BY <1>2, <1>3, <1>4, PTL DEF Spec
<1>6. Spec => []Types
  <2>1. SlotTypeOK /\ HoldInv /\ LedgerInv /\ MoneyType => Types
    BY DEF Types
  <2>2. QED
    BY <1>1, <1>2, <1>5, <2>1, PTL
<1>7. Types /\ Types' /\ MoneyInv /\ [Next]_vars => MoneyInv'
  BY MoneyInvStep
<1>8. Types /\ MoneyInv => OvershootIsBounded
  BY MoneyBounds
<1>9. QED
  BY <1>3, <1>6, <1>7, <1>8, PTL DEF Spec
=============================================================================
