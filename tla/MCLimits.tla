------------------------------ MODULE MCLimits ------------------------------
(***************************************************************************)
(* Three runs queue for two providers without an envelope; two of them     *)
(* spend under one, at once or one after the other; or one does, with two  *)
(* steps at once.                                                          *)
(***************************************************************************)
EXTENDS Limits, TLC

CONSTANTS r1, r2, r3

Three == {r1, r2, r3}

\* What the runs ask for: limit a of provider 1 and b of provider 2.
Both(a, b) == 1 :> a @@ 2 :> b
Asks(f, wait) == [r \in Run |-> [limit |-> f[r], wait |-> wait]]
Each(limit)   == Asks([r \in Run |-> 1 :> limit], "forever")

\* The ceilings of a policy; how many steps a run has at once, as many as it has permits; the bounds.
Cap(run, day, streak, steps, days, most, entries) ==
  [run |-> run, day |-> day, streak |-> streak, parallel |-> steps, steps |-> steps,
   days |-> days, most |-> most, entries |-> entries]
Times(a, b, c) == r1 :> a @@ r2 :> b @@ r3 :> c
U == Uncapped

\* Two runs that name the same pair of providers, and one that competes for the second of them.
Queued  == Asks(r1 :> Both(1, 1) @@ r2 :> Both(1, 1) @@ r3 :> (2 :> 2), "forever")
\* The same, by runs that do not wait; a limit of two seen by some and of one by others.
Hurried == [Asks(r1 :> Both(1, 2) @@ r2 :> Both(1, 2) @@ r3 :> (2 :> 1), "none")
              EXCEPT ![r2].wait = "deadline"]

Queues == {Queued, Hurried} \X {Cap(U, U, U, 1, 1, 0, Times(1, 1, 1))}

\* Two runs at once, or one after the other; the first may be resumed.
Pair     == Times(2, 1, 0)
Spenders == ({Each(1)} \X {Cap(U, 1, U, 1, 1, 2, Pair), Cap(1, 2, 1, 1, 1, 2, Pair)})
              \union ({Each(2)} \X {Cap(U, 1, U, 1, 2, 1, Pair), Cap(U, 0, U, 1, 1, 2, Pair)})

\* One run, with several steps at once.
Alone    == Times(1, 0, 0)
Stepping == {Each(1)} \X {Cap(U, 1, U, 2, 1, 4, Alone), Cap(U, 1, U, 2, 2, 3, Alone)}

SomePolicies == Queues \union Spenders \union Stepping
SomeDemands  == {policy[1] : policy \in SomePolicies}
SomeCaps     == {policy[2] : policy \in SomePolicies}
==============================================================================
