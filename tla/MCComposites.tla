----------------------------- MODULE MCComposites -----------------------------
(***************************************************************************)
(* Three items or iterations over a body of three steps, one a cleanup.    *)
(***************************************************************************)
EXTENDS Composites

Chain(a, b, c) == [p \in Pos |-> IF p = 1 THEN a ELSE IF p = 2 THEN b ELSE c]

Base == [kind |-> "each", total |-> N, parallel |-> 0, what |-> Chain("leaf", "leaf", "leaf"),
         cleanup |-> {3}, lenient |-> FALSE, until |-> FALSE, reads |-> {}, sibling |-> "none",
         capped |-> FALSE, cancellable |-> FALSE]

Whats == {Chain("leaf", "stop", "leaf"), Chain("gate", "leaf", "leaf"),
          Chain("leaf", "leaf", "stop"), Chain("leaf", "stop", "gate")}

\* Items that fail, stop and pause beside each other.
EachPlans ==
  {[Base EXCEPT !.what = w, !.lenient = x[1], !.parallel = x[2]] :
     w \in Whats, x \in {<<TRUE, 0>>, <<FALSE, 2>>}}
  \union {[Base EXCEPT !.total = 0]}

\* A cap, a cancel or a sibling meets the items.
TornPlans ==
  {[Base EXCEPT !.total = 2, !.what = w, !.sibling = s, !.lenient = s = "stopped"] :
     w \in {Chain("leaf", "leaf", "leaf"), Chain("leaf", "stop", "gate")},
     s \in {"stopped", "paused", "failed"}}
  \union {[Base EXCEPT !.parallel = 2, !.capped = c, !.cancellable = ~c, !.lenient = l] :
            c \in BOOLEAN, l \in BOOLEAN}

\* Loops and includes, with what until: and outputs: refer to.
BodyPlans ==
  {[Base EXCEPT !.kind = k, !.what = w, !.until = u, !.lenient = l, !.reads = r,
                !.sibling = s, !.capped = s = "stopped", !.cancellable = TRUE] :
     k \in {"loop", "include"}, w \in {Chain("leaf", "leaf", "leaf"), Chain("gate", "stop", "leaf")},
     u \in BOOLEAN, l \in BOOLEAN, r \in {{}, {2}}, s \in {"none", "stopped"}}

SomePlans == EachPlans \union TornPlans \union BodyPlans
==============================================================================
