---------------------------- MODULE MCPolicyLoad ----------------------------
(***************************************************************************)
(* Three paths, of which two candidates may name the same one; layers that *)
(* limit every provider, one of them or none.                              *)
(***************************************************************************)
EXTENDS PolicyLoad

Limits == {{}, {<<"*", 1>>}, {<<"claude", 2>>}, {<<"*", 2>>, <<"claude", 1>>}}

SomeContents ==
  {[is |-> "missing"], [is |-> "unusable"]}
    \union {[is |-> "policy", layer |-> [NoPolicy EXCEPT !.slots = slots]] : slots \in Limits}

SomePaths == 1..3
Providers == {"claude", "codex"}
==============================================================================
