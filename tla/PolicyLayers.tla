---------------------------- MODULE PolicyLayers ----------------------------
(***************************************************************************)
(* policy.yaml layers and how they combine (policy/model.py, layers.py),   *)
(* with the two readers of the result outside the policy package:          *)
(* limits/policy.py and engine/approval_classes.py.                        *)
(*                                                                         *)
(* A key a layer leaves out is the empty set, one it sets the singleton of *)
(* its value; provenance (which file, which line) is left out.             *)
(***************************************************************************)
EXTENDS Integers, Sequences, FiniteSets, FiniteSetsExt

\* One policy.yaml.  ceilings: budget.*, the workspace caps, max_consecutive_failures.
NoPolicy == [providers |-> {}, models |-> {}, access |-> {}, tools |-> {}, servers |-> {},
             ceilings |-> {}, slots |-> {}, classes |-> {}, trust |-> FALSE]

\* What any layer says under a key: deny-lists unite, the rest is judged by all of it.
Said(layers, key) == UNION {layer[key] : layer \in layers}

\* providers.allow, mcp.allow_servers: intersected, and no list is no restriction.
InAll(x, lists) == \A list \in lists : x \in list

\* access.max, by rank: the lowest one.
AccessExceeded(layers, rank) == \E max \in Said(layers, "access") : rank > max

------------------------------------------------------------------------------
(* max_concurrent_runs: pairs of a provider, or of "*", and a limit *)

\* EffectivePolicy.max_concurrent_runs: the smallest limit under each name.
MaxConcurrentRuns(layers) ==
  [name \in {s[1] : s \in Said(layers, "slots")} |->
     Min({s[2] : s \in {t \in Said(layers, "slots") : t[1] = name}})]

\* limits_for: at most one limit for a provider.
LimitsFor(limits, provider) ==
  IF provider \in DOMAIN limits THEN {limits[provider]}
  ELSE IF "*" \in DOMAIN limits THEN {limits["*"]} ELSE {}

------------------------------------------------------------------------------
(* approvals.classes: triples of a name, allow_yes and require_tty *)

\* EffectivePolicy.approvals and rules_for: the narrow side of every layer, or the default.
RulesFor(layers, class) ==
  LET rules == {c \in Said(layers, "classes") : c[1] = class}
  IN  [allow_yes |-> \A c \in rules : c[2], require_tty |-> \E c \in rules : c[3]]

MayApproveAutomatically(layers, class) ==
  RulesFor(layers, class).allow_yes /\ ~RulesFor(layers, class).require_tty

MayDecideOutOfBand(layers, class) == ~RulesFor(layers, class).require_tty

\* _held_classes: the classes a layer takes an approval path from.
Held(layer) == {c \in layer.classes : ~c[2] \/ c[3]}

------------------------------------------------------------------------------

\* control_sources: the keys under which any layer restricts anything.
ControlKeys(layers) ==
  {key \in {"providers", "models", "access", "tools", "servers", "ceilings", "slots"} :
     Said(layers, key) # {}}
    \union (IF \E layer \in layers : layer.trust THEN {"trust"} ELSE {})
    \union (IF \E layer \in layers : Held(layer) # {} THEN {"classes"} ELSE {})
==============================================================================
