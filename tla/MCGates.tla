------------------------------- MODULE MCGates -------------------------------
(***************************************************************************)
(* Two gates and the policy that binds them: apply_policy runs before      *)
(* every process of a run, and one of the classes it judges the gates by   *)
(* requires a terminal.                                                    *)
(***************************************************************************)
EXTENDS GovernedRun, TLC

CONSTANTS g1, g2

Both == {g1, g2}

\* g1 is of a class two files name, of which neither requires a terminal; g2 of one that does.
ClassOf == (g1 :> "ship") @@ (g2 :> "release")
Approvals ==
  {[NoPolicy EXCEPT !.classes = {<<"ship", TRUE, FALSE>>, <<"release", TRUE, FALSE>>}],
   [NoPolicy EXCEPT !.classes = {<<"ship", TRUE, FALSE>>, <<"release", TRUE, TRUE>>}]}
HeldGates == {g \in Both : ~MayDecideOutOfBand(Approvals, ClassOf[g])}

------------------------------------------------------------------------------

SomeLayers ==
  {[NoPolicy EXCEPT !.servers = {{"github"}}], [NoPolicy EXCEPT !.servers = {{}}],
   [NoPolicy EXCEPT !.tools = {<<"mcp", "github">>}], [NoPolicy EXCEPT !.tools = {AllMcp}],
   [NoPolicy EXCEPT !.access = {1}], [NoPolicy EXCEPT !.providers = {{"claude"}}],
   [NoPolicy EXCEPT !.trust = TRUE]}
    \union Approvals
SomePolicies == {{}} \union {{l} : l \in SomeLayers}

Agent == [provider |-> "claude", model |-> "m", access |-> FullAccess, allow |-> {}, deny |-> {},
          network |-> "on", mcp |-> {}, capped |-> FALSE]
SomeAgents ==
  {[Agent EXCEPT !.provider = p, !.mcp = m, !.deny = d, !.allow = a] :
     p \in {"claude", "codex", "stub"}, m \in {{}, {"github"}, {"github", "jira"}},
     d \in {{}, {AllMcp}, {<<"mcp", "jira">>}}, a \in {{}, {<<"mcp", "github">>}}}
    \union {[Agent EXCEPT !.network = "off", !.allow = a] : a \in {{}, {Web}}}
    \union {[Agent EXCEPT !.access = 0], [Agent EXCEPT !.capped = TRUE]}

Workflow == [restricted |-> FALSE, timed |-> {}, capping |-> {}, path |-> <<"inc", "ask">>,
             trusted |-> TRUE]
SomeWorkflows ==
  {Workflow, [Workflow EXCEPT !.restricted = TRUE, !.trusted = FALSE],
   [Workflow EXCEPT !.capping = {<<"inc">>}]}

SomeMachines ==
  {[lockfile |-> FALSE, owned |-> {}, servers |-> {}],
   [lockfile |-> FALSE, owned |-> {"codex"}, servers |-> {"wiki"}]}

SomeBlocks ==
  {NoBlock} \union {[keys |-> {"mcp_servers"}, servers |-> s] : s \in SUBSET {"github", "jira"}}
    \union {[keys |-> {"inert", k}, servers |-> {}] :
              k \in {"env", "user", "approval_mode", "usage_baseline", "owned", "verbatim"}}
==============================================================================
