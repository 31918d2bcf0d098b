--------------------------- MODULE ProviderOptions ---------------------------
(***************************************************************************)
(* What apply_policy (policy/apply.py) refuses, and what a raw             *)
(* provider_options block can still reach: the controls of policy files,   *)
(* workflow, steps, agent and machine (policy/controls.py), the checks     *)
(* over them (policy/enforce.py) and the merge each adapter does           *)
(* (providers/claude.py, codex.py).                                        *)
(*                                                                         *)
(* A tool entry is a pair: <<"mcp", "*">> and <<"web", "*">> are groups,   *)
(* <<"mcp", s>> a server.  Of a block only the kind of each key matters:   *)
(*   "inert"    allow-listed without a guard, or with a value that passes  *)
(*   "env", "user", "approval_mode", "usage_baseline"    guarded           *)
(*   "owned"    computed by the adapter, which ignores it                  *)
(*   "verbatim" any other, applied over what the adapter computed          *)
(***************************************************************************)
EXTENDS PolicyLayers

CONSTANTS
  Policies,  \* sets of policy layers
  Layers,    \* single policy files
  Agents,    \* [provider, model, access, allow, deny, network, mcp, capped]
  Workflows, \* [restricted, timed, capping, path, trusted]
  Machines,  \* [lockfile, owned (settings per provider), servers (of codex)]
  Blocks     \* [keys, servers]

ASSUME AgentsAssumption ==
  \A a \in Agents :
    a = [provider |-> a.provider, model |-> a.model, access |-> a.access, allow |-> a.allow,
         deny |-> a.deny, network |-> a.network, mcp |-> a.mcp, capped |-> a.capped]
\* A block's servers are what it has under its mcp_servers key.
ASSUME BlocksAssumption == \A b \in Blocks : b.servers # {} => "mcp_servers" \in b.keys

FullAccess == 2
AllMcp == <<"mcp", "*">>
Web    == <<"web", "*">>

ServersOf(entries) == {e[2] : e \in {x \in entries : x[1] = "mcp" /\ x # AllMcp}}

------------------------------------------------------------------------------
(* Controls: what each says about MCP servers *)

NoOpinion == [admits |-> {}, defines |-> {}, denies |-> {}, all |-> FALSE]

If(condition, control) == {c \in {control} : condition}

\* tool_entry_servers: a deny-list refuses, a non-empty allow-list means "nothing else".
Denying(entries) ==
  [NoOpinion EXCEPT !.denies = ServersOf(entries), !.all = AllMcp \in entries]
Allowing(entries) ==
  [NoOpinion EXCEPT !.admits = If(AllMcp \notin entries, ServersOf(entries))]

\* _mcp: the one control that also says what a server is.
Declaring(servers) == [NoOpinion EXCEPT !.admits = {servers}, !.defines = servers]

AgentControls(agent) ==
  If(agent.access # FullAccess \/ agent.network = "off" \/ agent.capped, NoOpinion)
    \union If(agent.deny # {}, Denying(agent.deny))
    \union If(agent.allow # {}, Allowing(agent.allow))
    \union If(agent.mcp # {}, Declaring(agent.mcp))

\* workflow_controls: isolation:, a cap under defaults:, a secret: input.
WorkflowControls(workflow) == If(workflow.restricted, NoOpinion)

\* step_controls: a timeout, or the caps of an included file, at the step or around it.
StepControls(workflow) ==
  If(\E path \in workflow.timed \union workflow.capping :
       /\ Len(path) <= Len(workflow.path)
       /\ path = SubSeq(workflow.path, 1, Len(path)),
     NoOpinion)

\* The servers every file that lists any allows.
Named(layers) ==
  {s \in UNION Said(layers, "servers") : InAll(s, Said(layers, "servers"))}

Opinion(layers, key) ==
  CASE key = "servers" -> [NoOpinion EXCEPT !.admits = {Named(layers)}]
    [] key = "tools"   -> Denying(Said(layers, "tools"))
    [] OTHER           -> NoOpinion

PolicyControls(layers) == {Opinion(layers, key) : key \in ControlKeys(layers)}

ExternalControls(machine, provider) ==
  If(machine.lockfile \/ provider \in machine.owned, NoOpinion)

ControlsOf(layers, agent, workflow, machine) ==
  PolicyControls(layers) \union WorkflowControls(workflow) \union StepControls(workflow)
    \union AgentControls(agent) \union ExternalControls(machine, agent.provider)

\* ServerControls.refusing: somebody denies it, nobody names any server, or a list leaves it out.
Refusing(controls, server) ==
  \/ \E c \in controls : c.all \/ server \in c.denies
  \/ LET lists == UNION {c.admits : c \in controls}
     IN  lists = {} \/ ~InAll(server, lists)

\* Mutant: a control that names a server is taken for one that says what it is.
DefiningByName(controls, server) == \E c \in controls : \E list \in c.admits : server \in list

\* ServerControls.defining
Defining(controls, server) == \E c \in controls : server \in c.defines

------------------------------------------------------------------------------
(* The checks: what is refused *)

AllowedOptions(provider) ==
  CASE provider = "claude" -> {"env", "mcp_servers", "user", "inert"}
    [] provider = "codex"  -> {"mcp_servers", "approval_mode", "usage_baseline", "inert"}
    [] OTHER               -> {}

\* _walk_options, _check_option_value and the guards: a key that is not on the list is refused,
\* and so is a guarded one that is not harmless.
OptionRefused(controls, provider, block, key) ==
  \/ key \notin AllowedOptions(provider)
  \/ key \in {"env", "user", "approval_mode", "usage_baseline"}
  \/ /\ key = "mcp_servers"
     /\ \E s \in block.servers : Refusing(controls, s) \/ ~Defining(controls, s)

\* Mutant: only a policy file, or the agent itself, turns the allow-list on.
GovernedByPolicy(layers, agent, workflow, machine) ==
  PolicyControls(layers) \union AgentControls(agent) # {}

\* ControlsInForce.governed
Governed(layers, agent, workflow, machine) ==
  ControlsOf(layers, agent, workflow, machine) # {}

\* check_provider_options
OptionsRefused(layers, agent, workflow, machine, block) ==
  /\ Governed(layers, agent, workflow, machine)
  /\ \E key \in block.keys :
       OptionRefused(ControlsOf(layers, agent, workflow, machine), agent.provider, block, key)

\* check_agent_controls: network: off against tools.allow: web.
Contradicts(agent) == agent.network = "off" /\ Web \in agent.allow

\* check_policy
PolicyRefuses(layers, agent, workflow) ==
  \/ ~InAll(agent.provider, Said(layers, "providers"))
  \/ agent.model \in Said(layers, "models")
  \/ AccessExceeded(layers, agent.access)
  \/ \E s \in agent.mcp \union ServersOf(agent.allow) \union ServersOf(agent.deny) :
       ~InAll(s, Said(layers, "servers"))
  \/ agent.allow \intersect Said(layers, "tools") # {}
  \/ ~workflow.trusted /\ \E layer \in layers : layer.trust

Accepted(layers, agent, workflow, machine, block) ==
  /\ ~OptionsRefused(layers, agent, workflow, machine, block)
  /\ ~Contradicts(agent)
  /\ ~PolicyRefuses(layers, agent, workflow)

\* The groups a provider can be told to deny; codex only has its web tools.
Enforceable(provider, entries) ==
  IF provider = "codex" THEN entries \intersect {Web} ELSE entries

\* _fold: tools.deny as the adapter gets it.
Folded(layers, agent) ==
  [agent EXCEPT !.deny = @ \union If(agent.network = "off", Web)
                           \union Enforceable(agent.provider, Said(layers, "tools"))]

------------------------------------------------------------------------------
(* The adapters: pairs of a server and who says what it is *)

From(servers, who) == {<<s, who>> : s \in servers}

\* build_options: the block under the agent's own; denying the whole group reaches only those.
ClaudeServers(agent, block) ==
  LET all == From(agent.mcp, "agent") \union From(block.servers \ agent.mcp, "block")
      own == IF AllMcp \in agent.deny THEN agent.mcp ELSE {}
  IN  {p \in all : p[1] \notin own \union ServersOf(agent.deny)}

\* _thread_kwargs: the block's table in place of the machine owner's, under the agent's own; an
\* entry about mcp ends the turn before it starts.
CodexServers(agent, machine, block) ==
  LET under == IF "mcp_servers" \in block.keys THEN From(block.servers, "block")
               ELSE From(machine.servers, "owner")
  IN  IF \E e \in agent.allow \union agent.deny : e[1] = "mcp" THEN {}
      ELSE {p \in under : p[1] \notin agent.mcp} \union From(agent.mcp, "agent")

Reached(layers, agent, machine, block) ==
  CASE agent.provider = "claude" -> ClaudeServers(Folded(layers, agent), block)
    [] agent.provider = "codex"  -> CodexServers(Folded(layers, agent), machine, block)
    [] OTHER                     -> {}

\* The keys an adapter acts on, beyond the servers; the others it ignores.
Applied(provider, block) ==
  block.keys \intersect (CASE provider = "claude" -> {"env", "user", "verbatim"}
                           [] provider = "codex" -> {"approval_mode", "usage_baseline", "verbatim"}
                           [] OTHER              -> {})

NoBlock == [keys |-> {}, servers |-> {}]

------------------------------------------------------------------------------

\* An agent under any control, of any source, is no freer with an accepted provider_options block
\* than without it: the block brings no server, and no definition of one, into the run that it
\* would not have, and no setting that no control's author has reasoned about.
OptionsWidenNothing ==
  \A layers \in Policies, agent \in Agents, workflow \in Workflows,
     machine \in Machines, block \in Blocks :
    /\ ControlsOf(layers, agent, workflow, machine) # {}
    /\ Accepted(layers, agent, workflow, machine, block)
    => /\ Reached(layers, agent, machine, block) \subseteq Reached(layers, agent, machine, NoBlock)
       /\ Applied(agent.provider, block) = {}

\* A policy file only ever makes a run less capable: what is accepted with it was accepted
\* without it, reached at least the same servers, and no approval became easier
\* (docs/policy.md; the limits on concurrent runs are PolicyLoad's).
LayersOnlyRestrict ==
  \A layers \in Policies, layer \in Layers :
    LET more == layers \union {layer} IN
    /\ \A agent \in Agents, workflow \in Workflows, machine \in Machines, block \in Blocks :
         Accepted(more, agent, workflow, machine, block) =>
           /\ Accepted(layers, agent, workflow, machine, block)
           /\ Reached(more, agent, machine, block) \subseteq Reached(layers, agent, machine, block)
    /\ \A class \in {c[1] : c \in Said(more, "classes")} :
         /\ MayApproveAutomatically(more, class) => MayApproveAutomatically(layers, class)
         /\ MayDecideOutOfBand(more, class) => MayDecideOutOfBand(layers, class)
==============================================================================
