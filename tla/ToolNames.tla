------------------------------ MODULE ToolNames -------------------------------
(***************************************************************************)
(* Who offers a tool of a given name (agent/agui_server.py and             *)
(* agent/agui_view.py).  Five sources reach one agent by three roads: the  *)
(* @tool registry and the spec tools live on the agent, which the first    *)
(* run builds and every later one reuses; the MCP bridge, the attachment   *)
(* tool and the tool that reads the client's context are made again by     *)
(* every run, from the registry and the server as they are then; GET       *)
(* tools/ lists those two as they are, and the specs the constructor kept. *)
(* pydantic-ai refuses a run in which a name is offered twice, and         *)
(* django-spec-agents a spec that declares no permissions.                 *)
(*                                                                         *)
(* An endpoint with an agent_factory, which takes construction over, and   *)
(* toolsets= and capabilities= of the project's own are left out.          *)
(***************************************************************************)
EXTENDS Naturals, FiniteSets

CONSTANTS
    Names,
    MaxLate,          \* bound: how many names are registered late
    ReadAttachment,   \* "read_attachment"
    ClientContext     \* "get_client_context"

ToolNamesAssumption == {ReadAttachment, ClientContext} \subseteq Names /\ MaxLate \in Nat

VARIABLES
    registry,   \* names of the @tool registry
    server,     \* names of the MCP server, {} also when there is none
    shape,      \* what was passed as service_specs=
    source,     \* its names
    bare,       \* those of its specs that declare no permissions
    uploads,    \* an attachment store is configured
    phase,
    specs,      \* _service_specs, the names flattened at construction
    agent,      \* the built agent: none, or the one of its tools and spec tools
    run,        \* the last run's toolsets
    late        \* history: what each source was given once the endpoint stood

vars == <<registry, server, shape, source, bare, uploads, phase, specs, agent, run, late>>
passed == <<shape, uploads>>

Sources == {"registry", "mcp", "specs", "attachments", "context"}
Growing == {"registry", "mcp", "specs"}
Nothing == [s \in Sources |-> {}]
Agents == [tools : SUBSET Names, specs : SUBSET Names]

TypeOK ==
    /\ {registry, server, source, specs} \subseteq SUBSET Names
    /\ bare \subseteq Names
    /\ shape \in {"none", "mapping", "registry", "built"}
    /\ uploads \in BOOLEAN
    /\ phase \in {"new", "refused", "serving"}
    /\ agent \in {{}} \union {{a} : a \in Agents}
    /\ run \in [Sources -> SUBSET Names]
    /\ late \in [Growing -> SUBSET Names]
    /\ run # Nothing => agent # {}

Init ==
    /\ registry \in SUBSET Names /\ server \in SUBSET Names
    /\ shape \in {"none", "mapping", "registry", "built"}
    /\ source \in IF shape = "none" THEN {{}} ELSE SUBSET Names
    /\ bare \in SUBSET source
    /\ uploads \in BOOLEAN
    /\ phase = "new" /\ specs = {} /\ agent = {} /\ run = Nothing
    /\ late = [s \in Growing |-> {}]

-----------------------------------------------------------------------------
\* _resolve_spec_source: names, whatever the shape.
Flatten(s) == s

\* _reject_spec_name_collisions: a pre-built toolset cannot be narrowed.
Clashes(s) == shape = "built" /\ s \intersect (registry \union server) # {}

\* _reject_unguarded_specs: a pre-built toolset has decided for itself.
Unguarded(s) == shape \in {"mapping", "registry"} /\ s \intersect bare # {}

Construct ==
    LET s == Flatten(source)
    IN  /\ phase = "new"
        /\ phase' = IF Unguarded(s) \/ Clashes(s) THEN "refused" ELSE "serving"
        /\ specs' = s
        /\ UNCHANGED <<passed, registry, server, source, bare, agent, run, late>>

\* The registries are the project's, and may grow while the endpoint serves.
Grow(s, n) ==
    /\ phase = "serving"
    /\ Cardinality(late["registry"]) + Cardinality(late["mcp"]) + Cardinality(late["specs"]) < MaxLate
    /\ late' = [late EXCEPT ![s] = @ \union {n}]
    /\ UNCHANGED <<passed, phase, specs, agent, run>>

RegisterTool(n) ==
    /\ n \notin registry
    /\ registry' = registry \union {n}
    /\ Grow("registry", n)
    /\ UNCHANGED <<server, source, bare>>

RegisterMcp(n) ==
    /\ n \notin server
    /\ server' = server \union {n}
    /\ Grow("mcp", n)
    /\ UNCHANGED <<registry, source, bare>>

\* A SpecRegistry takes a spec that declares permissions or one that declares none.
Register(n) ==
    /\ shape = "registry" /\ n \notin source
    /\ source' = source \union {n}
    /\ bare' \in {bare, bare \union {n}}
    /\ Grow("specs", n)
    /\ UNCHANGED <<registry, server>>

-----------------------------------------------------------------------------
\* _claimed_names: what a spec tool must not be called.
ClaimedNames == registry \union server

(* A registry reaches the builder whole.                                   *)
SpecToolsWhole ==
    CASE shape = "built"    -> specs
      [] shape = "registry" -> source
      [] OTHER              -> specs \ ClaimedNames

\* _spec_capabilities: a pre-built one as it is, any other narrowed; built
\* from the registry itself where one was passed, else from the flat names.
SpecTools ==
    CASE shape = "built"    -> specs
      [] shape = "registry" -> source \ ClaimedNames
      [] OTHER              -> specs \ ClaimedNames

\* _agent and _build_agent: of the @tool registry and the specs as they are then.
Agent ==
    IF agent = {} THEN [tools |-> registry, specs |-> SpecTools]
    ELSE CHOOSE a \in agent : TRUE

\* _mcp_toolsets and _attachment_toolsets, given the names seen before them.
McpTools(seen) == server \ seen

AttachmentTools(seen) ==
    IF uploads /\ ReadAttachment \notin seen THEN {ReadAttachment} ELSE {}

\* The session's own, where the context goes by tool and there is some: it is
\* held against no other name.
ContextTools(asked) == IF asked THEN {ClientContext} ELSE {}

(* The bridge is handed the claimed names, its own among them.             *)
RunToolsetsClaimed(asked) ==
    [s \in Sources |->
        CASE s = "registry"    -> Agent.tools
          [] s = "mcp"         -> McpTools(ClaimedNames)
          [] s = "specs"       -> Agent.specs
          [] s = "attachments" -> AttachmentTools(ClaimedNames \union specs)
          [] OTHER             -> ContextTools(asked)]

(* The specs' names are not reserved.                                      *)
RunToolsetsUnreserved(asked) ==
    [s \in Sources |->
        CASE s = "registry"    -> Agent.tools
          [] s = "mcp"         -> McpTools(registry)
          [] s = "specs"       -> Agent.specs
          [] s = "attachments" -> AttachmentTools(ClaimedNames)
          [] OTHER             -> ContextTools(asked)]

\* What the agent carries, and _run_toolsets beside it.
RunToolsets(asked) ==
    [s \in Sources |->
        CASE s = "registry"    -> Agent.tools
          [] s = "mcp"         -> McpTools(registry)
          [] s = "specs"       -> Agent.specs
          [] s = "attachments" -> AttachmentTools(ClaimedNames \union specs)
          [] OTHER             -> ContextTools(asked)]

\* SpecCapability, built with the agent, refuses what it is narrowed to.
Refused == agent = {} /\ Unguarded(SpecTools)

Run(asked) ==
    /\ phase = "serving"
    /\ \/ Refused /\ UNCHANGED <<agent, run>>
       \/ ~Refused /\ agent' = {Agent} /\ run' = RunToolsets(asked)
    /\ UNCHANGED <<passed, registry, server, source, bare, phase, specs, late>>

\* GET tools/: build_tool_catalog, of the registries and the flat specs.
Catalog ==
    [s \in Sources |->
        CASE s = "registry"    -> registry
          [] s = "mcp"         -> server \ registry
          [] s = "specs"       -> specs \ (registry \union server)
          [] OTHER             -> {}]

Next ==
    \/ Construct
    \/ \E n \in Names : RegisterTool(n) \/ RegisterMcp(n) \/ Register(n)
    \/ \E asked \in BOOLEAN : Run(asked)

Spec == Init /\ [][Next]_vars

-----------------------------------------------------------------------------
\* The names a source has been given.
Configured(s) ==
    CASE s = "registry"    -> registry
      [] s = "mcp"         -> server
      [] s = "specs"       -> source
      [] s = "attachments" -> IF uploads THEN {ReadAttachment} ELSE {}

Owners == {"registry", "mcp", "specs", "attachments"}

Earlier(s) ==
    CASE s = "registry"    -> {}
      [] s = "mcp"         -> {"registry"}
      [] s = "specs"       -> {"registry", "mcp"}
      [] s = "attachments" -> {"registry", "mcp", "specs"}

\* The names no source was given late ("every name here is fixed at
\* construction").
Fixed == Names \ UNION {late[s] : s \in Growing}

(* "Registry, MCP server, spec, attachment": in every run each name that   *)
(* was there from the start is offered, once, by the first source that has *)
(* it; so no run fails on a duplicate and no source is left empty.         *)
OwnedByTheFirst ==
    agent # {} =>
        \A s \in Owners :
            run[s] \intersect Fixed =
                (Configured(s) \ UNION {Configured(t) : t \in Earlier(s)}) \intersect Fixed

(* The catalog labels the tools the agent can wield, each under the source *)
(* that runs it ("so the catalog lists the tools this endpoint's agent can *)
(* actually wield").                                                       *)
CatalogueAgrees ==
    agent # {} =>
        \A s \in {"registry", "mcp", "specs"} :
            run[s] \intersect Fixed = Catalog[s] \intersect Fixed

(* Whatever is registered late, and whenever: a spec that declares no      *)
(* permissions is offered by no run ("nothing gates these calls and the    *)
(* model can make any of them"), and a run offers a name twice only if it  *)
(* is the context tool's, which is the caller's to keep free, or was given *)
(* late: to the MCP server, beside the agent's spec tool; to the specs,    *)
(* beside the attachment tool; or to the @tool registry, beside a          *)
(* pre-built toolset's.                                                    *)
GrowthIsHarmless ==
    agent # {} =>
        /\ shape # "built" => run["specs"] \intersect bare = {}
        /\ \A s, t \in Sources : \A n \in run[s] \intersect run[t] :
              s # t => \/ n = ClientContext
                       \/ n \in late["mcp"]
                       \/ n = ReadAttachment /\ n \in late["specs"]
                       \/ shape = "built" /\ n \in late["registry"]
=============================================================================
