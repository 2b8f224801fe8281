------------------------------ MODULE ReadsProofs ------------------------------
(***************************************************************************)
(* What is proved of MCReads for any names, runs and limit: whose tool a   *)
(* name is, however late the project's registries grow; that the index of   *)
(* runs is the newest of them, newest first, whatever starts meanwhile;    *)
(* that each of its rows is named by its own run's question; and that a    *)
(* thread read back with its activities is what the client had on screen.  *)
(***************************************************************************)
EXTENDS MCReads, SequenceLemmas

-----------------------------------------------------------------------------
(* Tools.                                                                  *)

\* What a serving endpoint's constructor has seen to, of what it was given
\* then; a source has what it was given then and late.
Constructed ==
    /\ specs \subseteq source /\ source \ specs \subseteq late["specs"]
    /\ shape # "registry" => source = specs
    /\ shape # "built" => specs \intersect bare = {}
    /\ shape = "built" => /\ specs \intersect registry \subseteq late["registry"]
                         /\ specs \intersect server \subseteq late["mcp"]
    /\ late["registry"] \subseteq registry /\ late["mcp"] \subseteq server
    /\ late["specs"] \intersect specs = {}

\* What the agent was built of: the tools and the spec tools there were, and
\* perhaps some registered since, all of them guarded, and of the spec tools
\* none that was called like another source's.
BuiltOf(tools, own) ==
    /\ registry \ late["registry"] \subseteq tools /\ tools \subseteq registry
    /\ specs \ Tools!ClaimedNames \subseteq own /\ own \subseteq source
    /\ own \intersect registry \subseteq late["registry"]
    /\ own \intersect server \subseteq late["mcp"]
    /\ shape # "built" => own \intersect tools = {} /\ own \intersect bare = {}

\* What a run was given besides: nothing an earlier source has had from the
\* start, and nothing left out that no earlier source has.
GivenRun(tools, bridge, files) ==
    /\ bridge \subseteq server /\ bridge \intersect tools = {}
    /\ bridge \intersect registry \subseteq late["registry"]
    /\ server \ registry \subseteq bridge \union late["mcp"]
    /\ files \subseteq {ReadAttachment} /\ (files # {} => uploads)
    /\ files \intersect tools = {} /\ files \intersect bridge = {} /\ files \intersect specs = {}
    /\ files \intersect registry \subseteq late["registry"]
    /\ files \intersect server \subseteq late["mcp"]
    /\ uploads /\ ReadAttachment \notin registry \union server \union specs => files = {ReadAttachment}

RunInv ==
    agent # {} =>
        /\ agent = {[tools |-> run["registry"], specs |-> run["specs"]]}
        /\ BuiltOf(run["registry"], run["specs"])
        /\ GivenRun(run["registry"], run["mcp"], run["attachments"])
        /\ run["context"] \subseteq {ClientContext}

ToolsInv ==
    /\ Tools!TypeOK
    /\ bare \subseteq source
    /\ shape = "none" => source = {}
    /\ phase # "serving" => agent = {} /\ run = Tools!Nothing
    /\ phase = "new" => late = [s \in Tools!Growing |-> {}]
    /\ phase = "serving" => Constructed
    /\ RunInv

\* An endpoint that is still to be constructed.
LEMMA ToolsStart == Tools!Init => ToolsInv
<1> SUFFICES ASSUME Tools!Init PROVE ToolsInv
  OBVIOUS
<1>1. source \subseteq Names
  BY DEF Tools!Init
<1>2. Tools!TypeOK
  BY <1>1 DEF Tools!Init, Tools!TypeOK, Tools!Nothing, Tools!Sources
<1>3. QED BY <1>2 DEF Tools!Init, ToolsInv, RunInv

\* What the constructor does not refuse is guarded and apart.
LEMMA ConstructKeeps == ASSUME ToolsInv, Tools!Construct PROVE ToolsInv'
<1>1. /\ phase = "new" /\ specs' = source
      /\ phase' = IF Tools!Unguarded(source) \/ Tools!Clashes(source) THEN "refused" ELSE "serving"
      /\ UNCHANGED <<registry, server, shape, uploads, source, bare, agent, run, late>>
  BY DEF Tools!Construct, Tools!Flatten, Tools!passed
<1>2. agent = {} /\ run = Tools!Nothing /\ late = [s \in Tools!Growing |-> {}]
  BY <1>1 DEF ToolsInv
<1>3. Tools!TypeOK'
  BY <1>1, <1>2 DEF ToolsInv, Tools!TypeOK, Tools!Nothing, Tools!Sources
<1>4. phase' = "serving" => Constructed'
  <2>1. late["registry"] = {} /\ late["mcp"] = {} /\ late["specs"] = {}
    BY <1>2 DEF Tools!Growing
  <2>2. QED BY <1>1, <2>1 DEF ToolsInv, Constructed, Tools!Unguarded, Tools!Clashes, Tools!TypeOK
<1>5. QED BY <1>1, <1>2, <1>3, <1>4 DEF ToolsInv, RunInv, Tools!Nothing, Tools!Sources

\* What is registered late is called so, and is with the agent only if it was
\* there when the agent was built.
LEMMA GrowthKeeps ==
    ASSUME ToolsInv, NEW n \in Names, Tools!RegisterTool(n) \/ Tools!RegisterMcp(n) \/ Tools!Register(n)
    PROVE  ToolsInv'
<1>1. /\ phase = "serving"
      /\ UNCHANGED <<shape, uploads, phase, specs, agent, run>>
  BY DEF Tools!RegisterTool, Tools!RegisterMcp, Tools!Register, Tools!Grow, Tools!passed
<1>2. Tools!TypeOK /\ Constructed /\ late \in [Tools!Growing -> SUBSET Names]
  BY <1>1 DEF ToolsInv, Tools!TypeOK
<1>3. CASE Tools!RegisterTool(n)
  <2>1. /\ n \notin registry /\ registry' = registry \union {n}
        /\ UNCHANGED <<server, source, bare>>
        /\ late' = [late EXCEPT !["registry"] = @ \union {n}]
    BY <1>3 DEF Tools!RegisterTool, Tools!Grow
  <2>2. /\ late'["registry"] = late["registry"] \union {n}
        /\ late'["mcp"] = late["mcp"] /\ late'["specs"] = late["specs"]
        /\ late' \in [Tools!Growing -> SUBSET Names]
    BY <1>2, <2>1 DEF Tools!Growing
  <2>3. Tools!TypeOK'
    BY <1>1, <1>2, <2>1, <2>2 DEF Tools!TypeOK
  <2>4. Constructed'
    BY <1>1, <1>2, <2>1, <2>2 DEF Constructed
  <2>5. BuiltOf(run["registry"], run["specs"]) => BuiltOf(run["registry"], run["specs"])'
    BY <1>1, <1>2, <2>1, <2>2 DEF BuiltOf, Constructed, Tools!ClaimedNames
  <2>6. GivenRun(run["registry"], run["mcp"], run["attachments"])
           => GivenRun(run["registry"], run["mcp"], run["attachments"])'
    BY <1>1, <1>2, <2>1, <2>2 DEF GivenRun, Constructed
  <2>7. RunInv'
    BY <1>1, <2>5, <2>6 DEF ToolsInv, RunInv
  <2>8. QED BY <1>1, <2>1, <2>3, <2>4, <2>7 DEF ToolsInv
<1>4. CASE Tools!RegisterMcp(n)
  <2>1. /\ n \notin server /\ server' = server \union {n}
        /\ UNCHANGED <<registry, source, bare>>
        /\ late' = [late EXCEPT !["mcp"] = @ \union {n}]
    BY <1>4 DEF Tools!RegisterMcp, Tools!Grow
  <2>2. /\ late'["mcp"] = late["mcp"] \union {n}
        /\ late'["registry"] = late["registry"] /\ late'["specs"] = late["specs"]
        /\ late' \in [Tools!Growing -> SUBSET Names]
    BY <1>2, <2>1 DEF Tools!Growing
  <2>3. Tools!TypeOK'
    BY <1>1, <1>2, <2>1, <2>2 DEF Tools!TypeOK
  <2>4. Constructed'
    BY <1>1, <1>2, <2>1, <2>2 DEF Constructed
  <2>5. BuiltOf(run["registry"], run["specs"]) => BuiltOf(run["registry"], run["specs"])'
    BY <1>1, <1>2, <2>1, <2>2 DEF BuiltOf, Constructed, Tools!ClaimedNames
  <2>6. GivenRun(run["registry"], run["mcp"], run["attachments"])
           => GivenRun(run["registry"], run["mcp"], run["attachments"])'
    BY <1>1, <1>2, <2>1, <2>2 DEF GivenRun, Constructed
  <2>7. RunInv'
    BY <1>1, <2>5, <2>6 DEF ToolsInv, RunInv
  <2>8. QED BY <1>1, <2>1, <2>3, <2>4, <2>7 DEF ToolsInv
<1>5. CASE Tools!Register(n)
  <2>1. /\ shape = "registry" /\ n \notin source
        /\ source' = source \union {n} /\ bare' \in {bare, bare \union {n}}
        /\ UNCHANGED <<registry, server>>
        /\ late' = [late EXCEPT !["specs"] = @ \union {n}]
    BY <1>5 DEF Tools!Register, Tools!Grow
  <2>2. /\ late'["specs"] = late["specs"] \union {n}
        /\ late'["registry"] = late["registry"] /\ late'["mcp"] = late["mcp"]
        /\ late' \in [Tools!Growing -> SUBSET Names]
    BY <1>2, <2>1 DEF Tools!Growing
  <2>3. Tools!TypeOK'
    BY <1>1, <1>2, <2>1, <2>2 DEF Tools!TypeOK
  <2>4. Constructed'
    BY <1>1, <1>2, <2>1, <2>2 DEF Constructed
  <2>5. BuiltOf(run["registry"], run["specs"]) => BuiltOf(run["registry"], run["specs"])'
    BY <1>1, <1>2, <2>1, <2>2 DEF BuiltOf, Constructed, Tools!ClaimedNames
  <2>6. GivenRun(run["registry"], run["mcp"], run["attachments"])
           => GivenRun(run["registry"], run["mcp"], run["attachments"])'
    BY <1>1, <1>2, <2>1, <2>2 DEF GivenRun
  <2>7. RunInv'
    BY <1>1, <2>5, <2>6 DEF ToolsInv, RunInv
  <2>8. bare' \subseteq source'
    BY <2>1 DEF ToolsInv
  <2>9. QED BY <1>1, <2>1, <2>3, <2>4, <2>7, <2>8 DEF ToolsInv
<1>6. QED BY <1>3, <1>4, <1>5

\* What a builder is narrowed to, where it is not refused.
LEMMA SpecToolsGuarded ==
    ASSUME ToolsInv, phase = "serving", ~Tools!Unguarded(Tools!SpecTools)
    PROVE  BuiltOf(registry, Tools!SpecTools)
<1>1. Constructed /\ shape \in {"none", "mapping", "registry", "built"}
  BY DEF ToolsInv, Tools!TypeOK
<1>2. CASE shape = "built"
  BY <1>1, <1>2 DEF BuiltOf, Tools!SpecTools, Tools!ClaimedNames, Constructed
<1>3. CASE shape = "registry"
  BY <1>1, <1>3 DEF BuiltOf, Tools!SpecTools, Tools!ClaimedNames, Constructed, Tools!Unguarded
<1>4. CASE shape \in {"none", "mapping"}
  BY <1>1, <1>4 DEF BuiltOf, Tools!SpecTools, Tools!ClaimedNames, Constructed
<1>5. QED BY <1>1, <1>2, <1>3, <1>4

\* The first run builds the agent; every run makes its other toolsets anew.
LEMMA RunKeeps == ASSUME ToolsInv, NEW asked \in BOOLEAN, Tools!Run(asked) PROVE ToolsInv'
<1>1. /\ phase = "serving" /\ Constructed /\ Tools!TypeOK
      /\ UNCHANGED <<registry, server, shape, uploads, source, bare, phase, specs, late>>
  BY DEF Tools!Run, Tools!passed, ToolsInv
<1>2. CASE UNCHANGED <<agent, run>>
  BY <1>1, <1>2 DEF ToolsInv, Tools!TypeOK, Constructed, Tools!ClaimedNames, RunInv, BuiltOf,
     GivenRun, Tools!Nothing, Tools!Sources
<1>3. CASE ~Tools!Refused /\ agent' = {Tools!Agent} /\ run' = Tools!RunToolsets(asked)
  <2> DEFINE tools == Tools!Agent.tools
             own == Tools!Agent.specs
  <2>1. BuiltOf(tools, own) /\ Tools!Agent = [tools |-> tools, specs |-> own]
    <3>1. CASE agent = {}
      <4>1. Tools!Agent = [tools |-> registry, specs |-> Tools!SpecTools]
        BY <3>1 DEF Tools!Agent
      <4>2. BuiltOf(registry, Tools!SpecTools)
        BY <1>1, <1>3, <3>1, SpecToolsGuarded DEF Tools!Refused
      <4>3. QED BY <4>1, <4>2
    <3>2. CASE agent # {}
      <4>1. Tools!Agent \in agent
        BY <3>2 DEF Tools!Agent
      <4>2. Tools!Agent = [tools |-> run["registry"], specs |-> run["specs"]]
        BY <3>2, <4>1 DEF ToolsInv, RunInv
      <4>3. BuiltOf(run["registry"], run["specs"])
        BY <3>2 DEF ToolsInv, RunInv
      <4>4. QED BY <4>2, <4>3
    <3>3. QED BY <3>1, <3>2
  <2>2. /\ run'["registry"] = tools
        /\ run'["mcp"] = server \ registry
        /\ run'["specs"] = own
        /\ run'["attachments"] = Tools!AttachmentTools(Tools!ClaimedNames \union specs)
        /\ run'["context"] = Tools!ContextTools(asked)
    BY <1>3 DEF Tools!RunToolsets, Tools!Sources, Tools!McpTools
  <2> HIDE DEF tools, own
  <2>3. BuiltOf(run["registry"], run["specs"])'
    BY <1>1, <2>1, <2>2 DEF BuiltOf, Tools!ClaimedNames
  <2>4. GivenRun(run["registry"], run["mcp"], run["attachments"])'
    BY <1>1, <2>1, <2>2 DEF GivenRun, BuiltOf, Tools!AttachmentTools, Tools!ClaimedNames
  <2>5. RunInv'
    BY <1>3, <2>1, <2>2, <2>3, <2>4 DEF RunInv, Tools!ContextTools
  <2>6. Tools!TypeOK'
    <3>1. tools \in SUBSET Names /\ own \in SUBSET Names
      BY <1>1, <2>1 DEF BuiltOf, Tools!TypeOK
    <3>2. run' \in [Tools!Sources -> SUBSET Names]
      <4>1. \A s \in Tools!Sources : run'[s] \subseteq Names
        BY <1>1, <2>2, <3>1, ToolsAssumption DEF Tools!Sources, Tools!TypeOK,
           Tools!AttachmentTools, Tools!ContextTools, Tools!ToolNamesAssumption
      <4>2. run' = [s \in Tools!Sources |-> run'[s]]
        BY <1>3 DEF Tools!RunToolsets
      <4>3. QED BY <4>1, <4>2
    <3>3. Tools!Agent \in Tools!Agents
      BY <2>1, <3>1 DEF Tools!Agents
    <3>4. QED BY <1>1, <1>3, <3>2, <3>3 DEF Tools!TypeOK
  <2>7. QED BY <1>1, <1>3, <2>5, <2>6 DEF ToolsInv, Constructed
<1>4. QED BY <1>2, <1>3 DEF Tools!Run

\* Every step of the endpoint keeps the invariant.
LEMMA ToolsKept == ToolsInv /\ [Tools!Next]_toolVars => ToolsInv'
<1> SUFFICES ASSUME ToolsInv, [Tools!Next]_toolVars PROVE ToolsInv'
  OBVIOUS
<1>1. CASE UNCHANGED toolVars
  BY <1>1 DEF toolVars, ToolsInv, Tools!TypeOK, Constructed, Tools!ClaimedNames, RunInv, BuiltOf,
     GivenRun, Tools!Nothing, Tools!Sources
<1>2. QED BY <1>1, ConstructKeeps, GrowthKeeps, RunKeeps DEF Tools!Next

\* The invariant says what is promised of the names.
LEMMA ToolsMean == ToolsInv => ToolsAreOwned
<1> SUFFICES ASSUME ToolsInv PROVE ToolsAreOwned
  OBVIOUS
<1>1. ASSUME agent # {}
      PROVE  /\ Constructed /\ BuiltOf(run["registry"], run["specs"])
             /\ GivenRun(run["registry"], run["mcp"], run["attachments"])
             /\ run["context"] \subseteq {ClientContext}
  BY <1>1 DEF ToolsInv, Tools!TypeOK, RunInv
<1>2. \A n \in Tools!Fixed :
         n \in Names /\ n \notin late["registry"] /\ n \notin late["mcp"] /\ n \notin late["specs"]
  BY DEF Tools!Fixed, Tools!Growing
<1>3. Tools!OwnedByTheFirst
  <2> SUFFICES ASSUME agent # {}, NEW s \in Tools!Owners, NEW n \in Tools!Fixed
               PROVE  n \in run[s] <=>
                         n \in Tools!Configured(s) \ UNION {Tools!Configured(t) : t \in Tools!Earlier(s)}
    BY DEF Tools!OwnedByTheFirst
  <2>1. CASE s = "registry"
    BY <1>1, <1>2, <2>1 DEF BuiltOf, Tools!Configured, Tools!Earlier
  <2>2. CASE s = "mcp"
    <3>1. UNION {Tools!Configured(t) : t \in Tools!Earlier(s)} = registry
      BY <2>2 DEF Tools!Configured, Tools!Earlier
    <3>2. QED BY <1>1, <1>2, <2>2, <3>1 DEF GivenRun, Tools!Configured
  <2>3. CASE s = "specs"
    <3>1. UNION {Tools!Configured(t) : t \in Tools!Earlier(s)} = registry \union server
      BY <2>3 DEF Tools!Configured, Tools!Earlier
    <3>2. QED BY <1>1, <1>2, <2>3, <3>1 DEF BuiltOf, Constructed, Tools!Configured, Tools!ClaimedNames
  <2>4. CASE s = "attachments"
    <3>1. UNION {Tools!Configured(t) : t \in Tools!Earlier(s)} = registry \union server \union source
      BY <2>4 DEF Tools!Configured, Tools!Earlier
    <3>2. n \in Tools!Configured(s) <=> uploads /\ n = ReadAttachment
      BY <2>4 DEF Tools!Configured
    <3>3. n \in source <=> n \in specs
      BY <1>1, <1>2 DEF Constructed
    <3>4. n \in run["attachments"] =>
             uploads /\ n = ReadAttachment /\ n \notin registry \union server \union specs
      BY <1>1, <1>2 DEF GivenRun
    <3>5. uploads /\ n = ReadAttachment /\ n \notin registry \union server \union specs
             => n \in run["attachments"]
      BY <1>1 DEF GivenRun
    <3>6. QED BY <2>4, <3>1, <3>2, <3>3, <3>4, <3>5
  <2>5. QED BY <2>1, <2>2, <2>3, <2>4 DEF Tools!Owners
<1>4. Tools!CatalogueAgrees
  <2> SUFFICES ASSUME agent # {}, NEW s \in {"registry", "mcp", "specs"}, NEW n \in Tools!Fixed
               PROVE  n \in run[s] <=> n \in Tools!Catalog[s]
    BY DEF Tools!CatalogueAgrees
  <2>1. /\ Tools!Catalog["registry"] = registry
        /\ Tools!Catalog["mcp"] = server \ registry
        /\ Tools!Catalog["specs"] = specs \ (registry \union server)
    BY DEF Tools!Catalog, Tools!Sources
  <2>2. QED BY <1>1, <1>2, <2>1 DEF BuiltOf, GivenRun, Constructed, Tools!ClaimedNames
<1>5. Tools!GrowthIsHarmless
  <2>1. ASSUME agent # {}, NEW s \in Tools!Sources, NEW t \in Tools!Sources,
               NEW n \in run[s] \intersect run[t], s # t
        PROVE  \/ n = ClientContext
               \/ n \in late["mcp"]
               \/ n = ReadAttachment /\ n \in late["specs"]
               \/ shape = "built" /\ n \in late["registry"]
    <3>1. /\ n \in run["registry"] => n \in registry /\ n \notin run["mcp"] \union run["attachments"]
          /\ n \in run["mcp"] => n \in server /\ n \notin run["attachments"]
          /\ n \in run["specs"] /\ n \in server => n \in late["mcp"]
          /\ n \in run["specs"] /\ n \in run["registry"] => shape = "built" /\ n \in late["registry"]
          /\ n \in run["specs"] => n \in source
          /\ n \in run["attachments"] => n = ReadAttachment /\ n \notin specs
          /\ n \in source /\ n \notin specs => n \in late["specs"]
          /\ n \in run["context"] => n = ClientContext
      BY <1>1, <2>1 DEF BuiltOf, GivenRun, Constructed
    <3>2. QED BY <2>1, <3>1 DEF Tools!Sources
  <2>2. QED BY <1>1, <2>1 DEF Tools!GrowthIsHarmless, BuiltOf
<1>6. QED BY <1>3, <1>4, <1>5 DEF ToolsInv, ToolsAreOwned

(* ToolsAreOwned: each name that no source was given late is offered by    *)
(* the first of registry, MCP server, specs and attachments that has it,   *)
(* and GET tools/ agrees; and however the project's registries grow, no    *)
(* ungated spec reaches a run, and only the context tool's name and names  *)
(* given late can be offered twice.                                        *)
THEOREM ToolNamesAreOwned == MCSpec => []ToolsAreOwned
<1>1. MCInit => ToolsInv
  BY ToolsStart DEF MCInit
<1>2. ToolsInv /\ [MCNext]_<<view, vars, threadVars, toolVars>> => ToolsInv'
  <2>1. [MCNext]_<<view, vars, threadVars, toolVars>> => [Tools!Next]_toolVars
    BY DEF MCNext
  <2>2. QED BY <2>1, ToolsKept
<1>3. QED BY <1>1, <1>2, ToolsMean, PTL DEF MCSpec

-----------------------------------------------------------------------------
(* The index of runs: its order.                                           *)

\* What a page lists is a stretch of the runs, as long as the limit lets it be.
ListedInv ==
    /\ listed \in Seq(Nat)
    /\ \A i \in 1 .. Len(listed) : listed[i] = listed[1] + (i - 1) /\ listed[i] \in 1 .. Len(runs)
    /\ Limit > 0 => Len(listed) <= Limit
    /\ listed # <<>> /\ listed[1] > 1 => Len(listed) = Limit

Questions == Numbers \union {None}
Rows == [run : Nat, continuable : BOOLEAN, preview : Questions]

\* The rows made of it so far are of its first runs, in its order.
RowsInv ==
    /\ rows \in Seq(Rows) /\ index \in Seq(Rows) /\ reading \in BOOLEAN
    /\ ~reading => rows = <<>>
    /\ Len(rows) <= Len(listed)
    /\ \A i \in 1 .. Len(rows) : rows[i].run = listed[i]
    /\ \A i \in 1 .. Len(index) : index[i].run \in 1 .. Len(runs)

Runs == [history : Seq(Seq(Parts)), snapshot : Seq(Seq(Parts)), asked : Questions, joined : BOOLEAN]

OrderInv == runs \in Seq(Runs) /\ ListedInv /\ RowsInv

\* _newest: the newest runs, all there are of them up to the limit.
LEMMA NewestIsNewest ==
    ASSUME runs \in Seq(Runs), NEW s, s = NewestRuns([i \in DOMAIN runs |-> i])
    PROVE  /\ s \in Seq(Nat)
           /\ Limit > 0 => Len(s) <= Limit
           /\ \A i \in 1 .. Len(s) : s[i] = s[1] + (i - 1) /\ s[i] \in 1 .. Len(runs)
           /\ s # <<>> /\ s[1] > 1 => Len(s) = Limit
           /\ runs # <<>> => s # <<>> /\ Last(s) = Len(runs)
<1> DEFINE n == Len(runs)
           all == [i \in 1 .. n |-> i]
<1>1. n \in Nat /\ DOMAIN runs = 1 .. n /\ Limit \in Nat /\ (runs # <<>> => n # 0)
  BY LenProperties, EmptySeq, RunIndexAssumption
<1>2. all \in Seq(Nat) /\ Len(all) = n /\ \A i \in 1 .. n : all[i] = i
  BY <1>1
<1> HIDE DEF n, all
<1> SUFFICES /\ s \in Seq(Nat)
             /\ Limit > 0 => Len(s) <= Limit
             /\ \A i \in 1 .. Len(s) : s[i] = s[1] + (i - 1) /\ s[i] \in 1 .. n
             /\ s # <<>> /\ s[1] > 1 => Len(s) = Limit
             /\ n # 0 => s # <<>> /\ s[Len(s)] = n
  BY <1>1 DEF Last, n
<1>3. s = IF Limit = 0 \/ n <= Limit THEN all ELSE SubSeq(all, n - Limit + 1, n)
  BY <1>1, <1>2 DEF NewestRuns, all, n
<1>4. CASE Limit = 0 \/ n <= Limit
  <2>1. s = all
    BY <1>3, <1>4
  <2>2. s # <<>> => n # 0
    BY <1>2, <2>1, EmptySeq
  <2>3. n # 0 => s # <<>>
    BY <1>2, <2>1
  <2>4. \A i \in 1 .. Len(s) : s[i] = s[1] + (i - 1) /\ s[i] \in 1 .. n
    BY <1>1, <1>2, <2>1
  <2>5. n # 0 => s[Len(s)] = n /\ s[1] = 1
    BY <1>1, <1>2, <2>1
  <2>6. QED BY <1>1, <1>2, <1>4, <2>1, <2>2, <2>3, <2>4, <2>5
<1>5. CASE Limit # 0 /\ n > Limit
  <2> DEFINE m == n - Limit + 1
  <2>1. m \in 1 .. n /\ n - m + 1 = Limit
    BY <1>1, <1>5
  <2>2. s = SubSeq(all, m, n)
    BY <1>1, <1>3, <1>5
  <2> HIDE DEF m
  <2>3. m \in Int /\ n \in Int /\ \A i \in m .. n : all[i] \in Nat
    BY <1>1, <1>2, <2>1
  <2>4. /\ s \in Seq(Nat) /\ Len(s) = Limit
        /\ \A i \in 1 .. Limit : s[i] = m + (i - 1)
    <3> DEFINE page == SubSeq(all, m, n)
    <3>1. s = page
      BY <2>2
    <3>2. /\ page \in Seq(Nat) /\ Len(page) = n - m + 1
          /\ \A i \in 1 .. n - m + 1 : page[i] = all[m + i - 1]
      <4>1. m <= n
        BY <1>1, <2>1
      <4>2. QED BY <2>3, <4>1, SubSeqProperties
    <3> HIDE DEF page
    <3>3. s \in Seq(Nat) /\ Len(s) = Limit /\ \A i \in 1 .. Limit : s[i] = all[m + i - 1]
      <4>1. s \in Seq(Nat) /\ Len(s) = Limit
        BY <2>1, <3>1, <3>2
      <4>2. \A i \in 1 .. Limit : page[i] = all[m + i - 1]
        BY <2>1, <3>2
      <4>3. QED BY <3>1, <4>1, <4>2
    <3>4. \A i \in 1 .. Limit : m + i - 1 \in 1 .. n /\ m + i - 1 = m + (i - 1)
      BY <1>1, <2>1
    <3>5. QED BY <1>2, <3>3, <3>4
  <2>5. s # <<>>
    BY <1>1, <1>5, <2>4
  <2>6. s[1] = m /\ 1 \in 1 .. Limit /\ Limit \in 1 .. Limit
    BY <1>1, <1>5, <2>1, <2>4
  <2>7. s[Len(s)] = n
    BY <1>1, <2>1, <2>4, <2>6
  <2>8. \A i \in 1 .. Len(s) : s[i] = s[1] + (i - 1) /\ s[i] \in 1 .. n
    <3> SUFFICES ASSUME NEW i \in 1 .. Limit PROVE s[i] = s[1] + (i - 1) /\ s[i] \in 1 .. n
      BY <2>4
    <3>1. s[i] = m + (i - 1)
      BY <2>4
    <3>2. m + (i - 1) \in 1 .. n
      BY <1>1, <2>1
    <3>3. QED BY <2>6, <3>1, <3>2
  <2>9. QED BY <1>1, <1>5, <2>4, <2>5, <2>7, <2>8
<1>6. QED BY <1>1, <1>4, <1>5

\* A sequence turned round, index by index.
LEMMA ReverseIs ==
    ASSUME NEW S, NEW s \in Seq(S)
    PROVE  /\ Reverse(s) \in Seq(S) /\ Len(Reverse(s)) = Len(s) /\ Len(s) \in Nat
           /\ DOMAIN Reverse(s) = 1 .. Len(s)
           /\ \A i \in 1 .. Len(s) : Reverse(s)[i] = s[(Len(s) - i) + 1]
<1>1. Len(s) \in Nat /\ \A i \in 1 .. Len(s) : s[i] \in S
  BY LenProperties
<1>2. \A i \in 1 .. Len(s) : (Len(s) - i) + 1 \in 1 .. Len(s)
  BY <1>1
<1>3. QED BY <1>1, <1>2 DEF Reverse

-----------------------------------------------------------------------------
(* The index of runs: its names.                                           *)

\* What _preview stops at, in a message.
Candidate(m, d) ==
    d \in DOMAIN m /\ m[d].kind = "prompt" /\ (m[d].words = None => ~AnswersATool(m))

\* The newest such prompt of a history holds q, or there is none to hold any.
Told(h, q) ==
    \/ q = None /\ \A c \in DOMAIN h, d \in 1 .. 3 : ~Candidate(h[c], d)
    \/ \E a \in DOMAIN h, b \in 1 .. 3 :
          /\ Candidate(h[a], b) /\ h[a][b].words = q
          /\ \A c \in DOMAIN h, d \in 1 .. 3 : Candidate(h[c], d) => c < a \/ (c = a /\ d <= b)

\* The messages that follow a question, and those a snapshot may end in.
Resting == {<<Reply>>, <<Return>>, <<Return, Prompt(None)>>}
Quiet == Resting \union {<<Call>>}

\* A history is named by a question, the run's own unless that was joined.
Asks(r, h) == \E q \in Questions : Told(h, q) /\ (~r.joined => q = r.asked)

RunOk(r) ==
    /\ IsPrefix(r.snapshot, r.history)
    /\ Asks(r, r.history)
    /\ r.snapshot # <<>> => Asks(r, r.snapshot) /\ Last(r.snapshot) \in Resting

RunsInv == runs \in Seq(Runs) /\ \A n \in DOMAIN runs : RunOk(runs[n])

\* _preview finds it: the CHOOSE has one candidate only.
LEMMA PreviewIsTold ==
    ASSUME NEW h \in Seq(Seq(Parts)), NEW q, Told(h, q)
    PROVE  Preview(h) = q
<1> DEFINE at == {p \in (DOMAIN h) \X (1 .. 3) :
                    /\ p[2] \in DOMAIN h[p[1]] /\ h[p[1]][p[2]].kind = "prompt"
                    /\ h[p[1]][p[2]].words = None => ~AnswersATool(h[p[1]])}
           newest == CHOOSE p \in at : \A u \in at : \/ p[1] > u[1]
                                                     \/ p[1] = u[1] /\ p[2] >= u[2]
<1>1. Preview(h) = IF at = {} THEN None ELSE h[newest[1]][newest[2]].words
  BY DEF Preview
<1>2. at = {p \in (DOMAIN h) \X (1 .. 3) : Candidate(h[p[1]], p[2])}
  BY DEF Candidate
<1>3. CASE q = None /\ \A c \in DOMAIN h, d \in 1 .. 3 : ~Candidate(h[c], d)
  <2>1. at = {}
    BY <1>2, <1>3
  <2>2. QED BY <1>1, <1>3, <2>1
<1>4. ASSUME NEW a \in DOMAIN h, NEW b \in 1 .. 3,
             Candidate(h[a], b), h[a][b].words = q,
             \A c \in DOMAIN h, d \in 1 .. 3 : Candidate(h[c], d) => c < a \/ (c = a /\ d <= b)
      PROVE  Preview(h) = q
  <2>1. <<a, b>> \in at
    BY <1>2, <1>4
  <2>2. \A u \in at : a > u[1] \/ (a = u[1] /\ b >= u[2])
    BY <1>2, <1>4
  <2>3. ASSUME NEW p \in at, \A u \in at : \/ p[1] > u[1]
                                           \/ p[1] = u[1] /\ p[2] >= u[2]
        PROVE  p = <<a, b>>
    <3>1. p[1] \in DOMAIN h /\ p[2] \in 1 .. 3 /\ p = <<p[1], p[2]>>
      OBVIOUS
    <3>2. p[1] > a \/ (p[1] = a /\ p[2] >= b)
      BY <2>1, <2>3
    <3>3. a > p[1] \/ (a = p[1] /\ b >= p[2])
      BY <2>2
    <3>4. a \in Int /\ p[1] \in Int
      BY <3>1, LenProperties
    <3>5. p[1] = a /\ p[2] = b
      BY <3>1, <3>2, <3>3, <3>4
    <3>6. QED BY <3>1, <3>5
  <2> HIDE DEF at
  <2>4. newest = <<a, b>>
    <3>1. \E p \in at : \A u \in at : \/ p[1] > u[1]
                                      \/ p[1] = u[1] /\ p[2] >= u[2]
      BY <2>1, <2>2
    <3>2. QED BY <2>3, <3>1
  <2> HIDE DEF newest
  <2>5. newest[1] = a /\ newest[2] = b /\ at # {}
    BY <2>1, <2>4
  <2>6. QED BY <1>1, <1>4, <2>5
<1>5. QED BY <1>3, <1>4 DEF Told

\* None of the messages that follow a question is taken for one.
LEMMA QuietIs ==
    /\ \A w \in Questions : Prompt(w) \in Parts
    /\ {Return, Reply, Call} \subseteq Parts
    /\ \A m \in Quiet : m \in Seq(Parts) /\ m # <<>> /\ Len(m) \in 1 .. 2
    /\ \A m \in Quiet : \A d : ~Candidate(m, d)
    /\ \A m \in Resting : Last(m) # Reply => Return \in Range(m)
<1>1. None \in Questions
  BY DEF Questions
<1>2. (\A w \in Questions : Prompt(w) \in Parts) /\ {Return, Reply, Call} \subseteq Parts
  BY DEF Parts, Questions
<1>3. \A m \in Quiet : m \in Seq(Parts) /\ m # <<>> /\ Len(m) \in 1 .. 2
  <2>1. \A x \in Parts : <<x>> \in Seq(Parts) /\ <<x>> # <<>> /\ Len(<<x>>) \in 1 .. 2
    OBVIOUS
  <2>2. \A x, y \in Parts : <<x, y>> \in Seq(Parts) /\ <<x, y>> # <<>> /\ Len(<<x, y>>) \in 1 .. 2
    OBVIOUS
  <2>3. Return \in Parts /\ Reply \in Parts /\ Call \in Parts /\ Prompt(None) \in Parts
    BY <1>1, <1>2
  <2>4. QED BY <2>1, <2>2, <2>3 DEF Quiet, Resting
<1>4. Return \in Range(<<Return, Prompt(None)>>) /\ Return \in Range(<<Return>>)
  BY DEF Range
<1>5. \A m \in Quiet : \A d : ~Candidate(m, d)
  <2> SUFFICES ASSUME NEW m \in Quiet, NEW d \in DOMAIN m, m[d].kind = "prompt"
               PROVE  m[d].words = None /\ AnswersATool(m)
    BY DEF Candidate
  <2>1. m = <<Return, Prompt(None)>> /\ d = 2
    BY DEF Quiet, Resting, Prompt, Return, Reply, Call
  <2>2. QED BY <1>4, <2>1 DEF Prompt, AnswersATool
<1>6. \A m \in Resting : Last(m) # Reply => Return \in Range(m)
  BY <1>4 DEF Resting, Last
<1>7. QED BY <1>2, <1>3, <1>5, <1>6

\* Nor do they rename the history they are appended to.
LEMMA ToldAfterQuiet ==
    ASSUME NEW h \in Seq(Seq(Parts)), NEW q, Told(h, q), NEW m \in Quiet
    PROVE  Append(h, m) \in Seq(Seq(Parts)) /\ Told(Append(h, m), q)
<1> DEFINE g == Append(h, m)
<1>1. /\ g \in Seq(Seq(Parts)) /\ DOMAIN g = 1 .. Len(h) + 1 /\ DOMAIN h = 1 .. Len(h)
      /\ Len(h) \in Nat /\ \A i \in 1 .. Len(h) : g[i] = h[i]
      /\ g[Len(h) + 1] = m
  BY QuietIs, AppendProperties, LenProperties
<1>2. \A c \in DOMAIN g, d \in 1 .. 3 : Candidate(g[c], d) => c \in DOMAIN h /\ g[c] = h[c]
  BY <1>1, QuietIs
<1> HIDE DEF g
<1>3. CASE q = None /\ \A c \in DOMAIN h, d \in 1 .. 3 : ~Candidate(h[c], d)
  BY <1>1, <1>2, <1>3 DEF Told, g
<1>4. ASSUME NEW a \in DOMAIN h, NEW b \in 1 .. 3, Candidate(h[a], b), h[a][b].words = q,
             \A c \in DOMAIN h, d \in 1 .. 3 : Candidate(h[c], d) => c < a \/ (c = a /\ d <= b)
      PROVE  Told(g, q)
  <2>1. a \in DOMAIN g /\ g[a] = h[a]
    BY <1>1
  <2>2. QED BY <1>2, <1>4, <2>1 DEF Told
<1>5. QED BY <1>1, <1>3, <1>4 DEF Told, g

\* Where a new question goes: a request of its own, or the unanswered one.
LEMMA AskIs ==
    ASSUME NEW h \in Seq(Seq(Parts)), h # <<>> => Last(h) \in Resting, NEW w \in Questions
    PROVE  /\ Ask(h, Prompt(w)) \in Seq(Seq(Parts))
           /\ DOMAIN h = 1 .. Len(h) /\ Len(h) \in Nat
           /\ ~AfterRound(h) =>
                 /\ DOMAIN Ask(h, Prompt(w)) = 1 .. Len(h) + 1
                 /\ \A i \in 1 .. Len(h) : Ask(h, Prompt(w))[i] = h[i]
                 /\ Ask(h, Prompt(w))[Len(h) + 1] = <<Prompt(w)>>
           /\ AfterRound(h) =>
                 /\ Len(h) # 0 /\ h[Len(h)] \in Resting /\ Last(h[Len(h)]) # Reply
                 /\ DOMAIN Ask(h, Prompt(w)) = 1 .. Len(h)
                 /\ \A i \in 1 .. Len(h) - 1 : Ask(h, Prompt(w))[i] = h[i]
                 /\ Ask(h, Prompt(w))[Len(h)] = Append(h[Len(h)], Prompt(w))
<1> DEFINE p == Prompt(w)
           g == Ask(h, p)
<1>1. p \in Parts /\ <<p>> \in Seq(Parts)
  BY QuietIs
<1>2. DOMAIN h = 1 .. Len(h) /\ Len(h) \in Nat /\ \A i \in 1 .. Len(h) : h[i] \in Seq(Parts)
  BY LenProperties
<1>3. ASSUME ~AfterRound(h)
      PROVE  /\ g \in Seq(Seq(Parts)) /\ DOMAIN g = 1 .. Len(h) + 1
             /\ \A i \in 1 .. Len(h) : g[i] = h[i]
             /\ g[Len(h) + 1] = <<p>>
  <2>1. g = Append(h, <<p>>)
    BY <1>3 DEF Ask
  <2>2. QED BY <1>1, <2>1, AppendProperties, LenProperties
<1>4. ASSUME AfterRound(h)
      PROVE  /\ Len(h) # 0 /\ h[Len(h)] \in Resting /\ Last(h[Len(h)]) # Reply
             /\ g \in Seq(Seq(Parts)) /\ DOMAIN g = 1 .. Len(h)
             /\ \A i \in 1 .. Len(h) - 1 : g[i] = h[i]
             /\ g[Len(h)] = Append(h[Len(h)], p)
  <2>1. h # <<>> /\ Len(h) # 0 /\ h[Len(h)] \in Resting /\ Last(h[Len(h)]) # Reply
    BY <1>4, EmptySeq DEF AfterRound, Last
  <2> DEFINE f == SubSeq(h, 1, Len(h) - 1)
             x == Append(h[Len(h)], p)
  <2>2. g = f \o <<x>>
    BY <1>4 DEF Ask, Front, Last
  <2>3. /\ f \in Seq(Seq(Parts)) /\ Len(f) = Len(h) - 1
        /\ \A i \in 1 .. Len(h) - 1 : f[i] = h[i]
    <3>1. /\ f \in Seq(Seq(Parts)) /\ Len(f) = IF 1 <= Len(h) - 1 THEN (Len(h) - 1) - 1 + 1 ELSE 0
          /\ \A i \in 1 .. (Len(h) - 1) - 1 + 1 : f[i] = h[1 + i - 1]
      <4>1. 1 \in Int /\ Len(h) - 1 \in Int /\ \A i \in 1 .. Len(h) - 1 : h[i] \in Seq(Parts)
        BY <1>2
      <4>2. QED BY <4>1, SubSeqProperties
    <3> HIDE DEF f
    <3>2. Len(f) = Len(h) - 1
      <4>1. \A l \in Nat : l # 0 => (IF 1 <= l - 1 THEN (l - 1) - 1 + 1 ELSE 0) = l - 1
        OBVIOUS
      <4>2. Len(h) \in Nat /\ Len(h) # 0
        BY <1>2, <2>1
      <4>3. Len(f) = IF 1 <= Len(h) - 1 THEN (Len(h) - 1) - 1 + 1 ELSE 0
        BY <3>1
      <4>4. QED BY <4>1, <4>2, <4>3
    <3>3. \A i \in 1 .. Len(h) - 1 : i \in 1 .. (Len(h) - 1) - 1 + 1 /\ 1 + i - 1 = i
      BY <1>2
    <3>4. QED BY <3>1, <3>2, <3>3
  <2>4. <<x>> \in Seq(Seq(Parts)) /\ Len(<<x>>) = 1 /\ <<x>>[1] = x
    <3>1. x \in Seq(Parts)
      BY <1>1, <1>2, <2>1, AppendProperties
    <3>2. QED BY <3>1
  <2> HIDE DEF f, x
  <2>5. /\ f \o <<x>> \in Seq(Seq(Parts)) /\ Len(f \o <<x>>) = Len(f) + 1
        /\ \A i \in 1 .. Len(f) + 1 : (f \o <<x>>)[i] = IF i <= Len(f) THEN f[i] ELSE <<x>>[i - Len(f)]
    BY <2>3, <2>4, ConcatProperties
  <2>6. /\ g \in Seq(Seq(Parts)) /\ Len(g) = Len(h)
        /\ \A i \in 1 .. Len(h) - 1 : g[i] = h[i]
        /\ g[Len(h)] = x
    <3> HIDE DEF g
    <3>1. Len(f) + 1 = Len(h) /\ g \in Seq(Seq(Parts)) /\ Len(g) = Len(h)
      <4>1. Len(h) \in Nat /\ Len(f) = Len(h) - 1
        BY <1>2, <2>3
      <4>2. Len(f) + 1 = Len(h)
        BY <4>1
      <4>3. QED BY <2>2, <2>5, <4>2
    <3>2. ASSUME NEW i \in 1 .. Len(h) - 1 PROVE g[i] = h[i]
      BY <1>2, <2>2, <2>3, <2>5
    <3>3. g[Len(h)] = x
      <4>1. Len(h) \in 1 .. Len(f) + 1 /\ ~(Len(h) <= Len(f)) /\ Len(h) - Len(f) = 1
        BY <1>2, <2>1, <2>3
      <4>2. QED BY <2>2, <2>4, <2>5, <4>1
    <3>4. QED BY <3>1, <3>2, <3>3
  <2>7. QED BY <2>1, <2>6, LenProperties DEF x
<1>5. QED BY <1>2, <1>3, <1>4

\* A question asked names the history it is asked in, unless it has no words
\* and joins a round's returns.
LEMMA ToldAfterAsk ==
    ASSUME NEW h \in Seq(Seq(Parts)), h # <<>> => Last(h) \in Resting,
           NEW w \in Questions, NEW old \in Questions, Told(h, old)
    PROVE  \E q \in Questions : /\ Told(Ask(h, Prompt(w)), q)
                                /\ ~(w = None /\ AfterRound(h)) => q = w
<1> DEFINE g == Ask(h, Prompt(w))
<1>1. DOMAIN h = 1 .. Len(h) /\ Len(h) \in Nat
  BY AskIs
<1>2. CASE ~AfterRound(h)
  <2>1. /\ DOMAIN g = 1 .. Len(h) + 1
        /\ g[Len(h) + 1] = <<Prompt(w)>>
    BY <1>2, AskIs
  <2> HIDE DEF g
  <2>2. ~AnswersATool(<<Prompt(w)>>)
    BY DEF AnswersATool, Range, Prompt, Return
  <2>3. /\ Candidate(g[Len(h) + 1], 1) /\ g[Len(h) + 1][1].words = w
        /\ \A d \in 1 .. 3 : Candidate(g[Len(h) + 1], d) => d = 1
    BY <2>1, <2>2 DEF Candidate, Prompt
  <2>4. Told(g, w)
    <3>1. Len(h) + 1 \in DOMAIN g /\ 1 \in 1 .. 3 /\ \A c \in DOMAIN g : c < Len(h) + 1 \/ c = Len(h) + 1
      BY <1>1, <2>1
    <3>2. \A c \in DOMAIN g, d \in 1 .. 3 :
             Candidate(g[c], d) => c < Len(h) + 1 \/ (c = Len(h) + 1 /\ d <= 1)
      BY <2>3, <3>1
    <3>3. QED BY <2>3, <3>1, <3>2 DEF Told
  <2>5. QED BY <2>4 DEF g
<1>3. CASE AfterRound(h)
  <2> DEFINE m == h[Len(h)]
             k == Len(m)
             n == Append(m, Prompt(w))
  <2>1. /\ Len(h) # 0 /\ m \in Resting /\ Last(m) # Reply
        /\ DOMAIN g = 1 .. Len(h)
        /\ \A i \in 1 .. Len(h) - 1 : g[i] = h[i]
        /\ g[Len(h)] = n
    BY <1>3, AskIs
  <2>2. m \in Seq(Parts) /\ k \in 1 .. 2 /\ (\A d : ~Candidate(m, d)) /\ Return \in Range(m)
    BY <2>1, QuietIs DEF Quiet
  <2>3. /\ DOMAIN m = 1 .. k /\ DOMAIN n = 1 .. k + 1
        /\ \A d \in 1 .. k : n[d] = m[d]
        /\ n[k + 1] = Prompt(w)
    BY <2>2, QuietIs, AppendProperties, LenProperties
  <2> HIDE DEF g, m, k, n
  <2>4. AnswersATool(m) /\ AnswersATool(n)
    BY <2>2, <2>3 DEF AnswersATool, Range
  <2>5. \A d \in 1 .. 3 : Candidate(n, d) <=> d = k + 1 /\ w # None
    <3>1. Prompt(w).kind = "prompt" /\ Prompt(w).words = w
      BY DEF Prompt
    <3>2. ASSUME NEW d \in 1 .. k PROVE ~Candidate(n, d)
      <4>1. ~Candidate(m, d) /\ d \in DOMAIN m /\ d \in DOMAIN n /\ n[d] = m[d]
        BY <2>2, <2>3
      <4>2. QED BY <2>4, <4>1 DEF Candidate
    <3>3. Candidate(n, k + 1) <=> w # None
      <4>1. k + 1 \in DOMAIN n
        BY <2>2, <2>3
      <4>2. QED BY <2>3, <2>4, <3>1, <4>1 DEF Candidate
    <3>4. \A d \in 1 .. 3 : Candidate(n, d) => d \in 1 .. k \/ d = k + 1
      BY <2>2, <2>3 DEF Candidate
    <3>5. \A d \in 1 .. k : d # k + 1
      BY <2>2
    <3>6. QED BY <3>2, <3>3, <3>4
  <2>6. Len(h) \in DOMAIN g /\ Len(h) \in DOMAIN h
    BY <1>1, <2>1
  <2>7. CASE w # None
    <3>1. k + 1 \in 1 .. 3 /\ Candidate(g[Len(h)], k + 1) /\ g[Len(h)][k + 1].words = w
      BY <2>1, <2>2, <2>3, <2>5, <2>7 DEF Prompt
    <3>2. \A c \in DOMAIN g, d \in 1 .. 3 :
             Candidate(g[c], d) => c < Len(h) \/ (c = Len(h) /\ d <= k + 1)
      <4>1. \A c \in DOMAIN g : c < Len(h) \/ c = Len(h)
        BY <1>1, <2>1
      <4>2. \A d \in 1 .. 3 : Candidate(g[Len(h)], d) => d <= k + 1
        BY <2>1, <2>2, <2>5
      <4>3. QED BY <4>1, <4>2
    <3>3. Told(g, w)
      BY <2>6, <3>1, <3>2 DEF Told
    <3>4. QED BY <3>3 DEF g
  <2>8. CASE w = None
    <3>1. \A c \in DOMAIN g, d \in 1 .. 3 :
             /\ Candidate(g[c], d) <=> Candidate(h[c], d)
             /\ Candidate(h[c], d) => g[c] = h[c]
      <4> SUFFICES ASSUME NEW c \in DOMAIN g, NEW d \in 1 .. 3
                   PROVE  /\ Candidate(g[c], d) <=> Candidate(h[c], d)
                          /\ Candidate(h[c], d) => g[c] = h[c]
        OBVIOUS
      <4>1. CASE c = Len(h)
        <5>1. h[c] = m /\ g[c] = n
          BY <2>1, <4>1 DEF m
        <5>2. QED BY <2>2, <2>5, <2>8, <5>1
      <4>2. CASE c # Len(h)
        <5>1. c \in 1 .. Len(h) - 1
          BY <1>1, <2>1, <4>2
        <5>2. QED BY <2>1, <5>1
      <4>3. QED BY <4>1, <4>2
    <3>2. DOMAIN g = DOMAIN h
      BY <1>1, <2>1
    <3>3. Told(g, old)
      BY <3>1, <3>2 DEF Told
    <3>4. QED BY <1>3, <2>8, <3>3 DEF g
  <2>9. QED BY <2>7, <2>8
<1>4. QED BY <1>2, <1>3

-----------------------------------------------------------------------------

\* Prefixes.
LEMMA SubSeqAlike ==
    ASSUME NEW S, NEW t \in Seq(S), NEW u \in Seq(S), NEW l \in Nat,
           l <= Len(t), l <= Len(u), \A i \in 1 .. l : u[i] = t[i]
    PROVE  SubSeq(u, 1, l) = SubSeq(t, 1, l)
<1> DEFINE a == SubSeq(u, 1, l)
           b == SubSeq(t, 1, l)
<1>1. \A i \in 1 .. l : t[i] \in S /\ u[i] \in S
  BY LenProperties
<1>2. /\ a \in Seq(S) /\ Len(a) = (IF 1 <= l THEN l - 1 + 1 ELSE 0)
      /\ \A i \in 1 .. l - 1 + 1 : a[i] = u[1 + i - 1]
  BY <1>1, SubSeqProperties
<1>3. /\ b \in Seq(S) /\ Len(b) = (IF 1 <= l THEN l - 1 + 1 ELSE 0)
      /\ \A i \in 1 .. l - 1 + 1 : b[i] = t[1 + i - 1]
  BY <1>1, SubSeqProperties
<1> HIDE DEF a, b
<1>4. Len(a) = l /\ Len(b) = l
  BY <1>2, <1>3
<1>5. \A i \in 1 .. l : a[i] = b[i]
  BY <1>2, <1>3
<1>6. QED BY <1>2, <1>3, <1>4, <1>5, SeqEqual DEF a, b

LEMMA PrefixOf ==
    ASSUME NEW S, NEW t \in Seq(S)
    PROVE  /\ IsPrefix(<<>>, t) /\ IsPrefix(t, t)
           /\ \A s \in Seq(S), x \in S : IsPrefix(s, t) => IsPrefix(s, Append(t, x))
<1>1. IsPrefix(<<>>, t)
  <2>1. SubSeq(<<>>, 1, 0) = <<>> /\ SubSeq(t, 1, 0) = <<>> /\ Len(<<>>) = 0 /\ Len(t) \in Nat
    BY SubSeqEmpty, EmptySeq, LenProperties
  <2>2. QED BY <2>1 DEF IsPrefix
<1>2. IsPrefix(t, t)
  BY LenProperties DEF IsPrefix
<1>3. ASSUME NEW s \in Seq(S), NEW x \in S, IsPrefix(s, t) PROVE IsPrefix(s, Append(t, x))
  <2> DEFINE u == Append(t, x)
  <2>1. /\ Len(s) \in Nat /\ Len(t) \in Nat /\ u \in Seq(S) /\ Len(u) = Len(t) + 1
        /\ \A i \in 1 .. Len(t) : u[i] = t[i]
    BY LenProperties, AppendProperties
  <2> HIDE DEF u
  <2>2. Len(s) <= Len(t) /\ SubSeq(s, 1, Len(s)) = SubSeq(t, 1, Len(s))
    BY <1>3 DEF IsPrefix
  <2>3. SubSeq(u, 1, Len(s)) = SubSeq(t, 1, Len(s))
    BY <2>1, <2>2, SubSeqAlike
  <2>4. QED BY <2>1, <2>2, <2>3 DEF IsPrefix, u
<1>4. QED BY <1>1, <1>2, <1>3

\* The runs only grow in number, and none is renamed.
Older ==
    \A n \in DOMAIN runs :
        n \in DOMAIN runs' /\ runs'[n].asked = runs[n].asked /\ runs'[n].joined = runs[n].joined

\* A run more.
LEMMA NewRun ==
    ASSUME RunsInv, Len(runs) < MaxRuns, NEW r \in Runs, RunOk(r), runs' = Append(runs, r)
    PROVE  RunsInv' /\ Older
<1>1. /\ Len(runs) \in Nat /\ DOMAIN runs = 1 .. Len(runs)
      /\ runs' \in Seq(Runs) /\ DOMAIN runs' = 1 .. Len(runs) + 1
      /\ \A i \in 1 .. Len(runs) : runs'[i] = runs[i]
      /\ runs'[Len(runs) + 1] = r
  BY AppendProperties, LenProperties DEF RunsInv
<1>2. Older
  BY <1>1 DEF Older
<1>3. ASSUME NEW n \in DOMAIN runs' PROVE RunOk(runs'[n])
  <2>1. CASE n = Len(runs) + 1
    BY <1>1, <2>1
  <2>2. CASE n # Len(runs) + 1
    <3>1. n \in DOMAIN runs /\ runs'[n] = runs[n]
      BY <1>1, <2>2
    <3>2. QED BY <3>1 DEF RunsInv
  <2>3. QED BY <2>1, <2>2
<1>4. QED BY <1>1, <1>2, <1>3 DEF RunsInv, RunOk, Asks

\* A question asked.
LEMMA StartKeeps == ASSUME RunsInv, Start PROVE RunsInv' /\ Older
<1>1. PICK h \in Bases, w \in {Len(runs) + 1, None} :
         runs' = Append(runs, Run(Ask(h, Prompt(w)), w, w = None /\ AfterRound(h)))
  BY DEF Start
<1>2. Len(runs) < MaxRuns /\ Len(runs) \in Nat
  BY LenProperties DEF Start, RunsInv
<1>3. w \in Questions
  BY <1>2, RunIndexAssumption DEF Questions, Numbers
<1>4. /\ h \in Seq(Seq(Parts)) /\ (h # <<>> => Last(h) \in Resting)
      /\ \E q \in Questions : Told(h, q)
  <2>1. CASE h = <<>>
    <3>1. Told(h, None) /\ None \in Questions
      BY <2>1 DEF Told, Questions
    <3>2. QED BY <2>1, <3>1, EmptySeq
  <2>2. ASSUME NEW n \in DOMAIN runs, h = runs[n].snapshot, h # <<>>
        PROVE  /\ h \in Seq(Seq(Parts)) /\ Last(h) \in Resting
               /\ \E q \in Questions : Told(h, q)
    <3>1. runs[n] \in Runs /\ RunOk(runs[n])
      BY LenProperties DEF RunsInv
    <3>2. QED BY <2>2, <3>1 DEF Runs, RunOk, Asks
  <2>3. QED BY <2>1, <2>2 DEF Bases
<1>5. PICK q \in Questions : /\ Told(Ask(h, Prompt(w)), q)
                             /\ ~(w = None /\ AfterRound(h)) => q = w
  BY <1>3, <1>4, ToldAfterAsk
<1> DEFINE g == Ask(h, Prompt(w))
           j == (w = None /\ AfterRound(h))
           r == Run(g, w, j)
<1>6. g \in Seq(Seq(Parts)) /\ j \in BOOLEAN
  BY <1>3, <1>4, AskIs
<1>7. /\ r.history = g /\ r.snapshot = <<>> /\ r.asked = w /\ r.joined = j
      /\ runs' = Append(runs, r)
  BY <1>1 DEF Run
<1>8. r \in Runs
  <2> HIDE DEF g, j
  <2>1. QED BY <1>3, <1>6, EmptySeq DEF Run, Runs
<1>9. RunOk(r)
  <2>1. IsPrefix(r.snapshot, r.history)
    BY <1>6, <1>7, PrefixOf
  <2>2. Asks(r, r.history)
    BY <1>5, <1>7 DEF Asks
  <2>3. QED BY <1>7, <2>1, <2>2 DEF RunOk
<1>10. QED
  <2> HIDE DEF r
  <2>1. QED BY <1>2, <1>7, <1>8, <1>9, NewRun

\* An approval answered: the run goes by the question of the one it continues.
LEMMA ContinueKeeps == ASSUME RunsInv, NEW n \in DOMAIN runs, Continue(n) PROVE RunsInv' /\ Older
<1> DEFINE o == runs[n]
           g == Append(o.history, <<Return>>)
           r == Run(g, o.asked, o.joined)
<1>1. Len(runs) < MaxRuns /\ runs' = Append(runs, r)
  BY DEF Continue
<1>2. o \in Runs /\ RunOk(o)
  BY LenProperties DEF RunsInv
<1>3. /\ r.history = g /\ r.snapshot = <<>> /\ r.asked = o.asked /\ r.joined = o.joined
  BY DEF Run
<1>4. <<Return>> \in Quiet /\ o.history \in Seq(Seq(Parts))
  BY <1>2 DEF Quiet, Resting, Runs
<1> HIDE DEF o
<1>5. PICK q \in Questions : Told(o.history, q) /\ (~o.joined => q = o.asked)
  BY <1>2 DEF RunOk, Asks
<1>6. g \in Seq(Seq(Parts)) /\ Told(g, q)
  BY <1>4, <1>5, ToldAfterQuiet
<1>7. r \in Runs
  <2> HIDE DEF g
  <2>1. QED BY <1>2, <1>6, EmptySeq DEF Run, Runs
<1>8. RunOk(r)
  <2> HIDE DEF g, r
  <2>1. QED BY <1>3, <1>5, <1>6, PrefixOf DEF RunOk, Asks
<1>9. QED
  <2> HIDE DEF r
  <2>1. QED BY <1>1, <1>7, <1>8, NewRun

\* A history that grows by an answer, a call or its return.
LEMMA GrowKeeps ==
    ASSUME RunsInv, NEW n \in DOMAIN runs, NEW m \in Quiet, NEW saved \in BOOLEAN,
           saved => m \in Resting, Grow(n, m, saved)
    PROVE  RunsInv' /\ Older
<1> DEFINE o == runs[n]
           g == Append(o.history, m)
           s == IF saved THEN g ELSE o.snapshot
           r == [history |-> g, snapshot |-> s, asked |-> o.asked, joined |-> o.joined]
<1>1. Len(runs) \in Nat /\ DOMAIN runs = 1 .. Len(runs) /\ runs \in [1 .. Len(runs) -> Runs]
  BY LenProperties DEF RunsInv
<1>2. o \in Runs /\ RunOk(o)
  BY <1>1 DEF RunsInv
<1>3. runs' = [runs EXCEPT ![n].history = g, ![n].snapshot = s]
  BY DEF Grow
<1>4. o.history \in Seq(Seq(Parts)) /\ o.snapshot \in Seq(Seq(Parts))
  BY <1>2 DEF Runs
<1>5. PICK q \in Questions : Told(o.history, q) /\ (~o.joined => q = o.asked)
  BY <1>2 DEF RunOk, Asks
<1>6. g \in Seq(Seq(Parts)) /\ Told(g, q)
  BY <1>4, <1>5, ToldAfterQuiet
<1>7. m \in Seq(Parts) /\ Last(g) = m
  <2>1. m \in Seq(Parts)
    BY QuietIs
  <2>2. Len(g) = Len(o.history) + 1 /\ g[Len(o.history) + 1] = m
    BY <1>4, <2>1, AppendProperties
  <2> HIDE DEF g
  <2>3. QED BY <2>1, <2>2 DEF Last
<1>8. IsPrefix(o.snapshot, g) /\ IsPrefix(g, g)
  <2>1. IsPrefix(o.snapshot, o.history)
    BY <1>2 DEF RunOk
  <2>2. QED BY <1>4, <1>6, <1>7, <2>1, PrefixOf
<1> HIDE DEF g
<1>9. s \in Seq(Seq(Parts))
  BY <1>4, <1>6
<1>10. r \in Runs
  BY <1>2, <1>6, <1>9 DEF Runs
<1>11. RunOk(r)
  <2>1. IsPrefix(s, g)
    BY <1>8
  <2>2. Asks(r, g)
    BY <1>5, <1>6 DEF Asks
  <2>3. s # <<>> => Asks(r, s) /\ Last(s) \in Resting
    <3>1. CASE saved
      BY <1>7, <2>2, <3>1
    <3>2. CASE ~saved
      BY <1>2, <3>2 DEF RunOk, Asks
    <3>3. QED BY <3>1, <3>2
  <2>4. QED BY <2>1, <2>2, <2>3 DEF RunOk
<1>12. runs' = [runs EXCEPT ![n] = r]
  <2>1. [o EXCEPT !.history = g, !.snapshot = s] = r
    <3> HIDE DEF o, s
    <3>1. o = [history |-> o.history, snapshot |-> o.snapshot,
               asked |-> o.asked, joined |-> o.joined]
      BY <1>2 DEF Runs
    <3> DEFINE e == [o EXCEPT !.history = g]
    <3>2. e = [history |-> g, snapshot |-> o.snapshot, asked |-> o.asked, joined |-> o.joined]
      BY <3>1
    <3> HIDE DEF e
    <3>3. [e EXCEPT !.snapshot = s] = r
      BY <3>2
    <3>4. QED BY <3>3 DEF e
  <2>2. runs' = [runs EXCEPT ![n] = [o EXCEPT !.history = g, !.snapshot = s]]
    <3> HIDE DEF s
    <3>1. QED BY <1>1, <1>3
  <2>3. QED BY <2>1, <2>2
<1>13. /\ runs' \in Seq(Runs) /\ DOMAIN runs' = DOMAIN runs /\ Len(runs') = Len(runs)
       /\ \A i \in DOMAIN runs : runs'[i] = IF i = n THEN r ELSE runs[i]
  <2> HIDE DEF r
  <2>1. QED BY <1>1, <1>10, <1>12, ExceptSeq DEF RunsInv
<1>14. QED
  <2>1. r.asked = o.asked /\ r.joined = o.joined
    OBVIOUS
  <2> HIDE DEF r
  <2>2. QED BY <1>11, <1>13, <2>1 DEF RunsInv, RunOk, Asks, Older

\* Whatever the runs do, their histories stay named.
LEMMA RunsKept == RunsInv /\ [Next]_vars => RunsInv' /\ Older
<1> SUFFICES ASSUME RunsInv, [Next]_vars PROVE RunsInv' /\ Older
  OBVIOUS
<1>1. CASE UNCHANGED runs
  BY <1>1 DEF RunsInv, RunOk, Asks, Older
<1>2. CASE List \/ Read \/ Respond \/ UNCHANGED vars
  BY <1>1, <1>2 DEF List, Read, Respond, vars
<1>3. ASSUME NEW n \in DOMAIN runs, Answered(n) \/ Returned(n) PROVE RunsInv' /\ Older
  BY <1>3, GrowKeeps DEF Answered, Returned, Quiet, Resting
<1>4. QED BY <1>2, <1>3, StartKeeps, ContinueKeeps DEF Next

-----------------------------------------------------------------------------

\* Each row made is named by its own run's question, where that is not joined.
NamesInv ==
    \A i \in 1 .. Len(rows) :
        rows[i].continuable /\ ~runs[rows[i].run].joined =>
            rows[i].preview = runs[rows[i].run].asked

IndexInv == RunsInv /\ ListedInv /\ RowsInv /\ NamesInv

\* No runs, no page.
LEMMA IndexStart == Init => IndexInv
<1> SUFFICES ASSUME Init PROVE IndexInv
  OBVIOUS
<1>1. runs = <<>> /\ listed = <<>> /\ rows = <<>> /\ index = <<>> /\ reading = FALSE
  BY DEF Init
<1>2. /\ Len(<<>>) = 0 /\ DOMAIN <<>> = {}
      /\ <<>> \in Seq(Runs) /\ <<>> \in Seq(Rows) /\ <<>> \in Seq(Nat)
  BY EmptySeq
<1>3. RunsInv
  BY <1>1, <1>2 DEF RunsInv
<1>4. ListedInv
  BY <1>1, <1>2, RunIndexAssumption DEF ListedInv
<1>5. RowsInv /\ NamesInv
  <2>1. Len(rows) = 0 /\ Len(listed) = 0 /\ Len(index) = 0
    BY <1>1, <1>2
  <2>2. RowsInv
    <3>1. rows \in Seq(Rows) /\ index \in Seq(Rows) /\ reading \in BOOLEAN /\ rows = <<>>
      BY <1>1, <1>2
    <3>2. Len(rows) <= Len(listed) /\ \A i \in 1 .. Len(rows) : rows[i].run = listed[i]
      BY <2>1
    <3>3. \A i \in 1 .. Len(index) : index[i].run \in 1 .. Len(runs)
      BY <2>1
    <3>4. QED BY <3>1, <3>2, <3>3 DEF RowsInv
  <2>3. NamesInv
    BY <2>1 DEF NamesInv
  <2>4. QED BY <2>2, <2>3
<1>6. QED BY <1>3, <1>4, <1>5 DEF IndexInv

\* What starts, grows or is continued leaves a page that is being made alone.
LEMMA PageKept ==
    ASSUME IndexInv, RunsInv', Older, UNCHANGED <<listed, rows, reading, index>>
    PROVE  IndexInv'
<1>1. /\ Len(runs) \in Nat /\ Len(runs') \in Nat
      /\ DOMAIN runs = 1 .. Len(runs) /\ DOMAIN runs' = 1 .. Len(runs')
  BY LenProperties DEF IndexInv, RunsInv
<1>2. Len(rows) \in Nat /\ Len(listed) \in Nat /\ Len(rows) <= Len(listed)
  BY LenProperties DEF IndexInv, RowsInv, ListedInv
<1>3. \A n \in 1 .. Len(runs) :
         n \in 1 .. Len(runs') /\ runs'[n].asked = runs[n].asked /\ runs'[n].joined = runs[n].joined
  BY <1>1 DEF Older
<1>4. ListedInv'
  BY <1>3 DEF IndexInv, ListedInv
<1>5. RowsInv'
  BY <1>3 DEF IndexInv, RowsInv
<1>6. \A i \in 1 .. Len(rows) : rows[i].run \in 1 .. Len(runs)
  <2>1. \A i \in 1 .. Len(rows) : rows[i].run = listed[i] /\ i \in 1 .. Len(listed)
    BY <1>2 DEF IndexInv, RowsInv
  <2>2. QED BY <2>1 DEF IndexInv, ListedInv
<1>7. NamesInv'
  BY <1>3, <1>6 DEF IndexInv, NamesInv
<1>8. QED BY <1>4, <1>5, <1>7 DEF IndexInv

\* A page begun, ...
LEMMA ListKeeps == ASSUME IndexInv, RunsInv', List PROVE IndexInv'
<1>1. /\ ~reading /\ listed' = NewestRuns([i \in DOMAIN runs |-> i])
      /\ reading' = TRUE /\ index' = <<>> /\ UNCHANGED <<runs, rows>>
  BY DEF List
<1>2. ListedInv'
  BY <1>1, NewestIsNewest DEF ListedInv, IndexInv, RunsInv
<1>3. /\ rows = <<>> /\ Len(<<>>) = 0 /\ Len(listed') \in Nat
      /\ <<>> \in Seq(Rows)
  BY <1>1, <1>2, EmptySeq, LenProperties DEF ListedInv, IndexInv, RowsInv
<1>4. RowsInv'
  BY <1>1, <1>3 DEF RowsInv
<1>5. NamesInv'
  BY <1>1, <1>3 DEF NamesInv
<1>6. QED BY <1>2, <1>4, <1>5 DEF IndexInv

\* ... a row of it made, ...
LEMMA ReadKeeps == ASSUME IndexInv, RunsInv', Read PROVE IndexInv'
<1> DEFINE l == Len(rows)
           n == listed[l + 1]
           row == Row(n, runs[n].snapshot # <<>>, Preview(runs[n].snapshot))
<1>1. /\ reading /\ l < Len(listed) /\ rows' = Append(rows, row)
      /\ UNCHANGED <<runs, listed, reading, index>>
  BY DEF Read
<1>2. l \in Nat /\ Len(listed) \in Nat /\ Len(runs) \in Nat /\ DOMAIN runs = 1 .. Len(runs)
  BY LenProperties DEF IndexInv, RunsInv, RowsInv, ListedInv
<1>3. n \in 1 .. Len(runs)
  BY <1>1, <1>2 DEF IndexInv, ListedInv
<1>4. runs[n] \in Runs /\ RunOk(runs[n])
  BY <1>2, <1>3, LenProperties DEF IndexInv, RunsInv
<1>5. /\ Preview(runs[n].snapshot) \in Questions
      /\ runs[n].snapshot # <<>> /\ ~runs[n].joined => Preview(runs[n].snapshot) = runs[n].asked
  <2>1. runs[n].snapshot \in Seq(Seq(Parts))
    BY <1>4 DEF Runs
  <2>2. CASE runs[n].snapshot = <<>>
    <3>1. Told(runs[n].snapshot, None) /\ None \in Questions
      BY <2>2 DEF Told, Questions
    <3>2. QED BY <2>1, <2>2, <3>1, PreviewIsTold
  <2>3. CASE runs[n].snapshot # <<>>
    <3>1. PICK q \in Questions :
             Told(runs[n].snapshot, q) /\ (~runs[n].joined => q = runs[n].asked)
      BY <1>4, <2>3 DEF RunOk, Asks
    <3>2. Preview(runs[n].snapshot) = q
      BY <2>1, <3>1, PreviewIsTold
    <3>3. QED BY <3>1, <3>2
  <2>4. QED BY <2>2, <2>3
<1>6. /\ row \in Rows /\ row.run = n /\ row.continuable = (runs[n].snapshot # <<>>)
      /\ row.preview = Preview(runs[n].snapshot)
  BY <1>2, <1>3, <1>5 DEF Row, Rows
<1> HIDE DEF row, n
<1>7. /\ rows' \in Seq(Rows) /\ Len(rows') = l + 1 /\ rows'[l + 1] = row
      /\ \A i \in 1 .. l : rows'[i] = rows[i]
  BY <1>1, <1>6, AppendProperties DEF IndexInv, RowsInv
<1> HIDE DEF l
<1>8. \A i \in 1 .. Len(rows') : i = l + 1 \/ i \in 1 .. l
  BY <1>2, <1>7
<1>9. RowsInv'
  <2>1. \A i \in 1 .. Len(rows') : rows'[i].run = listed[i]
    BY <1>6, <1>7, <1>8 DEF IndexInv, RowsInv, n, l
  <2>2. Len(rows') <= Len(listed)
    BY <1>1, <1>2, <1>7
  <2>3. QED BY <1>1, <1>7, <2>1, <2>2 DEF IndexInv, RowsInv
<1>10. NamesInv'
  BY <1>1, <1>5, <1>6, <1>7, <1>8 DEF IndexInv, NamesInv, l
<1>11. ListedInv'
  BY <1>1 DEF IndexInv, ListedInv
<1>12. QED BY <1>9, <1>10, <1>11 DEF IndexInv

\* ... and the page answered.
LEMMA RespondKeeps == ASSUME IndexInv, RunsInv', Respond PROVE IndexInv'
<1>1. /\ index' = Reverse(rows) /\ reading' = FALSE /\ listed' = <<>> /\ rows' = <<>>
      /\ runs' = runs /\ Len(rows) = Len(listed)
  BY DEF Respond
<1>2. /\ index' \in Seq(Rows) /\ Len(index') = Len(rows) /\ Len(rows) \in Nat
      /\ \A i \in 1 .. Len(rows) : index'[i] = rows[(Len(rows) - i) + 1]
  BY <1>1, ReverseIs DEF IndexInv, RowsInv
<1>3. \A i \in 1 .. Len(rows) : rows[i].run \in 1 .. Len(runs)
  <2>1. \A i \in 1 .. Len(rows) : rows[i].run = listed[i] /\ i \in 1 .. Len(listed)
    BY <1>1 DEF IndexInv, RowsInv
  <2>2. QED BY <2>1 DEF IndexInv, ListedInv
<1>4. \A i \in 1 .. Len(index') : index'[i].run \in 1 .. Len(runs)
  <2> SUFFICES ASSUME NEW i \in 1 .. Len(rows) PROVE index'[i].run \in 1 .. Len(runs)
    BY <1>2
  <2>1. (Len(rows) - i) + 1 \in 1 .. Len(rows)
    BY <1>2
  <2>2. QED BY <1>2, <1>3, <2>1
<1>5. Len(<<>>) = 0 /\ <<>> \in Seq(Rows) /\ <<>> \in Seq(Nat)
  BY EmptySeq
<1>6. RowsInv'
  <2>1. Len(rows') = 0 /\ Len(listed') = 0
    BY <1>1, <1>5
  <2>2. rows' \in Seq(Rows) /\ index' \in Seq(Rows) /\ reading' \in BOOLEAN /\ rows' = <<>>
    BY <1>1, <1>2, <1>5
  <2>3. Len(rows') <= Len(listed') /\ \A i \in 1 .. Len(rows') : rows'[i].run = listed'[i]
    BY <2>1
  <2>4. \A i \in 1 .. Len(index') : index'[i].run \in 1 .. Len(runs')
    BY <1>1, <1>4
  <2>5. QED BY <2>2, <2>3, <2>4 DEF RowsInv
<1>7. NamesInv'
  BY <1>1, <1>5 DEF NamesInv
<1>8. ListedInv'
  BY <1>1, <1>5, RunIndexAssumption DEF ListedInv
<1>9. QED BY <1>6, <1>7, <1>8 DEF IndexInv

\* Every step keeps the invariant, the view's and the runs' beside it.
LEMMA IndexKept == IndexInv /\ [Next]_vars => IndexInv'
<1> SUFFICES ASSUME IndexInv, [Next]_vars PROVE IndexInv'
  OBVIOUS
<1>1. RunsInv' /\ Older
  BY RunsKept DEF IndexInv
<1>2. CASE UNCHANGED <<listed, rows, reading, index>>
  BY <1>1, <1>2, PageKept
<1>3. CASE Start \/ (\E n \in DOMAIN runs : Continue(n)) \/ UNCHANGED vars
  BY <1>2, <1>3 DEF Start, Continue, vars
<1>4. ASSUME NEW n \in DOMAIN runs, Answered(n) \/ Returned(n) PROVE IndexInv'
  BY <1>2, <1>4 DEF Answered, Returned, Grow
<1>5. QED BY <1>1, <1>3, <1>4, ListKeeps, ReadKeeps, RespondKeeps DEF Next

\* The invariant says what is promised of the rows.
LEMMA IndexMeans == IndexInv => RowsAreNamed
<1> SUFFICES ASSUME IndexInv PROVE RowsAreNamed
  OBVIOUS
<1>1. /\ Len(runs) \in Nat /\ DOMAIN runs = 1 .. Len(runs)
      /\ \A n \in DOMAIN runs : runs[n] \in Runs
      /\ Len(rows) \in Nat /\ DOMAIN rows = 1 .. Len(rows)
      /\ DOMAIN index = 1 .. Len(index)
      /\ Len(listed) \in Nat
  BY LenProperties DEF IndexInv, RunsInv, RowsInv, ListedInv
<1>2. \A i \in 1 .. Len(rows) : rows[i].run \in 1 .. Len(runs)
  <2>1. \A i \in 1 .. Len(rows) : rows[i].run = listed[i] /\ i \in 1 .. Len(listed)
    BY <1>1 DEF IndexInv, RowsInv
  <2>2. QED BY <2>1 DEF IndexInv, ListedInv
<1>3. NamedByItsOwnQuestion
  BY <1>1 DEF NamedByItsOwnQuestion, IndexInv, NamesInv, Range
<1>4. TypeOK
  <2>1. \A n \in DOMAIN runs :
          /\ runs[n].history \in Seq(Seq(Parts))
          /\ runs[n].snapshot \in Seq(Seq(Parts))
          /\ runs[n].asked \in Numbers \union {None}
          /\ runs[n].joined \in BOOLEAN
          /\ IsPrefix(runs[n].snapshot, runs[n].history)
    BY <1>1 DEF IndexInv, RunsInv, RunOk, Runs, Questions
  <2>2. listed \in Seq(DOMAIN runs)
    <3>1. \A i \in 1 .. Len(listed) : listed[i] \in DOMAIN runs
      BY <1>1 DEF IndexInv, ListedInv
    <3>2. listed = [i \in 1 .. Len(listed) |-> listed[i]]
      BY LenProperties DEF IndexInv, ListedInv
    <3>3. QED BY <1>1, <3>1, <3>2
  <2>3. \A r \in Range(rows) \union Range(index) :
          r \in [run : DOMAIN runs, continuable : BOOLEAN, preview : Numbers \union {None}]
    <3>1. \A i \in DOMAIN rows : rows[i] \in Rows /\ rows[i].run \in DOMAIN runs
      BY <1>1, <1>2, LenProperties DEF IndexInv, RowsInv
    <3>2. \A i \in DOMAIN index : index[i] \in Rows /\ index[i].run \in DOMAIN runs
      BY <1>1, LenProperties DEF IndexInv, RowsInv
    <3>3. \A r \in Rows : r.run \in DOMAIN runs =>
            r \in [run : DOMAIN runs, continuable : BOOLEAN, preview : Numbers \union {None}]
      BY DEF Rows, Questions
    <3>4. QED BY <3>1, <3>2, <3>3 DEF Range
  <2>4. (Limit > 0 => Len(listed) <= Limit) /\ Len(rows) <= Len(listed) /\ reading \in BOOLEAN
    BY DEF IndexInv, ListedInv, RowsInv
  <2>5. QED BY <2>1, <2>2, <2>3, <2>4 DEF TypeOK
<1>5. QED BY <1>3, <1>4 DEF RowsAreNamed

\* And so it holds of every behaviour.
LEMMA IndexAlways == MCSpec => []IndexInv
<1>1. MCInit => IndexInv
  BY IndexStart DEF MCInit
<1>2. IndexInv /\ [MCNext]_<<view, vars, threadVars, toolVars>> => IndexInv'
  <2>1. [MCNext]_<<view, vars, threadVars, toolVars>> => [Next]_vars
    BY DEF MCNext
  <2>2. QED BY <2>1, IndexKept
<1>3. QED BY <1>1, <1>2, PTL DEF MCSpec

(* RowsAreNamed: a continuable row of runs/ is named by the question its   *)
(* own run was started with, whatever was said before, however the model   *)
(* went on and through an approval that asks nothing; only a question      *)
(* without words that joined a round's returns is passed over.             *)
THEOREM RowsAreAlwaysNamed == MCSpec => []RowsAreNamed
BY IndexAlways, IndexMeans, PTL

\* The answer is the page turned round.
LEMMA RespondIsNewestFirst ==
    ASSUME IndexInv, Respond
    PROVE  /\ listed # <<>> => index'[1].run = Last(listed)
           /\ \A i, j \in DOMAIN index' : i < j => index'[i].run = index'[j].run + (j - i)
           /\ Limit > 0 => Len(index') <= Limit
           /\ listed # <<>> /\ Last(index').run > 1 => Len(index') = Limit
<1> DEFINE l == Len(listed)
<1>1. index' = Reverse(rows) /\ Len(rows) = l
  BY DEF Respond
<1>2. /\ Len(index') = l /\ l \in Nat /\ DOMAIN index' = 1 .. l
      /\ \A i \in 1 .. l : index'[i] = rows[(l - i) + 1]
  BY <1>1, ReverseIs DEF IndexInv, RowsInv
<1>3. \A i \in 1 .. l : listed[i] = listed[1] + (i - 1) /\ listed[i] \in Nat
  BY ElementOfSeq DEF IndexInv, ListedInv
<1>4. \A i \in 1 .. l : rows[i].run = listed[i]
  BY <1>1 DEF IndexInv, RowsInv
<1>5. /\ Limit > 0 => l <= Limit
      /\ listed # <<>> /\ listed[1] > 1 => l = Limit
  BY DEF IndexInv, ListedInv
<1>6. listed # <<>> => l # 0
  BY EmptySeq DEF IndexInv, ListedInv
<1>7. Last(listed) = listed[l] /\ Last(index') = index'[l]
  BY <1>2 DEF Last
<1> HIDE DEF l
<1>8. \A i \in 1 .. l : index'[i].run = listed[(l - i) + 1] /\ (l - i) + 1 \in 1 .. l
  <2> SUFFICES ASSUME NEW i \in 1 .. l
               PROVE  index'[i].run = listed[(l - i) + 1] /\ (l - i) + 1 \in 1 .. l
    OBVIOUS
  <2>1. (l - i) + 1 \in 1 .. l
    BY <1>2
  <2>2. QED BY <1>2, <1>4, <2>1
<1>9. \A i \in 1 .. l : index'[i].run = listed[1] + (l - i)
  <2> SUFFICES ASSUME NEW i \in 1 .. l PROVE index'[i].run = listed[1] + (l - i)
    OBVIOUS
  <2>1. listed[(l - i) + 1] = listed[1] + (((l - i) + 1) - 1)
    BY <1>3, <1>8
  <2>2. listed[1] \in Nat
    BY <1>2, <1>3
  <2>3. QED BY <1>2, <1>8, <2>1, <2>2
<1>10. listed # <<>> => index'[1].run = listed[l] /\ index'[l].run = listed[1]
  <2> SUFFICES ASSUME listed # <<>> PROVE index'[1].run = listed[l] /\ index'[l].run = listed[1]
    OBVIOUS
  <2>1. 1 \in 1 .. l /\ l \in 1 .. l /\ (l - 1) + 1 = l /\ (l - l) + 1 = 1
    BY <1>2, <1>6
  <2>2. QED BY <1>8, <2>1
<1>11. ASSUME NEW i \in 1 .. l, NEW j \in 1 .. l PROVE index'[i].run = index'[j].run + (j - i)
  <2>1. listed[1] \in Nat
    BY <1>2, <1>3
  <2>2. QED BY <1>2, <1>9, <2>1
<1>12. QED BY <1>2, <1>5, <1>7, <1>10, <1>11

(* NewestFirst: an answer of runs/ has each of the newest runs there were  *)
(* when it was asked for, once and newest first, as many as run_list_limit *)
(* lets it have, whatever starts while the view awaits the snapshots.      *)
THEOREM AnswersAreNewestFirst == MCSpec => NewestFirst
<1> DEFINE Order ==
      /\ List /\ runs # <<>> => Last(listed') = Len(runs)
      /\ Respond =>
         /\ listed # <<>> => index'[1].run = Last(listed)
         /\ \A i, j \in DOMAIN index' : i < j => index'[i].run = index'[j].run + (j - i)
         /\ Limit > 0 => Len(index') <= Limit
         /\ listed # <<>> /\ Last(index').run > 1 => Len(index') = Limit
<1>1. IndexInv => Order
  <2> SUFFICES ASSUME IndexInv PROVE Order
    OBVIOUS
  <2>1. ASSUME List, runs # <<>> PROVE Last(listed') = Len(runs)
    BY <2>1, NewestIsNewest DEF List, IndexInv, RunsInv
  <2>2. QED BY <2>1, RespondIsNewestFirst
<1> HIDE DEF Order
<1>2. MCSpec => [][Order]_vars
  BY <1>1, IndexAlways, PTL
<1>3. QED BY <1>2 DEF NewestFirst, Order

-----------------------------------------------------------------------------
(* Threads.                                                                *)

Spoken == [id : Messages, content : {NoMessage}]
Items  == [id : Messages \union Activities, content : Contents \union {NoMessage}]
Drawn  == {x \in Items : x.id \in Activities}
Logs   == [event : [id : Activities, content : Contents], after : Messages \union {NoMessage}]

IdsOf(s) == {s[i].id : i \in DOMAIN s}

\* con has what each activity shows.
Shows(con) == Maps(con, Activities, Items) /\ \A a \in Activities : con[a].id = a

\* A thread of messages s and activities o, anc of which is the message each
\* stands beside and con what it shows.
Part(anc, con, k) == [a \in Activities |-> IF anc[a] = k THEN <<con[a]>> ELSE <<>>]
Beside(o, anc, con, k) == Spread(o, Part(anc, con, k))
Block(o, anc, con) == [x \in Spoken |-> Cat(<<x>>, Beside(o, anc, con, x.id))]
Whole(s, o, anc, con) == Cat(Spread(s, Block(o, anc, con)), Beside(o, anc, con, NoMessage))

LEMMA ItemsAre ==
    /\ \A x \in Spoken : x \in Items /\ x.id \in Messages /\ x.id \notin Activities /\ x.id # NoMessage
                         /\ x = Thread!Message(x.id)
    /\ \A m \in Messages : Thread!Message(m) \in Spoken /\ Thread!Message(m).id = m
    /\ \A x \in Drawn : x \in Items /\ x.id \in Activities /\ x.id \notin Messages
    /\ \A a \in Activities, c \in Contents : Thread!Activity(a, c) \in Items /\ Thread!Activity(a, c).id = a
<1>1. Messages \intersect Activities = {} /\ NoMessage \notin Messages
  BY ThreadAssumption DEF Thread!RestoredThreadAssumption
<1>2. \A x \in Spoken : x = [id |-> x.id, content |-> NoMessage]
  BY DEF Spoken
<1>3. \A x \in Spoken : x \in Items /\ x.id \in Messages
  BY DEF Spoken, Items
<1>4. QED BY <1>1, <1>2, <1>3 DEF Spoken, Items, Drawn, Thread!Message, Thread!Activity

LEMMA DrawnAre ==
    /\ \A s \in Seq(Drawn) : s \in Seq(Items)
    /\ \A s \in Seq(Spoken) : s \in Seq(Items)
<1>1. ASSUME NEW S, NEW T, S \subseteq T, NEW s \in Seq(S) PROVE s \in Seq(T)
  <2>1. s \in [1 .. Len(s) -> S] /\ Len(s) \in Nat
    BY LenProperties
  <2>2. s \in [1 .. Len(s) -> T]
    BY <1>1, <2>1
  <2>3. QED BY <2>1, <2>2, SeqDef
<1>2. Drawn \subseteq Items /\ Spoken \subseteq Items
  BY ItemsAre
<1>3. QED BY <1>1, <1>2

LEMMA PartType ==
    ASSUME NEW anc, NEW con, Shows(con), NEW k
    PROVE  Maps(Part(anc, con, k), Activities, Seq(Drawn))
<1>1. \A a \in Activities : con[a] \in Drawn
  BY DEF Shows, Maps, Drawn
<1>2. \A x \in Drawn : <<x>> \in Seq(Drawn) /\ <<>> \in Seq(Drawn)
  BY EmptySeq
<1>3. QED BY <1>1, <1>2 DEF Part, Maps

LEMMA BesideType ==
    ASSUME NEW o \in Seq(Activities), NEW anc, NEW con, Shows(con), NEW k
    PROVE  Beside(o, anc, con, k) \in Seq(Drawn) /\ Beside(o, anc, con, k) \in Seq(Items)
<1>1. Beside(o, anc, con, k) \in Seq(Drawn)
  <2> DEFINE g == Part(anc, con, k)
  <2>1. Maps(g, Activities, Seq(Drawn))
    BY PartType
  <2> HIDE DEF g
  <2>2. Spread(o, g) \in Seq(Drawn)
    BY <2>1, SpreadType
  <2>3. QED BY <2>2 DEF Beside, g
<1>2. QED BY <1>1, DrawnAre

LEMMA BlockType ==
    ASSUME NEW o \in Seq(Activities), NEW anc, NEW con, Shows(con)
    PROVE  Maps(Block(o, anc, con), Spoken, Seq(Items))
<1>1. ASSUME NEW x \in Spoken PROVE Cat(<<x>>, Beside(o, anc, con, x.id)) \in Seq(Items)
  <2> DEFINE b == Beside(o, anc, con, x.id)
             t == <<x>>
  <2>1. b \in Seq(Items) /\ t \in Seq(Items)
    BY BesideType, ItemsAre
  <2> HIDE DEF b, t
  <2>2. Cat(t, b) \in Seq(Items)
    BY <2>1, CatType
  <2>3. QED BY <2>2 DEF b, t
<1>2. QED BY <1>1 DEF Block, Maps

LEMMA WholeType ==
    ASSUME NEW s \in Seq(Spoken), NEW o \in Seq(Activities), NEW anc, NEW con, Shows(con)
    PROVE  /\ Spread(s, Block(o, anc, con)) \in Seq(Items)
           /\ Whole(s, o, anc, con) \in Seq(Items)
<1> DEFINE a == Spread(s, Block(o, anc, con))
           b == Beside(o, anc, con, NoMessage)
<1>1. b \in Seq(Items)
  BY BesideType
<1>2. a \in Seq(Items)
  <2> DEFINE g == Block(o, anc, con)
  <2>1. Maps(g, Spoken, Seq(Items))
    BY BlockType
  <2> HIDE DEF g
  <2>2. Spread(s, g) \in Seq(Items)
    BY <2>1, SpreadType
  <2>3. QED BY <2>2 DEF g
<1> HIDE DEF a, b
<1>3. Cat(a, b) \in Seq(Items)
  BY <1>1, <1>2, CatType
<1>4. QED BY <1>2, <1>3 DEF a, b, Whole

(* Nothing stands where no activity is anchored.                           *)
LEMMA BesideNothing ==
    ASSUME NEW o \in Seq(Activities), NEW anc, NEW con, NEW k, \A a \in ToSet(o) : anc[a] # k
    PROVE  Beside(o, anc, con, k) = <<>>
<1>1. \A a \in ToSet(o) : a \in Activities
  BY LenProperties, ElementOfSeq DEF ToSet
<1>2. \A a \in ToSet(o) : Part(anc, con, k)[a] = <<>>
  BY <1>1 DEF Part
<1> DEFINE g == Part(anc, con, k)
<1> HIDE DEF g
<1>3. Spread(o, g) = <<>>
  BY <1>2, SpreadNothing DEF g
<1>4. QED BY <1>3 DEF Beside, g

(* A message more, while all are anchored before it, comes last.           *)
LEMMA WholeSays ==
    ASSUME NEW s \in Seq(Spoken), NEW o \in Seq(Activities), NEW anc, NEW con, Shows(con),
           NEW x \in Spoken, \A a \in ToSet(o) : anc[a] # x.id /\ anc[a] # NoMessage
    PROVE  Whole(Append(s, x), o, anc, con) = Append(Whole(s, o, anc, con), x)
<1> DEFINE g == Block(o, anc, con)
           w == Spread(s, g)
           t == <<x>>
<1>1. Maps(g, Spoken, Seq(Items)) /\ w \in Seq(Items) /\ x \in Items
  BY BlockType, WholeType, ItemsAre
<1>2. Beside(o, anc, con, x.id) = <<>> /\ Beside(o, anc, con, NoMessage) = <<>>
  BY BesideNothing
<1>3. g[x] = Cat(t, <<>>) /\ t \in Seq(Items)
  BY <1>1, <1>2 DEF Block
<1> HIDE DEF g
<1>4. Spread(Append(s, x), g) = Cat(Spread(s, g), g[x]) /\ Append(s, x) \in Seq(Spoken)
  BY <1>1, SpreadMore, AppendProperties
<1> HIDE DEF w
<1>5. Append(w, x) = Cat(w, t)
  BY <1>1, CatAppend
<1> HIDE DEF t
<1>6. Cat(t, <<>>) = t /\ Cat(w, <<>>) = w /\ Cat(w, t) \in Seq(Items)
  BY <1>1, <1>3, CatNothing, CatType
<1> DEFINE v == Cat(w, t)
<1> HIDE DEF v
<1>7. Cat(v, <<>>) = v
  BY <1>6, CatNothing DEF v
<1>8. Spread(Append(s, x), g) = v
  BY <1>3, <1>4, <1>6 DEF w, v
<1>9. Whole(Append(s, x), o, anc, con) = v
  BY <1>2, <1>7, <1>8 DEF Whole, g
<1>10. Whole(s, o, anc, con) = w
  BY <1>2, <1>6 DEF Whole, g, w
<1>11. QED BY <1>5, <1>9, <1>10 DEF v

(* An activity more, beside the last message, too.                         *)
LEMMA BesideMore ==
    ASSUME NEW o \in Seq(Activities), NEW anc, NEW con, Shows(con), NEW a \in Activities, NEW k
    PROVE  /\ anc[a] = k => Beside(Append(o, a), anc, con, k) = Cat(Beside(o, anc, con, k), <<con[a]>>)
           /\ anc[a] # k => Beside(Append(o, a), anc, con, k) = Beside(o, anc, con, k)
<1> DEFINE g == Part(anc, con, k)
           b == Spread(o, g)
<1>1. Maps(g, Activities, Seq(Drawn)) /\ b \in Seq(Drawn)
  BY PartType, BesideType DEF Beside
<1>2. g[a] = IF anc[a] = k THEN <<con[a]>> ELSE <<>>
  BY DEF Part
<1> HIDE DEF g
<1>3. Spread(Append(o, a), g) = Cat(Spread(o, g), g[a])
  BY <1>1, SpreadMore
<1> HIDE DEF b
<1>4. Cat(b, <<>>) = b
  BY <1>1, CatNothing
<1>5. QED BY <1>2, <1>3, <1>4 DEF Beside, g, b

LEMMA BesideAlike ==
    ASSUME NEW o, NEW anc, NEW con, NEW an2, NEW co2, NEW k,
           ToSet(o) \subseteq Activities,
           \A a \in ToSet(o) : anc[a] = an2[a] /\ con[a] = co2[a]
    PROVE  Beside(o, anc, con, k) = Beside(o, an2, co2, k)
<1> DEFINE g == Part(anc, con, k)
           h == Part(an2, co2, k)
<1>1. \A a \in ToSet(o) : g[a] = h[a]
  BY DEF Part
<1> HIDE DEF g, h
<1>2. Spread(o, g) = Spread(o, h)
  BY <1>1, SpreadAlike
<1>3. QED BY <1>2 DEF Beside, g, h

\* Each message is another.
LEMMA WholeDraws ==
    ASSUME NEW s \in Seq(Spoken), NEW x \in Spoken, Distinct(Append(s, x)),
           NEW o \in Seq(Activities), NEW anc, NEW con, Shows(con),
           NEW a \in Activities, anc[a] = x.id,
           \A b \in ToSet(o) : anc[b] # NoMessage
    PROVE  Whole(Append(s, x), Append(o, a), anc, con) = Append(Whole(Append(s, x), o, anc, con), con[a])
<1> DEFINE p == Append(o, a)
           g == Block(o, anc, con)
           h == Block(p, anc, con)
           b == Beside(o, anc, con, x.id)
           w == Spread(s, g)
           t == <<x>>
           v == <<con[a]>>
<1>1. /\ Maps(g, Spoken, Seq(Items)) /\ w \in Seq(Items) /\ b \in Seq(Items)
      /\ t \in Seq(Items) /\ con[a] \in Items /\ v \in Seq(Items)
      /\ p \in Seq(Activities) /\ ToSet(p) = ToSet(o) \union {a}
  <2>1. x \in Items /\ con[a] \in Items
    BY ItemsAre DEF Shows, Maps
  <2>2. QED BY <2>1, BlockType, WholeType, BesideType, AppendProperties, AmongMore
<1>2. Beside(o, anc, con, NoMessage) = <<>> /\ Beside(p, anc, con, NoMessage) = <<>>
  <2>1. x.id # NoMessage
    BY ItemsAre
  <2>2. \A c \in ToSet(p) : anc[c] # NoMessage
    BY <1>1, <2>1
  <2> HIDE DEF p
  <2>3. QED BY <1>1, <2>2, BesideNothing
<1>3. \A k : /\ anc[a] = k => Beside(p, anc, con, k) = Cat(Beside(o, anc, con, k), v)
             /\ anc[a] # k => Beside(p, anc, con, k) = Beside(o, anc, con, k)
  <2> SUFFICES ASSUME NEW k
               PROVE  /\ anc[a] = k => Beside(p, anc, con, k) = Cat(Beside(o, anc, con, k), v)
                      /\ anc[a] # k => Beside(p, anc, con, k) = Beside(o, anc, con, k)
    OBVIOUS
  <2> HIDE DEF g, h, b, w, t
  <2>1. QED BY BesideMore
<1>4. /\ Beside(p, anc, con, x.id) = Cat(b, v)
      /\ \A y \in Spoken : y.id # x.id => Beside(p, anc, con, y.id) = Beside(o, anc, con, y.id)
  <2> HIDE DEF p, v
  <2>1. QED BY <1>3
<1>5. g[x] = Cat(t, b) /\ h[x] = Cat(t, Cat(b, v))
  BY <1>4 DEF Block
<1>6. \A y \in ToSet(s) : g[y] = h[y]
  <2>1. x \notin ToSet(s) /\ \A y \in ToSet(s) : y \in Spoken
    BY DistinctMore, LenProperties, ElementOfSeq DEF ToSet
  <2>2. \A y \in ToSet(s) : y.id # x.id
    BY <2>1, ItemsAre
  <2> HIDE DEF p
  <2>3. QED BY <1>4, <2>1, <2>2 DEF Block
<1>7. Maps(h, Spoken, Seq(Items))
  <2> HIDE DEF p
  <2>1. QED BY <1>1, BlockType
<1> HIDE DEF g, h, p
<1>8. Spread(s, h) = w
  BY <1>6, SpreadAlike
<1>9. Spread(Append(s, x), g) = Cat(w, g[x]) /\ Spread(Append(s, x), h) = Cat(w, h[x])
  BY <1>1, <1>7, <1>8, SpreadMore
<1> DEFINE c == Cat(t, b)
           d == Cat(w, c)
<1> HIDE DEF w, t, b, v
<1>10. /\ c \in Seq(Items) /\ d \in Seq(Items)
       /\ Cat(t, Cat(b, v)) = Cat(c, v) /\ Cat(w, Cat(c, v)) = Cat(d, v)
  <2>1. c \in Seq(Items)
    BY <1>1, CatType
  <2>2. Cat(t, Cat(b, v)) = Cat(c, v)
    BY <1>1, CatAssociates
  <2> HIDE DEF c
  <2>3. d \in Seq(Items) /\ Cat(w, Cat(c, v)) = Cat(d, v)
    BY <1>1, <2>1, CatType, CatAssociates
  <2>4. QED BY <2>1, <2>2, <2>3
<1>11. Spread(Append(s, x), g) = d /\ Spread(Append(s, x), h) = Cat(d, v)
  BY <1>5, <1>9, <1>10
<1> DEFINE e == Cat(d, v)
<1> HIDE DEF c, d
<1>12. e \in Seq(Items) /\ Cat(d, <<>>) = d
  BY <1>1, <1>10, CatType, CatNothing
<1> HIDE DEF e
<1>13. Cat(e, <<>>) = e
  BY <1>12, CatNothing
<1>14. Append(d, con[a]) = e
  <2> DEFINE u == con[a]
  <2> HIDE DEF u
  <2>1. u \in Items
    BY <1>1 DEF u
  <2>2. Append(d, u) = Cat(d, <<u>>)
    BY <1>10, <2>1, CatAppend
  <2>3. QED BY <2>2 DEF e, u, v
<1>15. Whole(Append(s, x), o, anc, con) = d
  BY <1>2, <1>11, <1>12 DEF Whole, g
<1>16. Whole(Append(s, x), p, anc, con) = e
  BY <1>2, <1>11, <1>13 DEF Whole, h, e
<1>17. QED BY <1>14, <1>15, <1>16 DEF p

(* Another content of an activity takes the place of the one it has.       *)
Redrawn(x) == [y \in Items |-> IF y.id = x.id THEN x ELSE y]

\* co2 is con but for what x now shows.
Redraws(con, x, co2) == co2 = [con EXCEPT ![x.id] = x]

LEMMA RedrawnType == ASSUME NEW x \in Drawn PROVE Maps(Redrawn(x), Items, Items)
BY ItemsAre DEF Redrawn, Maps

LEMMA BesideRedraws ==
    ASSUME NEW o \in Seq(Activities), NEW anc, NEW con, Shows(con), NEW x \in Drawn, NEW k,
           NEW co2, Redraws(con, x, co2)
    PROVE  Beside(o, anc, co2, k) = Mapped(Beside(o, anc, con, k), Redrawn(x))
<1> DEFINE f == Redrawn(x)
           g == Part(anc, con, k)
           h == Part(anc, co2, k)
           j == [a \in Activities |-> Mapped(g[a], f)]
<1>0. x \in Items /\ x.id \in Activities /\ con \in [Activities -> Items]
  BY ItemsAre DEF Shows, Maps
<1>1. Maps(g, Activities, Seq(Items)) /\ Maps(f, Items, Items)
  <2>1. Maps(g, Activities, Seq(Drawn))
    BY PartType
  <2>2. Maps(g, Activities, Seq(Items))
    <3> HIDE DEF g
    <3>1. QED BY <2>1, DrawnAre DEF Maps
  <2>3. QED BY <2>2, RedrawnType
<1>2. \A a \in ToSet(o) : a \in Activities
  BY LenProperties, ElementOfSeq DEF ToSet
<1>3. \A a \in Activities : h[a] = j[a]
  <2> SUFFICES ASSUME NEW a \in Activities PROVE h[a] = Mapped(g[a], f)
    OBVIOUS
  <2>1. f[con[a]] = co2[a]
    BY <1>0 DEF Shows, Redrawn, Redraws
  <2>2. CASE anc[a] = k
    <3>1. g[a] = <<con[a]>> /\ h[a] = <<co2[a]>>
      BY <2>2 DEF Part
    <3>2. Mapped(<<con[a]>>, f) = <<f[con[a]]>>
      BY MappedOne
    <3>3. QED BY <2>1, <3>1, <3>2
  <2>3. CASE anc[a] # k
    <3>1. g[a] = <<>> /\ h[a] = <<>>
      BY <2>3 DEF Part
    <3>2. QED BY <3>1, MappedNone
  <2>4. QED BY <2>2, <2>3
<1> HIDE DEF f, g, h
<1>4. Mapped(Spread(o, g), f) = Spread(o, j)
  BY <1>1, SpreadMapped
<1>5. \A a \in ToSet(o) : h[a] = j[a]
  BY <1>2, <1>3
<1> HIDE DEF j
<1>6. Spread(o, h) = Spread(o, j)
  BY <1>5, SpreadAlike
<1>7. QED BY <1>4, <1>6 DEF Beside, f, g, h

LEMMA WholeRedraws ==
    ASSUME NEW s \in Seq(Spoken), NEW o \in Seq(Activities), NEW anc, NEW con, Shows(con),
           NEW x \in Drawn, NEW co2, Redraws(con, x, co2)
    PROVE  Whole(s, o, anc, co2) = Mapped(Whole(s, o, anc, con), Redrawn(x))
<1> DEFINE f == Redrawn(x)
           g == Block(o, anc, con)
           h == Block(o, anc, co2)
           j == [y \in Spoken |-> Mapped(g[y], f)]
           w == Spread(s, g)
           b == Beside(o, anc, con, NoMessage)
<1>1. /\ Maps(g, Spoken, Seq(Items)) /\ Maps(f, Items, Items)
      /\ w \in Seq(Items) /\ b \in Seq(Items)
  BY BlockType, RedrawnType, WholeType, BesideType
<1>2. \A k : Beside(o, anc, co2, k) = Mapped(Beside(o, anc, con, k), f)
  BY BesideRedraws
<1>3. ASSUME NEW y \in Spoken PROVE h[y] = Mapped(g[y], f)
  <2> DEFINE t == <<y>>
             c == Beside(o, anc, con, y.id)
  <2>1. y \in Items /\ y.id # x.id
    BY ItemsAre
  <2>2. f[y] = y
    BY <2>1 DEF Redrawn
  <2>3. g[y] = Cat(t, c) /\ h[y] = Cat(t, Mapped(c, f))
    BY <1>2 DEF Block
  <2>4. Mapped(t, f) = t
    BY <2>2, MappedOne
  <2>5. t \in Seq(Items) /\ c \in Seq(Items)
    BY <2>1, BesideType
  <2> HIDE DEF t, c, f, g, h
  <2>6. Mapped(Cat(t, c), f) = Cat(Mapped(t, f), Mapped(c, f))
    BY <1>1, <2>5, MappedCat
  <2>7. QED BY <2>3, <2>4, <2>6
<1> HIDE DEF f, g, h
<1>4. Mapped(w, f) = Spread(s, j)
  BY <1>1, SpreadMapped
<1>5. \A y \in ToSet(s) : h[y] = j[y]
  <2>1. \A y \in ToSet(s) : y \in Spoken
    BY LenProperties, ElementOfSeq DEF ToSet
  <2>2. QED BY <1>3, <2>1
<1> HIDE DEF j
<1>6. Spread(s, h) = Spread(s, j)
  BY <1>5, SpreadAlike
<1> HIDE DEF w, b
<1>7. Mapped(Cat(w, b), f) = Cat(Mapped(w, f), Mapped(b, f))
  BY <1>1, MappedCat
<1>8. Whole(s, o, anc, con) = Cat(w, b)
  BY DEF Whole, w, b, g
<1>9. Whole(s, o, anc, co2) = Cat(Mapped(w, f), Mapped(b, f))
  BY <1>2, <1>4, <1>6 DEF Whole, b, h
<1>10. QED BY <1>7, <1>8, <1>9 DEF f

-----------------------------------------------------------------------------
(* Nothing is missing.                                                     *)

(* The messages of a thread are those of the row, in their order.          *)
LEMMA WholeSaid ==
    ASSUME NEW s \in Seq(Spoken), NEW o \in Seq(Activities), NEW anc, NEW con, Shows(con), NEW W,
           \A x \in Items : x \in W <=> x.id \in Messages
    PROVE  Sift(Whole(s, o, anc, con), W) = s
<1> DEFINE g == Block(o, anc, con)
           w == Spread(s, g)
           b == Beside(o, anc, con, NoMessage)
           h == [x \in Spoken |-> Sift(g[x], W)]
<1>1. /\ Maps(g, Spoken, Seq(Items)) /\ w \in Seq(Items) /\ b \in Seq(Items)
  BY BlockType, WholeType, BesideType
<1>2. ASSUME NEW k PROVE Sift(Beside(o, anc, con, k), W) = <<>>
  <2> DEFINE c == Beside(o, anc, con, k)
  <2>1. c \in Seq(Drawn)
    BY BesideType
  <2>2. Drawn \intersect W = {}
    BY ItemsAre
  <2> HIDE DEF c
  <2>3. Sift(c, W) = <<>>
    BY <2>1, <2>2, SiftNothing
  <2>4. QED BY <2>3 DEF c
<1>3. ASSUME NEW x \in Spoken PROVE h[x] = <<x>>
  <2> DEFINE t == <<x>>
             c == Beside(o, anc, con, x.id)
  <2>1. x \in Items /\ x \in W
    BY ItemsAre
  <2>2. t \in Seq(Items) /\ c \in Seq(Items) /\ g[x] = Cat(t, c)
    BY <2>1, BesideType DEF Block
  <2>3. Sift(t, W) = t
    BY <2>1, SiftOneIs
  <2>4. Sift(c, W) = <<>>
    BY <1>2
  <2> HIDE DEF t, c, g
  <2>5. Sift(Cat(t, c), W) = Cat(Sift(t, W), Sift(c, W)) /\ Cat(t, <<>>) = t
    BY <2>2, SiftTogether, CatNothing
  <2>6. Sift(g[x], W) = t
    BY <2>2, <2>3, <2>4, <2>5
  <2>7. QED BY <2>6 DEF t
<1>4. Sift(b, W) = <<>>
  BY <1>2
<1> HIDE DEF g
<1>5. Sift(w, W) = Spread(s, h)
  BY <1>1, SpreadSift
<1> HIDE DEF h
<1>6. Spread(s, h) = s
  <2>1. \A x \in ToSet(s) : x \in Spoken
    BY LenProperties, ElementOfSeq DEF ToSet
  <2>2. \A x \in ToSet(s) : h[x] = <<x>>
    BY <1>3, <2>1
  <2>3. QED BY <2>2, SpreadSelf
<1> HIDE DEF w, b
<1>7. Sift(Cat(w, b), W) = Cat(Sift(w, W), Sift(b, W))
  BY <1>1, SiftTogether
<1>8. Cat(s, <<>>) = s
  BY CatNothing
<1>9. Whole(s, o, anc, con) = Cat(w, b)
  BY DEF Whole, w, b, g
<1>10. QED BY <1>4, <1>5, <1>6, <1>7, <1>8, <1>9

\* The items of an activity.
AreOf(W, a) == \A x \in Items : x \in W <=> x.id = a

\* What there is of it beside a message.
LEMMA BesideOnce ==
    ASSUME NEW o \in Seq(Activities), Distinct(o), NEW anc, NEW con, Shows(con), NEW k,
           NEW a \in ToSet(o), NEW W, AreOf(W, a)
    PROVE  /\ anc[a] = k => Sift(Beside(o, anc, con, k), W) = <<con[a]>>
           /\ anc[a] # k => Sift(Beside(o, anc, con, k), W) = <<>>
<1> DEFINE g == Part(anc, con, k)
           h == [b \in Activities |-> Sift(g[b], W)]
<1>1. Maps(g, Activities, Seq(Drawn))
  BY PartType
<1>2. a \in Activities /\ \A b \in ToSet(o) : b \in Activities
  BY LenProperties, ElementOfSeq DEF ToSet
<1>3. ASSUME NEW b \in Activities PROVE Sift(g[b], W) = IF b = a THEN g[b] ELSE <<>>
  <2>1. con[b] \in W <=> b = a
    BY DEF Shows, Maps, AreOf
  <2>2. CASE anc[b] = k
    <3>1. g[b] = <<con[b]>>
      BY <2>2 DEF Part
    <3>2. Sift(<<con[b]>>, W) = IF con[b] \in W THEN <<con[b]>> ELSE <<>>
      BY SiftOneIs
    <3>3. QED BY <2>1, <3>1, <3>2
  <2>3. CASE anc[b] # k
    <3>1. g[b] = <<>>
      BY <2>3 DEF Part
    <3>2. QED BY <3>1, SiftNone
  <2>4. QED BY <2>2, <2>3
<1> HIDE DEF g
<1>4. Sift(Spread(o, g), W) = Spread(o, h)
  BY <1>1, SpreadSift
<1>5. Maps(h, Activities, Seq(Drawn)) /\ h[a] = g[a] /\ \A b \in ToSet(o) : b # a => h[b] = <<>>
  <2>1. \A b \in Activities : g[b] \in Seq(Drawn)
    BY <1>1 DEF Maps
  <2>2. QED BY <1>2, <1>3, <2>1, SiftType DEF Maps
<1> HIDE DEF h
<1>6. Spread(o, h) = h[a]
  BY <1>5, SpreadOnly
<1>7. Sift(Beside(o, anc, con, k), W) = g[a]
  BY <1>4, <1>5, <1>6 DEF Beside, g
<1>8. QED BY <1>2, <1>7 DEF Part, g

(* Each activity of a thread is there once.                                *)
LEMMA WholeDrawn ==
    ASSUME NEW s \in Seq(Spoken), Distinct(s), NEW o \in Seq(Activities), Distinct(o),
           NEW anc, NEW con, Shows(con), NEW a \in ToSet(o), anc[a] = NoMessage \/ anc[a] \in IdsOf(s),
           NEW W, AreOf(W, a)
    PROVE  Sift(Whole(s, o, anc, con), W) = <<con[a]>>
<1> DEFINE g == Block(o, anc, con)
           w == Spread(s, g)
           b == Beside(o, anc, con, NoMessage)
           h == [x \in Spoken |-> Sift(g[x], W)]
           v == <<con[a]>>
<1>0. a \in Activities /\ \A x \in ToSet(s) : x \in Spoken
  BY LenProperties, ElementOfSeq DEF ToSet
<1>1. /\ Maps(g, Spoken, Seq(Items)) /\ w \in Seq(Items) /\ b \in Seq(Items) /\ v \in Seq(Items)
  <2>1. con[a] \in Items
    BY <1>0 DEF Shows, Maps
  <2>2. QED BY <2>1, BlockType, WholeType, BesideType
<1>2. ASSUME NEW k PROVE Sift(Beside(o, anc, con, k), W) = IF anc[a] = k THEN v ELSE <<>>
  <2> HIDE DEF g, w, b, h
  <2>1. QED BY BesideOnce
<1>3. ASSUME NEW x \in Spoken PROVE h[x] = IF anc[a] = x.id THEN v ELSE <<>>
  <2> DEFINE t == <<x>>
             c == Beside(o, anc, con, x.id)
             r == IF anc[a] = x.id THEN v ELSE <<>>
  <2>1. x \in Items /\ x \notin W
    BY <1>0, ItemsAre DEF AreOf
  <2>2. t \in Seq(Items) /\ c \in Seq(Items) /\ g[x] = Cat(t, c)
    BY <2>1, BesideType DEF Block
  <2>3. Sift(t, W) = <<>>
    BY <2>1, SiftOneIs
  <2>4. Sift(c, W) = r /\ r \in Seq(Items)
    BY <1>1, <1>2, EmptySeq
  <2> HIDE DEF t, c, r, g
  <2>5. Sift(Cat(t, c), W) = Cat(Sift(t, W), Sift(c, W)) /\ Cat(<<>>, r) = r
    BY <2>2, <2>4, SiftTogether, CatNothing
  <2>6. Sift(g[x], W) = r
    BY <2>2, <2>3, <2>4, <2>5
  <2>7. QED BY <2>6 DEF r
<1>4. Sift(b, W) = IF anc[a] = NoMessage THEN v ELSE <<>>
  BY <1>2
<1> HIDE DEF g
<1>5. Sift(w, W) = Spread(s, h)
  BY <1>1, SpreadSift
<1>6. Maps(h, Spoken, Seq(Items))
  <2>1. \A x \in Spoken : g[x] \in Seq(Items)
    BY <1>1 DEF Maps
  <2>2. QED BY <2>1, SiftType DEF Maps
<1> HIDE DEF h
<1>7. Cat(Spread(s, h), IF anc[a] = NoMessage THEN v ELSE <<>>) = v
  <2>1. CASE anc[a] = NoMessage
    <3>1. \A x \in ToSet(s) : h[x] = <<>>
      BY <1>0, <1>3, <2>1, ItemsAre
    <3>2. Spread(s, h) = <<>>
      BY <3>1, SpreadNothing
    <3> HIDE DEF v
    <3>3. Cat(<<>>, v) = v
      BY <1>1, CatNothing
    <3>4. QED BY <2>1, <3>2, <3>3
  <2>2. CASE anc[a] # NoMessage
    <3>1. PICK e \in ToSet(s) : anc[a] = e.id
      BY <2>2 DEF IdsOf, ToSet
    <3>2. \A x \in ToSet(s) : x # e => h[x] = <<>>
      <4>1. \A x \in ToSet(s) : x.id = e.id => x = e
        BY <1>0, ItemsAre
      <4>2. QED BY <1>0, <1>3, <3>1, <4>1
    <3>3. Spread(s, h) = h[e]
      BY <1>6, <3>2, SpreadOnly
    <3>4. h[e] = v
      BY <1>0, <1>3, <3>1
    <3> HIDE DEF v
    <3>5. Cat(v, <<>>) = v
      BY <1>1, CatNothing
    <3>6. QED BY <2>2, <3>3, <3>4, <3>5
  <2>3. QED BY <2>1, <2>2
<1> HIDE DEF w, b
<1>8. Sift(Cat(w, b), W) = Cat(Sift(w, W), Sift(b, W))
  BY <1>1, SiftTogether
<1>9. Whole(s, o, anc, con) = Cat(w, b)
  BY DEF Whole, w, b, g
<1>10. QED BY <1>4, <1>5, <1>7, <1>8, <1>9

-----------------------------------------------------------------------------
(* The log.                                                                *)

LoggedIn(l) == [i \in DOMAIN l |-> l[i].event.id]
Places(l, a) == {i \in DOMAIN l : l[i].event.id = a}
FirstOf(l, a) == CHOOSE i \in Places(l, a) : \A j \in Places(l, a) : i <= j
NewestOf(l, a) == CHOOSE i \in Places(l, a) : \A j \in Places(l, a) : i >= j

AnchorIn(l, s, a) ==
    IF l[FirstOf(l, a)].after \in IdsOf(s) THEN l[FirstOf(l, a)].after ELSE NoMessage

\* What it has of each activity, and something of those it does not have.
Anchors(l, s) ==
    [a \in Activities |-> IF a \in ToSet(LoggedIn(l)) THEN AnchorIn(l, s, a) ELSE NoMessage]
Latest(l) ==
    [a \in Activities |-> IF a \in ToSet(LoggedIn(l)) THEN l[NewestOf(l, a)].event
                          ELSE [id |-> a, content |-> NoMessage]]

RestoredIn(l, s) == Whole(s, Firsts(LoggedIn(l)), Anchors(l, s), Latest(l))

LEMMA LogsAre ==
    ASSUME NEW l \in Seq(Logs)
    PROVE  /\ DOMAIN l = 1 .. Len(l) /\ Len(l) \in Nat
           /\ \A i \in 1 .. Len(l) : /\ l[i] \in Logs /\ l[i].event.id \in Activities
                                     /\ l[i].event \in Items /\ l[i].event \in Drawn
                                     /\ l[i].after \in Messages \union {NoMessage}
<1>1. DOMAIN l = 1 .. Len(l) /\ Len(l) \in Nat /\ \A i \in 1 .. Len(l) : l[i] \in Logs
  BY LenProperties, ElementOfSeq
<1>2. \A e \in Logs : /\ e.event.id \in Activities /\ e.event \in Items /\ e.event \in Drawn
                      /\ e.after \in Messages \union {NoMessage}
  BY DEF Logs, Items, Drawn
<1>3. QED BY <1>1, <1>2

LEMMA LoggedType ==
    ASSUME NEW l \in Seq(Logs)
    PROVE  LoggedIn(l) \in Seq(Activities) /\ Len(LoggedIn(l)) = Len(l)
<1>1. LoggedIn(l) \in [1 .. Len(l) -> Activities] /\ Len(l) \in Nat
  BY LogsAre DEF LoggedIn
<1>2. QED BY <1>1, SeqDef, LenProperties

LEMMA PlacesAre ==
    ASSUME NEW l \in Seq(Logs), NEW a
    PROVE  /\ Places(l, a) \in SUBSET Nat
           /\ Places(l, a) \subseteq 1 .. Len(l)
           /\ a \in ToSet(LoggedIn(l)) <=> Places(l, a) # {}
<1>1. DOMAIN LoggedIn(l) = DOMAIN l /\ \A i \in DOMAIN l : LoggedIn(l)[i] = l[i].event.id
  BY DEF LoggedIn
<1>2. a \in ToSet(LoggedIn(l)) <=> \E i \in DOMAIN l : l[i].event.id = a
  BY <1>1 DEF ToSet
<1>3. DOMAIN l = 1 .. Len(l) /\ Len(l) \in Nat
  BY LogsAre
<1>4. QED BY <1>2, <1>3 DEF Places

\* The place of an entry that has none before it, or none after it.
LEMMA FirstIs ==
    ASSUME NEW l \in Seq(Logs), NEW a, NEW i \in Places(l, a), \A j \in Places(l, a) : i <= j
    PROVE  FirstOf(l, a) = i
<1>1. FirstOf(l, a) \in Places(l, a) /\ \A j \in Places(l, a) : FirstOf(l, a) <= j
  BY DEF FirstOf
<1>2. Places(l, a) \in SUBSET Nat
  BY PlacesAre
<1> DEFINE f == FirstOf(l, a)
<1>3. f \in Nat /\ i \in Nat /\ f <= i /\ i <= f
  BY <1>1, <1>2
<1> HIDE DEF f
<1>4. f = i
  BY <1>3
<1>5. QED BY <1>4 DEF f

LEMMA NewestIs ==
    ASSUME NEW l \in Seq(Logs), NEW a, NEW i \in Places(l, a), \A j \in Places(l, a) : i >= j
    PROVE  NewestOf(l, a) = i
<1>1. NewestOf(l, a) \in Places(l, a) /\ \A j \in Places(l, a) : NewestOf(l, a) >= j
  BY DEF NewestOf
<1>2. Places(l, a) \in SUBSET Nat
  BY PlacesAre
<1> DEFINE f == NewestOf(l, a)
<1>3. f \in Nat /\ i \in Nat /\ f <= i /\ i <= f
  BY <1>1, <1>2
<1> HIDE DEF f
<1>4. f = i
  BY <1>3
<1>5. QED BY <1>4 DEF f

LEMMA PlacesOf ==
    ASSUME NEW l \in Seq(Logs), NEW a \in ToSet(LoggedIn(l))
    PROVE  /\ FirstOf(l, a) \in Places(l, a) /\ \A j \in Places(l, a) : FirstOf(l, a) <= j
           /\ NewestOf(l, a) \in Places(l, a) /\ \A j \in Places(l, a) : NewestOf(l, a) >= j
<1>1. /\ Places(l, a) \in SUBSET Nat /\ Places(l, a) \in SUBSET (1 .. Len(l))
      /\ Places(l, a) # {} /\ Len(l) \in Nat
  BY PlacesAre, LogsAre
<1>2. \E x \in Places(l, a) : \A y \in Places(l, a) : ~(y < x)
  BY <1>1, Least
<1>3. \E x \in Places(l, a) : \A y \in Places(l, a) : x <= y
  BY <1>1, <1>2
<1>4. \E x \in Places(l, a) : \A y \in Places(l, a) : x >= y
  BY <1>1, Greatest
<1>5. QED BY <1>3, <1>4 DEF FirstOf, NewestOf

LEMMA LatestShows == ASSUME NEW l \in Seq(Logs) PROVE Shows(Latest(l))
<1>1. ASSUME NEW a \in Activities PROVE Latest(l)[a] \in Items /\ Latest(l)[a].id = a
  <2>1. CASE a \in ToSet(LoggedIn(l))
    <3>1. NewestOf(l, a) \in Places(l, a)
      BY <2>1, PlacesOf
    <3>2. NewestOf(l, a) \in DOMAIN l /\ l[NewestOf(l, a)].event.id = a
      BY <3>1 DEF Places
    <3>3. Latest(l)[a] = l[NewestOf(l, a)].event
      BY <2>1 DEF Latest
    <3>4. QED BY <3>2, <3>3, LogsAre
  <2>2. CASE a \notin ToSet(LoggedIn(l))
    BY <2>2 DEF Latest, Items
  <2>3. QED BY <2>1, <2>2
<1>2. Latest(l) \in [Activities -> Items]
  BY <1>1 DEF Latest
<1>3. QED BY <1>1, <1>2 DEF Shows, Maps

LEMMA OrderType ==
    ASSUME NEW l \in Seq(Logs)
    PROVE  /\ Firsts(LoggedIn(l)) \in Seq(Activities)
           /\ ToSet(Firsts(LoggedIn(l))) = ToSet(LoggedIn(l))
           /\ Distinct(Firsts(LoggedIn(l)))
           /\ ToSet(LoggedIn(l)) \subseteq Activities
<1> DEFINE o == LoggedIn(l)
<1>1. o \in Seq(Activities)
  BY LoggedType
<1>2. ToSet(o) \subseteq Activities
  BY <1>1, LenProperties, ElementOfSeq DEF ToSet
<1> HIDE DEF o
<1>3. Firsts(o) \in Seq(Activities) /\ ToSet(Firsts(o)) = ToSet(o) /\ Distinct(Firsts(o))
  BY <1>1, FirstsType, FirstsHave
<1>4. QED BY <1>2, <1>3 DEF o

(* An entry more.                                                          *)
LEMMA LogMore ==
    ASSUME NEW l \in Seq(Logs), NEW e \in Logs
    PROVE  /\ Append(l, e) \in Seq(Logs)
           /\ LoggedIn(Append(l, e)) = Append(LoggedIn(l), e.event.id)
           /\ \A b : Places(Append(l, e), b)
                        = IF b = e.event.id THEN Places(l, b) \union {Len(l) + 1} ELSE Places(l, b)
           /\ \A i \in 1 .. Len(l) : Append(l, e)[i] = l[i]
           /\ Append(l, e)[Len(l) + 1] = e
<1> DEFINE r == Append(l, e)
           n == Len(l)
           a == e.event.id
<1>1. /\ r \in Seq(Logs) /\ Len(r) = n + 1 /\ n \in Nat /\ DOMAIN l = 1 .. n /\ DOMAIN r = 1 .. n + 1
      /\ \A i \in 1 .. n : r[i] = l[i]
      /\ r[n + 1] = e
  BY AppendProperties, LenProperties
<1>2. LoggedIn(l) \in Seq(Activities) /\ Len(LoggedIn(l)) = n /\ a \in Activities
  BY LoggedType DEF Logs
<1> HIDE DEF r, n, a
<1>3. LoggedIn(r) \in Seq(Activities) /\ Len(LoggedIn(r)) = n + 1
  BY <1>1, LoggedType
<1> DEFINE o == LoggedIn(l)
           q == Append(o, a)
<1>4. \A i \in 1 .. n : o[i] = l[i].event.id
  BY <1>1 DEF LoggedIn
<1> HIDE DEF o
<1>5. /\ q \in Seq(Activities) /\ Len(q) = n + 1
      /\ \A i \in 1 .. n : q[i] = o[i]
      /\ q[n + 1] = a
  <2>1. o \in Seq(Activities) /\ Len(o) = n
    BY <1>2 DEF o
  <2>2. QED BY <1>2, <2>1, AppendProperties
<1> HIDE DEF q
<1>6. \A i \in 1 .. n + 1 : i \in 1 .. n \/ i = n + 1
  BY <1>1
<1>7. ASSUME NEW i \in 1 .. n + 1 PROVE LoggedIn(r)[i] = q[i]
  <2>1. LoggedIn(r)[i] = r[i].event.id
    BY <1>1 DEF LoggedIn
  <2>2. QED BY <1>1, <1>4, <1>5, <1>6, <2>1 DEF a
<1>8. LoggedIn(r) = q
  BY <1>3, <1>5, <1>7, SeqEqual
<1>9. ASSUME NEW b PROVE Places(r, b) = IF b = a THEN Places(l, b) \union {n + 1} ELSE Places(l, b)
  <2>1. DOMAIN r = DOMAIN l \union {n + 1} /\ n + 1 \notin DOMAIN l
    BY <1>1
  <2>2. QED BY <1>1, <2>1 DEF Places, a
<1>10. QED BY <1>1, <1>8, <1>9 DEF r, n, a, o, q

\* What there was of the others, and is of its own.
LEMMA PlaceMore ==
    ASSUME NEW l \in Seq(Logs), NEW e \in Logs
    PROVE  /\ \A b \in ToSet(LoggedIn(l)) : FirstOf(Append(l, e), b) = FirstOf(l, b)
           /\ \A b \in ToSet(LoggedIn(l)) : b # e.event.id => NewestOf(Append(l, e), b) = NewestOf(l, b)
           /\ NewestOf(Append(l, e), e.event.id) = Len(l) + 1
           /\ e.event.id \notin ToSet(LoggedIn(l)) => FirstOf(Append(l, e), e.event.id) = Len(l) + 1
<1> DEFINE r == Append(l, e)
           n == Len(l)
           a == e.event.id
<1>1. /\ r \in Seq(Logs) /\ n \in Nat
      /\ \A b : Places(r, b) = IF b = a THEN Places(l, b) \union {n + 1} ELSE Places(l, b)
      /\ \A b : Places(l, b) \subseteq 1 .. n
      /\ \A b : b \in ToSet(LoggedIn(l)) <=> Places(l, b) # {}
  BY LogMore, LogsAre, PlacesAre
<1> HIDE DEF r, n, a
<1>2. ASSUME NEW b \in ToSet(LoggedIn(l))
      PROVE  /\ FirstOf(r, b) = FirstOf(l, b)
             /\ b # a => NewestOf(r, b) = NewestOf(l, b)
  <2>1. /\ FirstOf(l, b) \in Places(l, b) /\ \A j \in Places(l, b) : FirstOf(l, b) <= j
        /\ NewestOf(l, b) \in Places(l, b) /\ \A j \in Places(l, b) : NewestOf(l, b) >= j
    BY PlacesOf
  <2>2. FirstOf(l, b) \in 1 .. n
    BY <1>1, <2>1
  <2>3. FirstOf(l, b) \in Places(r, b) /\ \A j \in Places(r, b) : FirstOf(l, b) <= j
    BY <1>1, <2>1, <2>2
  <2>4. FirstOf(r, b) = FirstOf(l, b)
    BY <1>1, <2>3, FirstIs
  <2>5. b # a => NewestOf(r, b) = NewestOf(l, b)
    BY <1>1, <2>1, NewestIs
  <2>6. QED BY <2>4, <2>5
<1>3. NewestOf(r, a) = n + 1
  <2> DEFINE m == n + 1
  <2>1. m \in Places(r, a) /\ \A j \in Places(r, a) : m >= j
    BY <1>1
  <2> HIDE DEF m
  <2>2. NewestOf(r, a) = m
    BY <1>1, <2>1, NewestIs
  <2>3. QED BY <2>2 DEF m
<1>4. ASSUME a \notin ToSet(LoggedIn(l)) PROVE FirstOf(r, a) = n + 1
  <2> DEFINE m == n + 1
  <2>1. m \in Places(r, a) /\ \A j \in Places(r, a) : m <= j
    BY <1>1, <1>4
  <2> HIDE DEF m
  <2>2. FirstOf(r, a) = m
    BY <1>1, <2>1, FirstIs
  <2>3. QED BY <2>2 DEF m
<1>5. QED BY <1>2, <1>3, <1>4 DEF r, n, a

(* So the log of a thread that has all its messages.                       *)
Anchored(l, s) == \A i \in DOMAIN l : l[i].after \in IdsOf(s)

LEMMA AnchorsAre ==
    ASSUME NEW l \in Seq(Logs), NEW s, Anchored(l, s), NEW a \in ToSet(LoggedIn(l))
    PROVE  Anchors(l, s)[a] = l[FirstOf(l, a)].after /\ Anchors(l, s)[a] \in IdsOf(s)
<1>1. FirstOf(l, a) \in Places(l, a) /\ a \in Activities
  BY PlacesOf, OrderType
<1>2. l[FirstOf(l, a)].after \in IdsOf(s)
  BY <1>1 DEF Places, Anchored
<1>3. QED BY <1>1, <1>2 DEF Anchors, AnchorIn

LEMMA WholeAlike ==
    ASSUME NEW s \in Seq(Spoken), NEW o \in Seq(Activities), NEW anc, NEW con, NEW an2, NEW co2,
           \A a \in ToSet(o) : anc[a] = an2[a] /\ con[a] = co2[a]
    PROVE  Whole(s, o, anc, con) = Whole(s, o, an2, co2)
<1>1. ToSet(o) \subseteq Activities
  BY LenProperties, ElementOfSeq DEF ToSet
<1>2. \A k : Beside(o, anc, con, k) = Beside(o, an2, co2, k)
  BY <1>1, BesideAlike
<1>3. Block(o, anc, con) = Block(o, an2, co2)
  BY <1>2 DEF Block
<1>4. QED BY <1>2, <1>3 DEF Whole

LEMMA IdsMore ==
    ASSUME NEW S, NEW s \in Seq(S), NEW x \in S
    PROVE  IdsOf(Append(s, x)) = IdsOf(s) \union {x.id}
<1>1. /\ DOMAIN s = 1 .. Len(s) /\ Len(s) \in Nat
      /\ DOMAIN Append(s, x) = 1 .. Len(s) + 1
      /\ \A i \in 1 .. Len(s) : Append(s, x)[i] = s[i]
      /\ Append(s, x)[Len(s) + 1] = x
  BY AppendProperties, LenProperties
<1>2. DOMAIN Append(s, x) = DOMAIN s \union {Len(s) + 1}
  BY <1>1
<1>3. QED BY <1>1, <1>2 DEF IdsOf

(* A thread read back with one message more has it last,                   *)
LEMMA RestoredSays ==
    ASSUME NEW l \in Seq(Logs), NEW s \in Seq(Spoken), Anchored(l, s),
           NEW x \in Spoken, x.id \notin IdsOf(s)
    PROVE  RestoredIn(l, Append(s, x)) = Append(RestoredIn(l, s), x) /\ Anchored(l, Append(s, x))
<1> DEFINE o == Firsts(LoggedIn(l))
           con == Latest(l)
           anc == Anchors(l, s)
           r == Append(s, x)
           an2 == Anchors(l, r)
<1>1. IdsOf(r) = IdsOf(s) \union {x.id} /\ r \in Seq(Spoken)
  BY IdsMore, AppendProperties
<1>2. o \in Seq(Activities) /\ ToSet(o) = ToSet(LoggedIn(l)) /\ Shows(con)
  BY OrderType, LatestShows
<1>3. Anchored(l, r)
  BY <1>1 DEF Anchored
<1>4. NoMessage \notin IdsOf(s)
  <2>1. \A i \in DOMAIN s : s[i] \in Spoken
    BY LenProperties, ElementOfSeq
  <2>2. QED BY <2>1, ItemsAre DEF IdsOf
<1> HIDE DEF o, con, r
<1>5. \A a \in ToSet(o) : an2[a] = anc[a] /\ anc[a] # x.id /\ anc[a] # NoMessage
  <2> SUFFICES ASSUME NEW a \in ToSet(o) PROVE an2[a] = anc[a] /\ anc[a] # x.id /\ anc[a] # NoMessage
    OBVIOUS
  <2>1. anc[a] = l[FirstOf(l, a)].after /\ anc[a] \in IdsOf(s)
    BY <1>2, AnchorsAre
  <2>2. an2[a] = l[FirstOf(l, a)].after
    BY <1>2, <1>3, AnchorsAre
  <2>3. QED BY <1>4, <2>1, <2>2
<1> HIDE DEF anc, an2
<1>6. Whole(r, o, an2, con) = Whole(r, o, anc, con)
  BY <1>1, <1>2, <1>5, WholeAlike
<1>7. Whole(r, o, anc, con) = Append(Whole(s, o, anc, con), x)
  BY <1>2, <1>5, WholeSays DEF r
<1>8. QED BY <1>3, <1>6, <1>7 DEF RestoredIn, o, con, anc, an2, r

(* with another entry of an activity what it shows now,                    *)
LEMMA RestoredRedraws ==
    ASSUME NEW l \in Seq(Logs), NEW s \in Seq(Spoken), NEW e \in Logs, e.event.id \in ToSet(LoggedIn(l))
    PROVE  RestoredIn(Append(l, e), s) = Mapped(RestoredIn(l, s), Redrawn(e.event))
<1> DEFINE a == e.event.id
           r == Append(l, e)
           o == Firsts(LoggedIn(l))
           con == Latest(l)
           co2 == Latest(r)
           anc == Anchors(l, s)
           an2 == Anchors(r, s)
<1>1. /\ r \in Seq(Logs) /\ LoggedIn(r) = Append(LoggedIn(l), a)
      /\ \A i \in 1 .. Len(l) : r[i] = l[i]
      /\ r[Len(l) + 1] = e
  BY LogMore
<1>2. /\ \A b \in ToSet(LoggedIn(l)) : FirstOf(r, b) = FirstOf(l, b)
      /\ \A b \in ToSet(LoggedIn(l)) : b # a => NewestOf(r, b) = NewestOf(l, b)
      /\ NewestOf(r, a) = Len(l) + 1
  BY PlaceMore
<1>3. a \in Activities /\ e.event \in Drawn
  BY DEF Logs, Drawn, Items
<1>4. o \in Seq(Activities) /\ ToSet(o) = ToSet(LoggedIn(l)) /\ Shows(con)
  BY OrderType, LatestShows
<1> HIDE DEF a, r
<1>5. Firsts(LoggedIn(r)) = o /\ ToSet(LoggedIn(r)) = ToSet(LoggedIn(l))
  <2> DEFINE q == LoggedIn(l)
  <2>1. q \in Seq(Activities) /\ a \in ToSet(q)
    BY LoggedType DEF a
  <2> HIDE DEF q
  <2>2. Firsts(Append(q, a)) = Firsts(q) /\ ToSet(Append(q, a)) = ToSet(q) \union {a}
    BY <1>3, <2>1, FirstsMore, AmongMore
  <2>3. QED BY <1>1, <2>1, <2>2 DEF q
<1>6. \A b \in ToSet(LoggedIn(l)) :
         /\ FirstOf(l, b) \in 1 .. Len(l) /\ NewestOf(l, b) \in 1 .. Len(l)
         /\ l[NewestOf(l, b)].event.id = b
  BY PlacesOf, LogsAre DEF Places
<1>7. an2 = anc
  <2>1. \A b \in Activities : b \in ToSet(LoggedIn(l)) => AnchorIn(r, s, b) = AnchorIn(l, s, b)
    BY <1>1, <1>2, <1>6 DEF AnchorIn
  <2>2. QED BY <1>5, <2>1 DEF Anchors
<1>8. co2 = [con EXCEPT ![a] = e.event]
  <2>1. \A b \in Activities : co2[b] = IF b = a THEN e.event ELSE con[b]
    <3> SUFFICES ASSUME NEW b \in Activities PROVE co2[b] = IF b = a THEN e.event ELSE con[b]
      OBVIOUS
    <3>1. CASE b = a
      BY <1>1, <1>2, <1>5, <3>1 DEF Latest, a
    <3>2. CASE b # a
      BY <1>1, <1>2, <1>5, <1>6, <3>2 DEF Latest
    <3>3. QED BY <3>1, <3>2
  <2>2. QED BY <2>1 DEF Latest
<1>9. Redraws(con, e.event, co2)
  BY <1>8 DEF Redraws, a
<1> DEFINE x == e.event
<1> HIDE DEF o, con, co2, anc, an2, x
<1>10. Whole(s, o, anc, co2) = Mapped(Whole(s, o, anc, con), Redrawn(x))
  <2>1. x \in Drawn /\ Redraws(con, x, co2)
    BY <1>3, <1>9 DEF x
  <2>2. QED BY <1>4, <2>1, WholeRedraws
<1>11. QED BY <1>5, <1>7, <1>10 DEF RestoredIn, o, con, co2, anc, an2, r, x

(* and with one of a new activity that last, when it follows the last      *)
(* message.                                                                *)
LEMMA RestoredDraws ==
    ASSUME NEW l \in Seq(Logs), NEW s \in Seq(Spoken), NEW x \in Spoken, Distinct(Append(s, x)),
           Anchored(l, Append(s, x)), NEW e \in Logs,
           e.event.id \notin ToSet(LoggedIn(l)), e.after = x.id
    PROVE  RestoredIn(Append(l, e), Append(s, x)) = Append(RestoredIn(l, Append(s, x)), e.event)
<1> DEFINE a == e.event.id
           r == Append(l, e)
           t == Append(s, x)
           o == Firsts(LoggedIn(l))
           con == Latest(l)
           co2 == Latest(r)
           anc == Anchors(l, t)
           an2 == Anchors(r, t)
<1>1. /\ r \in Seq(Logs) /\ LoggedIn(r) = Append(LoggedIn(l), a)
      /\ \A i \in 1 .. Len(l) : r[i] = l[i]
      /\ r[Len(l) + 1] = e
  BY LogMore
<1>2. /\ \A b \in ToSet(LoggedIn(l)) : FirstOf(r, b) = FirstOf(l, b)
      /\ \A b \in ToSet(LoggedIn(l)) : b # a => NewestOf(r, b) = NewestOf(l, b)
      /\ NewestOf(r, a) = Len(l) + 1
      /\ FirstOf(r, a) = Len(l) + 1
  BY PlaceMore
<1>3. a \in Activities /\ t \in Seq(Spoken)
  BY AppendProperties DEF Logs
<1>4. o \in Seq(Activities) /\ ToSet(o) = ToSet(LoggedIn(l)) /\ Shows(co2)
  BY <1>1, OrderType, LatestShows
<1>5. x.id \in IdsOf(t) /\ NoMessage \notin IdsOf(t)
  <2>1. x.id \in IdsOf(t)
    BY IdsMore
  <2> HIDE DEF t
  <2>2. \A i \in DOMAIN t : t[i] \in Spoken
    BY <1>3, LenProperties, ElementOfSeq
  <2>3. QED BY <2>1, <2>2, ItemsAre DEF IdsOf
<1> HIDE DEF a, r
<1>6. Firsts(LoggedIn(r)) = Append(o, a) /\ ToSet(LoggedIn(r)) = ToSet(LoggedIn(l)) \union {a}
  <2> DEFINE q == LoggedIn(l)
  <2>1. q \in Seq(Activities) /\ a \notin ToSet(q)
    BY LoggedType DEF a
  <2> HIDE DEF q
  <2>2. Firsts(Append(q, a)) = Append(Firsts(q), a) /\ ToSet(Append(q, a)) = ToSet(q) \union {a}
    BY <1>3, <2>1, FirstsMore, AmongMore
  <2>3. QED BY <1>1, <2>1, <2>2 DEF q
<1>7. \A b \in ToSet(LoggedIn(l)) : FirstOf(l, b) \in 1 .. Len(l) /\ NewestOf(l, b) \in 1 .. Len(l)
  BY PlacesOf, LogsAre DEF Places
<1> HIDE DEF t
<1>8. an2[a] = x.id /\ co2[a] = e.event
  BY <1>1, <1>2, <1>3, <1>5, <1>6 DEF Anchors, AnchorIn, Latest
<1>9. ASSUME NEW b \in ToSet(o) PROVE anc[b] = an2[b] /\ con[b] = co2[b] /\ an2[b] # NoMessage
  <2>1. /\ b \in ToSet(LoggedIn(l)) /\ b \in ToSet(LoggedIn(r)) /\ b # a /\ b \in Activities
    BY <1>4, <1>6, OrderType DEF a
  <2>2. anc[b] = an2[b]
    BY <1>1, <1>2, <1>7, <2>1 DEF Anchors, AnchorIn
  <2>3. con[b] = co2[b]
    BY <1>1, <1>2, <1>7, <2>1 DEF Latest
  <2>4. anc[b] \in IdsOf(t)
    BY <2>1, AnchorsAre DEF t
  <2>5. QED BY <1>5, <2>2, <2>3, <2>4
<1> HIDE DEF o, con, co2, anc, an2
<1>10. Whole(t, o, anc, con) = Whole(t, o, an2, co2)
  BY <1>3, <1>4, <1>9, WholeAlike
<1>11. Whole(t, Append(o, a), an2, co2) = Append(Whole(t, o, an2, co2), co2[a])
  BY <1>3, <1>4, <1>8, <1>9, WholeDraws DEF t
<1>12. QED BY <1>6, <1>8, <1>10, <1>11 DEF RestoredIn, o, con, co2, anc, an2, r, t

(* Of whatever messages it has, it has all, and each activity once.        *)
LEMMA RestoredAll ==
    ASSUME NEW l \in Seq(Logs), NEW s \in Seq(Spoken), Distinct(s)
    PROVE  /\ RestoredIn(l, s) \in Seq(Items)
           /\ \A W : (\A x \in Items : x \in W <=> x.id \in Messages) => Sift(RestoredIn(l, s), W) = s
           /\ \A a \in ToSet(LoggedIn(l)) :
                 Cardinality({i \in DOMAIN RestoredIn(l, s) : RestoredIn(l, s)[i].id = a}) = 1
<1> DEFINE o == Firsts(LoggedIn(l))
           con == Latest(l)
           anc == Anchors(l, s)
           w == Whole(s, o, anc, con)
<1>1. o \in Seq(Activities) /\ ToSet(o) = ToSet(LoggedIn(l)) /\ Distinct(o) /\ Shows(con)
  BY OrderType, LatestShows
<1>2. \A a \in ToSet(LoggedIn(l)) : anc[a] = NoMessage \/ anc[a] \in IdsOf(s)
  BY OrderType DEF Anchors, AnchorIn
<1>3. RestoredIn(l, s) = w
  BY DEF RestoredIn
<1> HIDE DEF o, con, anc
<1>4. w \in Seq(Items)
  BY <1>1, WholeType
<1>5. \A W : (\A x \in Items : x \in W <=> x.id \in Messages) => Sift(w, W) = s
  BY <1>1, WholeSaid
<1>6. ASSUME NEW a \in ToSet(LoggedIn(l)) PROVE Cardinality({i \in DOMAIN w : w[i].id = a}) = 1
  <2> DEFINE W == {x \in Items : x.id = a}
  <2>1. AreOf(W, a)
    BY DEF AreOf
  <2> HIDE DEF W
  <2>2. Sift(w, W) = <<con[a]>>
    BY <1>1, <1>2, <2>1, WholeDrawn
  <2> HIDE DEF w
  <2>3. Cardinality({i \in DOMAIN w : w[i] \in W}) = Len(Sift(w, W))
    BY <1>4, SiftCounts
  <2>4. \A i \in DOMAIN w : w[i] \in W <=> w[i].id = a
    BY <1>4, <2>1, LenProperties, ElementOfSeq DEF AreOf
  <2>5. {i \in DOMAIN w : w[i] \in W} = {i \in DOMAIN w : w[i].id = a}
    BY <2>4
  <2>6. Len(<<con[a]>>) = 1
    OBVIOUS
  <2>7. QED BY <2>2, <2>3, <2>5, <2>6
<1>7. QED BY <1>3, <1>4, <1>5, <1>6

-----------------------------------------------------------------------------
(* The threads of the model are those.                                     *)

LEMMA ThreadUses ==
    /\ \A s : Thread!ToSet(s) = ToSet(s)
    /\ \A s : Thread!FlattenSeq(s) = FlattenSeq(s)
    /\ \A s, T : Thread!Sift(s, T) = Sift(s, T)
    /\ \A s : Thread!Firsts(s) = Firsts(s)
    /\ \A s : Thread!Last(s) = Last(s)
    /\ \A s : Thread!Front(s) = Front(s)
    /\ \A s : Thread!Ids(s) = IdsOf(s)
    /\ \A T : Thread!Cardinality(T) = Cardinality(T)
<1>1. \A s : Thread!FlattenSeq(s) = FlattenSeq(s)
  BY DEF Thread!FlattenSeq, FlattenSeq
<1>2. \A s : Thread!ToSet(s) = ToSet(s)
  BY DEF Thread!ToSet, ToSet
<1>3. \A s, T : Thread!Sift(s, T) = Sift(s, T)
  BY <1>1 DEF Thread!Sift, Sift
<1>4. \A s : Thread!Firsts(s) = Firsts(s)
  BY <1>1 DEF Thread!Firsts, Firsts
<1>5. \A s : Thread!Ids(s) = IdsOf(s)
  BY DEF Thread!Ids, IdsOf
<1>6. \A s : Thread!Last(s) = Last(s)
  BY DEF Thread!Last, Last
<1>7. \A s : Thread!Front(s) = Front(s)
  BY DEF Thread!Front, Front
<1>8. \A T : Thread!Cardinality(T) = Cardinality(T)
  BY DEF Thread!Cardinality, Cardinality
<1>9. QED BY <1>1, <1>2, <1>3, <1>4, <1>5, <1>6, <1>7, <1>8

LEMMA AtIs ==
    ASSUME log \in Seq(Logs), NEW k
    PROVE  Thread!At(k) = Beside(Firsts(LoggedIn(log)), Anchors(log, stored), Latest(log), k)
<1> DEFINE o == Firsts(LoggedIn(log))
           anc == Anchors(log, stored)
           con == Latest(log)
           T == {a \in ToSet(o) : Thread!Anchor(a) = k}
           f == [x \in Activities |-> con[x]]
           g == [x \in Activities |-> SiftOne(x, T)]
           h == [x \in Activities |-> Mapped(g[x], f)]
           here == Sift(o, T)
<1>1. /\ o \in Seq(Activities) /\ ToSet(o) = ToSet(LoggedIn(log)) /\ Shows(con)
      /\ ToSet(o) \subseteq Activities
  BY OrderType, LatestShows
<1>2. Thread!Order = o
  <2>1. Thread!Logged = LoggedIn(log)
    BY DEF Thread!Logged, LoggedIn
  <2>2. QED BY <2>1, ThreadUses DEF Thread!Order
<1>3. \A a \in ToSet(o) : Thread!Anchor(a) = anc[a] /\ Thread!Materialise(a) = con[a]
  <2> SUFFICES ASSUME NEW a \in ToSet(o)
               PROVE  Thread!Anchor(a) = anc[a] /\ Thread!Materialise(a) = con[a]
    OBVIOUS
  <2>1. Thread!Positions(a) = Places(log, a)
    BY DEF Thread!Positions, Places
  <2>2. Thread!First(a) = FirstOf(log, a) /\ Thread!Newest(a) = NewestOf(log, a)
    BY <2>1 DEF Thread!First, Thread!Newest, FirstOf, NewestOf
  <2>3. Thread!Ids(stored) = IdsOf(stored)
    BY ThreadUses
  <2>4. a \in Activities /\ a \in ToSet(LoggedIn(log))
    BY <1>1
  <2>5. Thread!Anchor(a) = AnchorIn(log, stored, a)
    BY <2>2, <2>3 DEF Thread!Anchor, AnchorIn
  <2>6. QED BY <2>2, <2>4, <2>5 DEF Anchors, Latest, Thread!Materialise
<1>4. here \in Seq(Activities) /\ ToSet(here) = ToSet(o) \intersect T
  <2> HIDE DEF o, T
  <2>1. QED BY <1>1, SiftType, SiftHas
<1>5. Thread!At(k) = Mapped(here, f)
  <2>1. Thread!At(k) = [i \in DOMAIN here |-> Thread!Materialise(here[i])]
    BY <1>2, ThreadUses DEF Thread!At
  <2> HIDE DEF here, con, o, T
  <2>2. \A i \in DOMAIN here : here[i] \in ToSet(here)
    BY DEF ToSet
  <2>3. \A i \in DOMAIN here : here[i] \in ToSet(o) /\ here[i] \in Activities
    BY <1>1, <1>4, <2>2
  <2>4. \A i \in DOMAIN here : Thread!Materialise(here[i]) = f[here[i]]
    BY <1>3, <2>3
  <2>5. QED BY <2>1, <2>4 DEF Mapped
<1>6. Maps(g, Activities, Seq(Activities)) /\ Maps(f, Activities, Items)
  BY <1>1, SiftOneType DEF Maps, Shows
<1>7. \A x \in ToSet(o) : h[x] = Part(anc, con, k)[x]
  <2> SUFFICES ASSUME NEW x \in ToSet(o) PROVE Mapped(SiftOne(x, T), f) = Part(anc, con, k)[x]
    BY <1>1
  <2>1. x \in Activities /\ (x \in T <=> anc[x] = k)
    BY <1>1, <1>3
  <2>2. f[x] = con[x]
    BY <2>1
  <2> HIDE DEF T, f, con, anc
  <2>3. CASE anc[x] = k
    <3>1. SiftOne(x, T) = <<x>> /\ Part(anc, con, k)[x] = <<con[x]>>
      BY <2>1, <2>3 DEF SiftOne, Part
    <3>2. Mapped(<<x>>, f) = <<f[x]>>
      BY MappedOne
    <3>3. QED BY <2>2, <3>1, <3>2
  <2>4. CASE anc[x] # k
    <3>1. SiftOne(x, T) = <<>> /\ Part(anc, con, k)[x] = <<>>
      BY <2>1, <2>4 DEF SiftOne, Part
    <3>2. QED BY <3>1, MappedNone
  <2>5. QED BY <2>3, <2>4
<1> HIDE DEF o, T, f
<1>8. here = Spread(o, g)
  BY <1>1, SiftIsSpread
<1> HIDE DEF g, here
<1>9. Mapped(Spread(o, g), f) = Spread(o, h)
  BY <1>1, <1>6, SpreadMapped
<1> DEFINE p == Part(anc, con, k)
<1> HIDE DEF h, p, anc, con
<1>10. \A x \in ToSet(o) : h[x] = p[x]
  BY <1>7 DEF p
<1>11. Spread(o, h) = Spread(o, p)
  BY <1>10, SpreadAlike
<1>12. QED BY <1>5, <1>8, <1>9, <1>11 DEF Beside, p, o, anc, con

LEMMA RestoredIs ==
    ASSUME log \in Seq(Logs), stored \in Seq(Spoken)
    PROVE  Thread!Restored = RestoredIn(log, stored)
<1> DEFINE o == Firsts(LoggedIn(log))
           anc == Anchors(log, stored)
           con == Latest(log)
           g == Block(o, anc, con)
<1>1. \A k : Thread!At(k) = Beside(o, anc, con, k)
  BY AtIs
<1> HIDE DEF o, anc, con
<1>2. \A i \in DOMAIN stored : stored[i] \in Spoken
  BY LenProperties, ElementOfSeq
<1>3. [i \in DOMAIN stored |-> <<stored[i]>> \o Thread!At(stored[i].id)] = Mapped(stored, g)
  <2>1. \A i \in DOMAIN stored : <<stored[i]>> \o Thread!At(stored[i].id) = g[stored[i]]
    BY <1>1, <1>2 DEF Block, Cat
  <2> HIDE DEF g
  <2>2. QED BY <2>1 DEF Mapped
<1> HIDE DEF g
<1>4. Thread!Restored = FlattenSeq(Mapped(stored, g)) \o Beside(o, anc, con, NoMessage)
  BY <1>1, <1>3, ThreadUses DEF Thread!Restored
<1>5. QED BY <1>4 DEF RestoredIn, Whole, Spread, Cat, o, anc, con, g

ThreadTyped(l, s, w) ==
    /\ l \in Seq(Logs) /\ s \in Seq(Spoken) /\ w \in Seq(Items)
    /\ Len(l) <= MaxPushes
    /\ Distinct(s)
    /\ IdsOf(s) \subseteq IdsOf(w)
    /\ \A a \in Activities : a \in IdsOf(w) <=> a \in ToSet(LoggedIn(l))

\* Until the thread is cut, its row has every message an entry names.
ThreadGood(l, s, w, c) ==
    /\ ThreadTyped(l, s, w)
    /\ c \in BOOLEAN
    /\ ~c => Anchored(l, s) /\ w = RestoredIn(l, s)

ThreadInv == ThreadGood(log, stored, shown, cut)

LEMMA ThreadStart == Thread!Init => ThreadInv
<1> SUFFICES ASSUME Thread!Init PROVE ThreadInv
  OBVIOUS
<1>1. shown = <<>> /\ stored = <<>> /\ log = <<>> /\ cut = FALSE
  BY DEF Thread!Init
<1>2. LoggedIn(<<>>) = <<>> /\ IdsOf(<<>>) = {} /\ Distinct(<<>>) /\ Anchored(<<>>, <<>>)
  BY DEF LoggedIn, IdsOf, Distinct, Anchored
<1>3. <<>> \in Seq(Logs) /\ <<>> \in Seq(Spoken) /\ <<>> \in Seq(Items) /\ Len(<<>>) = 0
  BY EmptySeq
<1>4. MaxPushes \in Nat
  BY ThreadAssumption DEF Thread!RestoredThreadAssumption
<1>5. ThreadTyped(<<>>, <<>>, <<>>)
  BY <1>2, <1>3, <1>4, AmongNone DEF ThreadTyped
<1>6. RestoredIn(<<>>, <<>>) = <<>>
  <2> DEFINE anc == Anchors(<<>>, <<>>)
             con == Latest(<<>>)
  <2>1. Firsts(LoggedIn(<<>>)) = <<>>
    BY <1>2, FirstsNone
  <2> HIDE DEF anc, con
  <2>2. RestoredIn(<<>>, <<>>) = Whole(<<>>, <<>>, anc, con)
    BY <2>1 DEF RestoredIn, anc, con
  <2>3. Beside(<<>>, anc, con, NoMessage) = <<>>
    BY SpreadNone DEF Beside
  <2>4. Spread(<<>>, Block(<<>>, anc, con)) = <<>>
    BY SpreadNone
  <2> DEFINE none == <<>>
  <2>5. none \in Seq(Items)
    BY EmptySeq
  <2> HIDE DEF none
  <2>6. Cat(none, <<>>) = none
    BY <2>5, CatNothing
  <2>7. QED BY <2>2, <2>3, <2>4, <2>6 DEF Whole, none
<1>7. QED BY <1>1, <1>2, <1>5, <1>6 DEF ThreadInv, ThreadGood

\* A message is said at the end of what is shown and of what is stored.
LEMMA SayKeeps == ASSUME ThreadInv, NEW m \in Messages, Thread!Say(m) PROVE ThreadInv'
<1> DEFINE x == Thread!Message(m)
           s == Append(stored, x)
           w == Append(shown, x)
<1>1. /\ m \notin IdsOf(shown) /\ ~cut
      /\ shown' = w /\ stored' = s /\ log' = log /\ cut' = cut
  BY ThreadUses DEF Thread!Say
<1>2. ThreadTyped(log, stored, shown) /\ cut \in BOOLEAN /\ Anchored(log, stored)
      /\ shown = RestoredIn(log, stored)
  BY <1>1 DEF ThreadInv, ThreadGood
<1>3. x \in Spoken /\ x.id = m /\ x \in Items /\ m \notin Activities
  BY ItemsAre
<1> HIDE DEF x
<1>4. /\ s \in Seq(Spoken) /\ IdsOf(s) = IdsOf(stored) \union {m}
      /\ w \in Seq(Items) /\ IdsOf(w) = IdsOf(shown) \union {m}
  BY <1>2, <1>3, AppendProperties, IdsMore DEF ThreadTyped
<1>5. m \notin IdsOf(stored)
  BY <1>1, <1>2 DEF ThreadTyped
<1>6. Distinct(s)
  <2>1. x \notin ToSet(stored)
    BY <1>3, <1>5 DEF IdsOf, ToSet
  <2>2. QED BY <1>2, <1>3, <2>1, DistinctMore DEF ThreadTyped
<1>7. RestoredIn(log, s) = Append(RestoredIn(log, stored), x) /\ Anchored(log, s)
  BY <1>2, <1>3, <1>5, RestoredSays DEF ThreadTyped
<1>8. w = RestoredIn(log, s)
  BY <1>2, <1>7
<1> HIDE DEF s, w
<1>9. ThreadTyped(log, s, w)
  BY <1>2, <1>3, <1>4, <1>6 DEF ThreadTyped
<1>10. ThreadGood(log, s, w, cut)
  BY <1>2, <1>7, <1>8, <1>9 DEF ThreadGood, s
<1>11. QED BY <1>1, <1>10 DEF ThreadInv

\* A push lands at the end, or where the activity is.
LEMMA PushKeeps ==
    ASSUME ThreadInv, NEW a \in Activities, NEW c \in Contents, Thread!Push(a, c) PROVE ThreadInv'
<1> DEFINE x == Thread!Activity(a, c)
           e == Thread!Entry(a, c, Thread!LastMessage)
           l == Append(log, e)
           w == IF a \in IdsOf(shown) THEN Mapped(shown, Redrawn(x)) ELSE Append(shown, x)
<1>1. /\ stored # <<>> /\ Len(log) < MaxPushes /\ ~cut
      /\ log' = l /\ stored' = stored /\ cut' = cut
      /\ shown' = IF a \in IdsOf(shown) THEN [i \in DOMAIN shown |-> IF shown[i].id = a THEN x ELSE shown[i]]
                  ELSE Append(shown, x)
  BY ThreadUses DEF Thread!Push
<1>2. ThreadTyped(log, stored, shown) /\ cut \in BOOLEAN /\ Anchored(log, stored)
      /\ shown = RestoredIn(log, stored)
  BY <1>1 DEF ThreadInv, ThreadGood
<1>3. PICK t \in Seq(Spoken), y \in Spoken : stored = Append(t, y)
  BY <1>1, <1>2, SequenceEmptyOrAppend DEF ThreadTyped
<1>4. Thread!LastMessage = y.id
  <2>1. Last(stored) = y
    BY <1>3, AppendProperties DEF Last
  <2>2. QED BY <1>1, <2>1, ThreadUses DEF Thread!LastMessage
<1>5. y.id \in Messages
  BY ItemsAre
<1>6. e \in Logs /\ e.event = x /\ e.event.id = a /\ e.after = y.id /\ x \in Drawn /\ x.id = a /\ x \in Items
  BY <1>4, <1>5, ItemsAre DEF Thread!Entry, Thread!Activity, Logs, Drawn
<1>7. shown' = w
  <2>1. [i \in DOMAIN shown |-> IF shown[i].id = a THEN x ELSE shown[i]] = Mapped(shown, Redrawn(x))
    <3>1. \A i \in DOMAIN shown : shown[i] \in Items
      BY <1>2, LenProperties, ElementOfSeq DEF ThreadTyped
    <3>2. QED BY <1>6, <3>1 DEF Mapped, Redrawn
  <2>2. QED BY <1>1, <2>1
<1> HIDE DEF x, e
<1>8. /\ l \in Seq(Logs) /\ Len(l) <= MaxPushes
      /\ ToSet(LoggedIn(l)) = ToSet(LoggedIn(log)) \union {a}
  <2>1. l \in Seq(Logs) /\ Len(l) = Len(log) + 1 /\ Len(log) \in Nat
    BY <1>2, <1>6, AppendProperties, LenProperties DEF ThreadTyped
  <2>2. MaxPushes \in Nat
    BY ThreadAssumption DEF Thread!RestoredThreadAssumption
  <2>3. LoggedIn(l) = Append(LoggedIn(log), a) /\ LoggedIn(log) \in Seq(Activities)
    BY <1>2, <1>6, LogMore, LoggedType DEF ThreadTyped
  <2>4. ToSet(Append(LoggedIn(log), a)) = ToSet(LoggedIn(log)) \union {a}
    <3> DEFINE q == LoggedIn(log)
    <3>1. q \in Seq(Activities)
      BY <2>3
    <3> HIDE DEF q
    <3>2. ToSet(Append(q, a)) = ToSet(q) \union {a}
      BY <3>1, AmongMore
    <3>3. QED BY <3>2 DEF q
  <2>5. Len(l) <= MaxPushes
    <3> DEFINE n == Len(log)
    <3>1. n \in Nat /\ n < MaxPushes /\ Len(l) = n + 1
      BY <1>1, <2>1
    <3> HIDE DEF n, l
    <3>2. QED BY <2>2, <3>1
  <2>6. QED BY <2>1, <2>3, <2>4, <2>5
<1>9. Anchored(l, stored)
  <2>1. y.id \in IdsOf(stored)
    BY <1>3, IdsMore
  <2>2. /\ DOMAIN log = 1 .. Len(log) /\ DOMAIN l = 1 .. Len(log) + 1 /\ Len(log) \in Nat
        /\ \A i \in 1 .. Len(log) : l[i] = log[i]
        /\ l[Len(log) + 1] = e
    BY <1>2, <1>6, AppendProperties, LenProperties DEF ThreadTyped
  <2>3. \A i \in DOMAIN l : i \in DOMAIN log \/ i = Len(log) + 1
    BY <2>2
  <2> HIDE DEF l
  <2>4. QED BY <1>2, <1>6, <2>1, <2>2, <2>3 DEF Anchored
<1>10. w \in Seq(Items) /\ w = RestoredIn(l, stored) /\ IdsOf(w) = IdsOf(shown) \union {a}
  <2>1. CASE a \in IdsOf(shown)
    <3>1. w = Mapped(shown, Redrawn(x)) /\ Maps(Redrawn(x), Items, Items)
      BY <1>6, <2>1, RedrawnType
    <3>2. Mapped(shown, Redrawn(x)) \in Seq(Items)
      BY <1>2, <3>1, MappedType DEF ThreadTyped
    <3>3. a \in ToSet(LoggedIn(log))
      BY <1>2, <2>1 DEF ThreadTyped
    <3>4. RestoredIn(l, stored) = Mapped(RestoredIn(log, stored), Redrawn(x))
      BY <1>2, <1>6, <3>3, RestoredRedraws DEF ThreadTyped
    <3>5. IdsOf(Mapped(shown, Redrawn(x))) = IdsOf(shown)
      <4>1. \A i \in DOMAIN shown : shown[i] \in Items
        BY <1>2, LenProperties, ElementOfSeq DEF ThreadTyped
      <4>2. \A i \in DOMAIN shown : Redrawn(x)[shown[i]].id = shown[i].id
        BY <4>1 DEF Redrawn
      <4>3. QED BY <4>2 DEF IdsOf, Mapped
    <3>6. QED BY <1>2, <2>1, <3>1, <3>2, <3>4, <3>5
  <2>2. CASE a \notin IdsOf(shown)
    <3>1. w = Append(shown, x)
      BY <2>2
    <3>2. a \notin ToSet(LoggedIn(log))
      BY <1>2, <2>2 DEF ThreadTyped
    <3>3. RestoredIn(l, Append(t, y)) = Append(RestoredIn(log, Append(t, y)), e.event)
      BY <1>2, <1>3, <1>6, <3>2, RestoredDraws DEF ThreadTyped
    <3>4. Append(shown, x) \in Seq(Items) /\ IdsOf(Append(shown, x)) = IdsOf(shown) \union {a}
      BY <1>2, <1>6, AppendProperties, IdsMore DEF ThreadTyped
    <3>5. QED BY <1>2, <1>3, <1>6, <3>1, <3>3, <3>4
  <2>3. QED BY <2>1, <2>2
<1> HIDE DEF l, w
<1>11. ThreadTyped(l, stored, w)
  BY <1>2, <1>8, <1>10 DEF ThreadTyped
<1>12. ThreadGood(l, stored, w, cut)
  BY <1>2, <1>9, <1>10, <1>11 DEF ThreadGood
<1>13. QED BY <1>1, <1>7, <1>12 DEF ThreadInv

\* What is cut off the row stays on the screen.
LEMMA CutKeeps == ASSUME ThreadInv, Thread!Cut PROVE ThreadInv'
<1>1. /\ stored # <<>> /\ stored' = Front(stored) /\ cut' = TRUE /\ log' = log /\ shown' = shown
  BY ThreadUses DEF Thread!Cut
<1>2. ThreadTyped(log, stored, shown)
  BY DEF ThreadInv, ThreadGood
<1>3. PICK t \in Seq(Spoken), y \in Spoken : stored = Append(t, y)
  BY <1>1, <1>2, SequenceEmptyOrAppend DEF ThreadTyped
<1>4. Front(stored) = t
  <2> DEFINE r == Append(t, y)
             n == Len(t)
  <2>1. n \in Nat /\ Len(r) = n + 1 /\ \A i \in 1 .. n : r[i] = t[i] /\ t[i] \in Spoken
    BY AppendProperties, LenProperties, ElementOfSeq
  <2> HIDE DEF r, n
  <2>2. Front(r) = SubSeq(r, 1, n)
    BY <2>1 DEF Front
  <2>3. 1 \in Int /\ n \in Int /\ \A i \in 1 .. n : r[i] \in Spoken
    BY <2>1
  <2>4. /\ SubSeq(r, 1, n) \in Seq(Spoken)
        /\ Len(SubSeq(r, 1, n)) = IF 1 <= n THEN n - 1 + 1 ELSE 0
        /\ \A i \in 1 .. n - 1 + 1 : SubSeq(r, 1, n)[i] = r[1 + i - 1]
    BY <2>3, SubSeqProperties
  <2> DEFINE f == SubSeq(r, 1, n)
  <2> HIDE DEF f
  <2>5. f \in Seq(Spoken) /\ Len(f) = n /\ \A i \in 1 .. n : f[i] = t[i]
    BY <2>1, <2>4 DEF f
  <2>6. f = t
    BY <2>5, SeqEqual DEF n
  <2>7. QED BY <1>3, <2>2, <2>6 DEF f, r
<1>5. Distinct(t) /\ IdsOf(t) \subseteq IdsOf(stored)
  BY <1>2, <1>3, DistinctMore, IdsMore DEF ThreadTyped
<1>6. ThreadTyped(log, t, shown)
  BY <1>2, <1>5 DEF ThreadTyped
<1>7. ThreadGood(log, t, shown, TRUE)
  BY <1>6 DEF ThreadGood
<1>8. QED BY <1>1, <1>4, <1>7 DEF ThreadInv

LEMMA ThreadStep == ThreadInv /\ [Thread!Next]_threadVars => ThreadInv'
<1> SUFFICES ASSUME ThreadInv, [Thread!Next]_threadVars PROVE ThreadInv'
  OBVIOUS
<1>1. CASE \E m \in Messages : Thread!Say(m)
  BY <1>1, SayKeeps
<1>2. CASE \E a \in Activities, c \in Contents : Thread!Push(a, c)
  BY <1>2, PushKeeps
<1>3. CASE Thread!Cut
  BY <1>3, CutKeeps
<1>4. CASE UNCHANGED threadVars
  BY <1>4 DEF ThreadInv, threadVars
<1>5. QED BY <1>1, <1>2, <1>3, <1>4 DEF Thread!Next

LEMMA ThreadMeans == ThreadInv => ThreadIsRestored
<1> SUFFICES ASSUME ThreadInv PROVE ThreadIsRestored
  OBVIOUS
<1>1. /\ ThreadTyped(log, stored, shown) /\ cut \in BOOLEAN
      /\ ~cut => shown = RestoredIn(log, stored)
  BY DEF ThreadInv, ThreadGood
<1>2. log \in Seq(Logs) /\ stored \in Seq(Spoken) /\ Distinct(stored)
  BY <1>1 DEF ThreadTyped
<1> DEFINE w == RestoredIn(log, stored)
           W == {x \in ToSet(w) : x.id \in Messages}
           V == {x \in Items : x.id \in Messages}
<1>3. Thread!Restored = w
  BY <1>2, RestoredIs
<1>4. /\ w \in Seq(Items)
      /\ \A U : (\A x \in Items : x \in U <=> x.id \in Messages) => Sift(w, U) = stored
      /\ \A a \in ToSet(LoggedIn(log)) : Cardinality({i \in DOMAIN w : w[i].id = a}) = 1
  BY <1>2, RestoredAll
<1> HIDE DEF w
<1>5. Sift(w, W) = stored
  <2>1. \A x \in ToSet(w) : x \in Items
    BY <1>4, LenProperties, ElementOfSeq DEF ToSet
  <2>2. \A x \in ToSet(w) : x \in W <=> x \in V
    BY <2>1
  <2>3. Sift(w, V) = stored
    BY <1>4
  <2> HIDE DEF W, V
  <2>4. QED BY <2>2, <2>3, SiftAlike
<1>6. Thread!NoneMissing
  <2>1. {log[i].event.id : i \in DOMAIN log} = ToSet(LoggedIn(log))
    BY DEF LoggedIn, ToSet
  <2>2. Thread!Sift(w, {x \in Thread!ToSet(w) : x.id \in Messages}) = stored
    BY <1>5, ThreadUses
  <2>3. \A a \in ToSet(LoggedIn(log)) : Thread!Cardinality({i \in DOMAIN w : w[i].id = a}) = 1
    BY <1>4, ThreadUses
  <2>4. QED BY <1>3, <2>1, <2>2, <2>3 DEF Thread!NoneMissing
<1>7. Thread!ReadsAsShown
  BY <1>1, <1>3 DEF Thread!ReadsAsShown, w
<1>8. Thread!TypeOK
  BY <1>1, <1>3, <1>4 DEF Thread!TypeOK, ThreadTyped, Items, Spoken, Logs
<1>9. QED BY <1>6, <1>7, <1>8 DEF ThreadIsRestored

(* ThreadIsRestored: until a later run has stored a shorter row, a thread  *)
(* read back is what the client had on screen, however often an activity   *)
(* was pushed and between whatever messages; and whatever became of the    *)
(* messages, each activity is there once and the row's own messages in     *)
(* their order.                                                            *)
THEOREM ThreadsReadBackAsShown == MCSpec => []ThreadIsRestored
<1>1. MCInit => ThreadInv
  BY ThreadStart DEF MCInit
<1>2. ThreadInv /\ [MCNext]_<<view, vars, threadVars, toolVars>> => ThreadInv'
  <2>1. [MCNext]_<<view, vars, threadVars, toolVars>> => [Thread!Next]_threadVars
    BY DEF MCNext
  <2>2. QED BY <2>1, ThreadStep
<1>3. QED BY <1>1, <1>2, ThreadMeans, PTL DEF MCSpec
=============================================================================
