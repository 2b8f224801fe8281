----------------------------- MODULE ClientContext -----------------------------
(***************************************************************************)
(* What a client says of its user's situation, on the way to the model:    *)
(* its context entries and the attachments its messages name               *)
(* (build_untrusted_context, attachment_context_items), walked into one    *)
(* fenced block under a budget (render_untrusted_context), and the one of  *)
(* two channels the block goes by (AgentSession).                          *)
(*                                                                         *)
(* A text is a sequence of tokens, each of length one: a word, a space, a  *)
(* newline, the fence's marker in any casing, or an attachment's line.     *)
(***************************************************************************)
EXTENDS Naturals, Sequences, SequencesExt, FiniteSetsExt, Selections

CONSTANTS
    Posts,      \* what a client may post: its context, a sequence of labels
                \* and values; its messages, each with a role and two carriers
                \* of attachment refs, the newer metadata and the older top:
                \* whether its key is there, and the refs, none when its value
                \* is no list
    Configs,    \* RunContextConfig and the operator's instructions
    MaxLabel    \* _MAX_LABEL_CHARS

VARIABLES
    post,       \* the RunAgentInput
    config,
    at,         \* the next item of the walk
    sections,   \* the sections made so far
    remaining,  \* of the budget
    truncated

vars == <<post, config, at, sections, remaining, truncated>>

Blank == {"space", "newline"}
Junk == "junk"  \* a ref with no usable id

-----------------------------------------------------------------------------
(* Texts.                                                                  *)

Cut(text, n) == SubSeq(text, 1, Min({n, Len(text)}))

Strip(text) ==
    LET said == {i \in DOMAIN text : text[i] \notin Blank}
    IN IF said = {} THEN <<>> ELSE SubSeq(text, Min(said), Max(said))

(* The opening of a marker is enough to look for.                          *)
NeutraliseFirst(text) ==
    [i \in DOMAIN text |->
       IF text[i] = "marker" /\ \A j \in 1 .. i - 1 : text[j] # "marker" THEN "word" ELSE text[i]]

\* _neutralise: every occurrence, and of the same length.
Neutralise(text) == [i \in DOMAIN text |-> IF text[i] = "marker" THEN "word" ELSE text[i]]

\* Runs of whitespace as single spaces.
Collapse(text) ==
    FlattenSeq([i \in DOMAIN text |->
        IF text[i] \notin Blank THEN <<text[i]>>
        ELSE IF i > 1 /\ text[i - 1] \in Blank THEN <<>> ELSE <<"space">>])

\* _label
Label(label) == Cut(Neutralise(Strip(Collapse(label))), MaxLabel)

-----------------------------------------------------------------------------
(* The items.                                                              *)

(* The older carrier where the newer one names nothing.                    *)
RefsOfEither(message) ==
    IF message.metadata.refs # <<>> THEN message.metadata.refs ELSE message.top.refs

\* _attachment_refs: the key decides, not whether its value parses.
Refs(message) ==
    IF message.metadata.there THEN message.metadata.refs ELSE message.top.refs

\* The ids a message mentions; only a user's message is read.
Mentions(message) ==
    IF message.role = "user" THEN Sift(Refs(message), ToSet(Refs(message)) \ {Junk}) ELSE <<>>

\* The first mention of each id.
Manifest == Firsts(FlattenSeq([i \in DOMAIN post.messages |-> Mentions(post.messages[i])]))

\* attachment_context_items: a line for each, and how to read one.
AttachmentItems ==
    IF Manifest = <<>> THEN <<>>
    ELSE <<[label |-> <<"word">>, value |-> Append(Manifest, "hint")]>>

\* build_untrusted_context
Items ==
    (IF config.clientContext THEN post.context ELSE <<>>)
    \o (IF config.manifest THEN AttachmentItems ELSE <<>>)

-----------------------------------------------------------------------------
(* The walk.                                                               *)

Init ==
    /\ post \in Posts
    /\ config \in Configs
    /\ at = 1
    /\ sections = <<>>
    /\ remaining = config.maxChars
    /\ truncated = FALSE

Value == Neutralise(Strip(Items[at].value))

SkipBlank ==
    /\ at \in DOMAIN Items
    /\ Value = <<>>
    /\ at' = at + 1
    /\ UNCHANGED <<post, config, sections, remaining, truncated>>

(* An item that fills the budget is the last, and the block says so.       *)
TakeAndClose ==
    /\ at \in DOMAIN Items
    /\ Value # <<>> /\ remaining > 0
    /\ LET value == Cut(Value, remaining)
       IN /\ sections' = Append(sections, [label |-> Label(Items[at].label), value |-> value])
          /\ remaining' = remaining - Len(value)
    /\ truncated' = (truncated \/ Len(Value) >= remaining)
    /\ at' = at + 1
    /\ UNCHANGED <<post, config>>

\* The item that crosses the budget is cut.
Take ==
    /\ at \in DOMAIN Items
    /\ Value # <<>> /\ remaining > 0
    /\ LET value == Cut(Value, remaining)
       IN /\ sections' = Append(sections, [label |-> Label(Items[at].label), value |-> value])
          /\ remaining' = remaining - Len(value)
    /\ truncated' = (truncated \/ Len(Value) > remaining)
    /\ at' = at + 1
    /\ UNCHANGED <<post, config>>

\* Something is left and nothing remains: the walk breaks off.
BreakOff ==
    /\ at \in DOMAIN Items
    /\ Value # <<>> /\ remaining = 0
    /\ truncated' = TRUE
    /\ at' = Len(Items) + 1
    /\ UNCHANGED <<post, config, sections, remaining>>

Walked == at > Len(Items)

Over == Walked /\ UNCHANGED vars

Next == SkipBlank \/ Take \/ BreakOff \/ Over

Spec == Init /\ [][Next]_vars

-----------------------------------------------------------------------------
(* The channels.                                                           *)

\* Whether there is a block: none when nothing survived.
Block == sections # <<>>

(* The block goes by instructions when they are there to go with.          *)
RunInstructionsBeside ==
    (IF config.operator THEN <<"operator">> ELSE <<>>)
    \o (IF config.delivery = "instructions" /\ Block /\ config.operator
        THEN <<"client">> ELSE <<>>)

\* _run_instructions: the operator's rules before the client's data.
RunInstructions ==
    (IF config.operator THEN <<"operator">> ELSE <<>>)
    \o (IF config.delivery = "instructions" /\ Block THEN <<"client">> ELSE <<>>)

\* _run_toolsets: whether get_client_context is among them.
OffersContextTool == config.delivery = "tool" /\ Block

-----------------------------------------------------------------------------
TypeOK ==
    /\ at \in 1 .. Len(Items) + 1
    /\ remaining \in 0 .. config.maxChars
    /\ truncated \in BOOLEAN

\* All a client has said, in order, as it may be passed on.
Said ==
    FlattenSeq([i \in DOMAIN Items |-> Neutralise(Strip(Items[i].value))])

Passed == FlattenSeq([i \in DOMAIN sections |-> sections[i].value])

(* The block holds the first max_chars of what the client said, blank      *)
(* values aside, and owns up to having cut if and only if there was more:  *)
(* a walk that ends exactly on its budget has cut nothing.                 *)
BlockIsAPrefix ==
    Walked =>
        /\ Passed = Cut(Said, config.maxChars)
        /\ Block => (truncated <=> Len(Said) > config.maxChars)

(* No client closes the fence or opens one of its own, by a value or by a  *)
(* label, and no label runs into a second line.                            *)
FenceHolds ==
    \A s \in ToSet(sections) :
        /\ "marker" \notin ToSet(s.label) \union ToSet(s.value)
        /\ "newline" \notin ToSet(s.label) /\ Len(s.label) <= MaxLabel

\* What the i-th message names.
Named(i) ==
    LET m == post.messages[i]
        carrier == IF m.metadata.there THEN m.metadata ELSE m.top
    IN IF m.role = "user" THEN ToSet(carrier.refs) \ {Junk} ELSE {}

(* The manifest names every attachment that a user's message names, once,  *)
(* in the order of their first mentions, and none that only another role's *)
(* message names, or a copy which its message overrides.                   *)
ManifestIsTheUsers ==
    LET first(id) == Min({i \in DOMAIN post.messages : id \in Named(i)})
    IN /\ ToSet(Manifest) = UNION {Named(i) : i \in DOMAIN post.messages}
       /\ \A i \in DOMAIN Manifest, j \in DOMAIN Manifest :
            i < j => Manifest[i] # Manifest[j] /\ first(Manifest[i]) <= first(Manifest[j])

(* What survived goes to the model by one channel and one only, and what   *)
(* the operator says comes before what the client does.                    *)
OneChannel ==
    Walked =>
        /\ Block <=> (Contains(RunInstructions, "client") \/ OffersContextTool)
        /\ ~(Contains(RunInstructions, "client") /\ OffersContextTool)
        /\ config.operator => RunInstructions # <<>> /\ Head(RunInstructions) = "operator"
=============================================================================
