------------------------------ MODULE MCNotices ------------------------------
(***************************************************************************)
(* What goes with a run beside its messages: the notices of its stream     *)
(* (Notices), the charts and suggestions a project pushes (LiveActivities) *)
(* and what the client says of its user's situation (ClientContext).  The  *)
(* three share no state; each is explored with the others at rest.         *)
(***************************************************************************)
EXTENDS Notices, TLC

CONSTANTS t1, t2, Parts

VARIABLES
    part,       \* which of the three is explored
    numbers, declared, offered, pending, content, drawn, chips,
    post, config, walked, sections, remaining, truncated

-----------------------------------------------------------------------------
(* Notices: two tool calls that meet in a turn or follow each other.       *)

\* Tools that write, with the task one may leave behind it.
Writing ==
    [gated |-> {}, own |-> {}, confirm |-> {}, project |-> [t \in Tools |-> "nothing"],
     forward |-> FALSE, detached |-> TRUE]

\* Tools a person approves, with what there is to ask in.
Asking(own, confirm, first, second) ==
    [gated |-> {t1, t2}, own |-> own, confirm |-> confirm,
     project |-> (t1 :> first @@ t2 :> second), forward |-> TRUE, detached |-> FALSE]

Setting == {Writing, Asking({t1}, {t2}, "phrase", "nothing"), Asking({}, Tools, "phrase", "blank")}

\* Tools that write and leave nothing behind.
Plain == {[Writing EXCEPT !.detached = FALSE]}

-----------------------------------------------------------------------------
(* LiveActivities: charts of one or two labels and series, and charts that *)
(* are not to be drawn (blank, too wide, too many points, out of line, not *)
(* a number), three points and two labels being the most there may be.     *)

Shape(labels, series) ==
    [labels |-> labels, series |-> series, title |-> FALSE, metadata |-> {}]

Drawn ==
    {[Shape(1, <<<<1>>>>) EXCEPT !.title = TRUE],
     [Shape(2, <<<<2, 1>>>>) EXCEPT !.metadata = {"kind", "labels", "title"}],
     Shape(1, <<<<1>>, <<2>>>>),
     Shape(0, <<<<>>>>), Shape(1, <<>>), Shape(3, <<<<1, 1, 1>>>>),
     Shape(2, <<<<1, 1>>, <<2, 2>>>>), Shape(2, <<<<1, 2>>, <<1>>>>), Shape(1, <<<<99>>>>)}

Moved == [index : 0 .. 3, points : {<<>>, <<1>>, <<2>>, <<1, 2>>, <<99>>}]

\* Prompts with and without room around them, too long a one and a blank one.
Prompts == {[raw |-> 1, stripped |-> 1], [raw |-> 2, stripped |-> 1],
            [raw |-> 3, stripped |-> 2], [raw |-> 2, stripped |-> 0]}

Charts == INSTANCE LiveActivities WITH
    Drawings <- Drawn, Moves <- Moved, Offers <- SeqOf(Prompts, 3),
    Points <- {1, 2}, BadPoint <- 99, MaxLabels <- 2, MaxPoints <- 3,
    MaxPrompts <- 2, MaxChars <- 2, MaxPending <- 2

ASSUME Charts!LimitsAssumption

activityVars == <<numbers, declared, offered, pending, content, drawn, chips>>

-----------------------------------------------------------------------------
(* ClientContext: up to three entries, or up to two messages with refs on  *)
(* either carrier, under budgets the values meet, pass or fall short of.   *)

Entry(label, value) == [label |-> label, value |-> value]

Entries ==
    {Entry(<<"word">>, value) :
        value \in {<<>>, <<"space", "newline">>, <<"space", "marker", "word", "marker">>}}
    \union
    {Entry(label, <<"word">>) :
        label \in {<<"word">>, <<"newline", "marker", "newline", "space", "marker">>}}

NoRefs == [there |-> FALSE, refs |-> <<>>]
Refs(ids) == [there |-> TRUE, refs |-> ids]

Carriers == {NoRefs, Refs(<<>>), Refs(<<"f1">>), Refs(<<"f2", "junk", "f1", "f2">>)}

Messages == [role : {"user", "assistant"}, metadata : Carriers, top : Carriers]

Posted ==
    [context : SeqOf(Entries, 3),
     messages : {<<>>, <<[role |-> "user", metadata |-> Refs(<<"f1">>), top |-> NoRefs]>>}]
    \union [context : {<<>>}, messages : SeqOf(Messages, 2)]

Configured ==
    [clientContext : BOOLEAN, manifest : BOOLEAN, maxChars : {0, 1, 3, 4, 5},
     delivery : {"instructions", "tool"}, operator : BOOLEAN]

Context == INSTANCE ClientContext WITH
    Posts <- Posted, Configs <- Configured, MaxLabel <- 3, at <- walked

contextVars == <<post, config, walked, sections, remaining, truncated>>

ContextAtRest ==
    /\ post = [context |-> <<>>, messages |-> <<>>]
    /\ config = CHOOSE c \in Configured : c.maxChars = 0
    /\ walked = 1 /\ sections = <<>> /\ remaining = 0 /\ truncated = FALSE

-----------------------------------------------------------------------------
MCInit ==
    /\ part \in Parts
    /\ Init /\ (part # "notices" => setup = CHOOSE s \in Setups : TRUE)
    /\ Charts!Init
    /\ IF part = "context" THEN Context!Init ELSE ContextAtRest

MCNext ==
    /\ UNCHANGED part
    /\ \/ part = "notices" /\ Next /\ UNCHANGED <<activityVars, contextVars>>
       \/ part = "activities" /\ Charts!Next /\ UNCHANGED <<vars, contextVars>>
       \/ part = "context" /\ Context!Next /\ UNCHANGED <<vars, activityVars>>

MCSpec == MCInit /\ [][MCNext]_<<part, vars, activityVars, contextVars>>

-----------------------------------------------------------------------------
(* A compaction is shown above the answer that follows it, and the         *)
(* provider's own events come through as they were.                        *)
NoticesInPlace == TypeOK /\ CompactionAboveItsTurn /\ NothingElseChanges

(* What the client draws is what the project pushed, now and after a       *)
(* reload: nothing it accepts is refused where nobody would hear of it.    *)
DrawsWhatIsPushed ==
    Charts!TypeOK /\ Charts!ShowsTheNumbers /\ Charts!SnapshotsMend /\ Charts!OffersEveryPrompt

(* The model reads the first max_chars of what the client said, told when  *)
(* that is not all, inside a fence the client cannot forge, and by one     *)
(* channel.                                                                *)
ContextIsFenced ==
    /\ Context!TypeOK /\ Context!BlockIsAPrefix /\ Context!FenceHolds
    /\ Context!ManifestIsTheUsers /\ Context!OneChannel
=============================================================================
