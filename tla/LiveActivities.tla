---------------------------- MODULE LiveActivities ----------------------------
(***************************************************************************)
(* Charts and suggestions (chart_activity, chart_points_delta, ChartSpec,  *)
(* chart_limits, suggestions_activity): what a project pushes to its page  *)
(* beside the answer.  The page refuses what it cannot draw and has no     *)
(* channel to say so; so the producer knows its limits, and refuses first. *)
(*                                                                         *)
(* One chart and one row of suggestions, each kept under one id.  A series *)
(* is the sequence of its points; a label's words, what a metadata key     *)
(* holds, and a prompt but for its length are left out.                    *)
(***************************************************************************)
EXTENDS Naturals, Sequences, SequencesExt, FiniteSetsExt

CONSTANTS
    Drawings,       \* the specs a project tries, valid or not: the number of
                    \* labels, the series, whether it has a title, and the keys
                    \* of its metadata
    Moves,          \* the deltas it tries: an index and the points
    Offers,         \* the sets of prompts it tries: of each prompt its length,
                    \* and its length when stripped
    Points,         \* numbers that may be charted
    BadPoint,       \* what validate_point refuses: a Decimal, a bool, NaN, 1e16
    MaxLabels,      \* MAX_LABELS, of both sides
    MaxPoints,      \* MAX_POINTS, of both sides
    MaxPrompts,     \* MAX_SUGGESTIONS, of both sides
    MaxChars,       \* MAX_SUGGESTION_CHARS, of both sides
    MaxPending      \* bound: events under way at once

LimitsAssumption ==
    /\ BadPoint \notin Points
    /\ {MaxLabels, MaxPoints, MaxPrompts, MaxChars, MaxPending} \subseteq Nat \ {0}

VARIABLES
    numbers,    \* the chart as the project has it, the spec it drew last and
                \* the deltas it declared since
    declared,   \* history: since the last snapshot, every delta declared its
                \* spec, and nothing sent was lost
    offered,    \* the prompts it last offered, stripped
    pending,    \* the events under way, in order
    content,    \* what the client holds under the chart's id
    drawn,      \* the chart on its screen
    chips       \* the chips on its screen

vars == <<numbers, declared, offered, pending, content, drawn, chips>>

Nothing == <<>>

Theirs == 0     \* what a metadata key holds

-----------------------------------------------------------------------------
(* The producer.                                                           *)

\* validate_point
ValidPoints(points) == BadPoint \notin ToSet(points)

(* The point budget, which a long axis of few series is within.            *)
ValidSize(spec) ==
    /\ spec.labels > 0
    /\ Len(spec.series) * spec.labels \in 1 .. MaxPoints
    /\ \A s \in ToSet(spec.series) : Len(s) = spec.labels /\ ValidPoints(s)

\* ChartSpec.validate
Valid(spec) ==
    /\ spec.labels \in 1 .. MaxLabels
    /\ spec.series # <<>>
    /\ spec.labels * Len(spec.series) <= MaxPoints
    /\ \A s \in ToSet(spec.series) : Len(s) = spec.labels /\ ValidPoints(s)

\* The keys a record sets of its own, and what it sets them to.
OwnKeys(spec) == {"labels", "series", "kind"} \union (IF spec.title THEN {"title"} ELSE {})

Ours(spec, key) ==
    CASE key = "labels" -> spec.labels
      [] key = "series" -> spec.series
      [] OTHER -> "ours"

(* Metadata spread last.                                                   *)
AsContentUnder(spec) ==
    [key \in OwnKeys(spec) \union spec.metadata |->
        IF key \in spec.metadata THEN Theirs ELSE Ours(spec, key)]

\* as_content: the record's own keys over the metadata's, and no title but
\* its own.
AsContent(spec) ==
    [key \in OwnKeys(spec) \union (spec.metadata \ {"title"}) |->
        IF key \in OwnKeys(spec) THEN Ours(spec, key) ELSE Theirs]

Send(event) ==
    /\ Len(pending) < MaxPending
    /\ pending' = Append(pending, event)

\* chart_activity
Draw(spec) ==
    /\ Valid(spec)
    /\ Send([event |-> "snapshot", content |-> AsContent(spec)])
    /\ numbers' = spec
    /\ declared' = TRUE
    /\ UNCHANGED <<offered, content, drawn, chips>>

Patched(chart, index, points) == [chart EXCEPT !.series[index] = points]

(* The index is looked up, the length is not.                              *)
FitsSpecIndex(index, points) == index \in DOMAIN numbers.series

\* What every delta is held to.
Sendable(index, points) == index > 0 /\ points # <<>> /\ ValidPoints(points)

\* The checks spec= turns on: the index, then the length.
FitsSpec(index, points) ==
    /\ index \in DOMAIN numbers.series
    /\ Len(points) = numbers.labels

\* chart_points_delta, of a caller that declares the spec it drew last ...
MoveDeclared(index, points) ==
    /\ numbers # Nothing
    /\ Sendable(index, points)
    /\ FitsSpec(index, points)
    /\ Send([event |-> "delta", index |-> index, points |-> points])
    /\ numbers' = Patched(numbers, index, points)
    /\ UNCHANGED <<declared, offered, content, drawn, chips>>

\* ... and of one that declares nothing.
Move(index, points) ==
    /\ Sendable(index, points)
    /\ Send([event |-> "delta", index |-> index, points |-> points])
    /\ declared' = FALSE
    /\ UNCHANGED <<numbers, offered, content, drawn, chips>>

\* The prompts a set may hold.
Fitting(prompts) ==
    /\ Len(prompts) \in 1 .. MaxPrompts
    /\ \A p \in ToSet(prompts) : p.stripped > 0 /\ p.raw <= MaxChars

Stripped(prompts) == [i \in DOMAIN prompts |-> prompts[i].stripped]

\* suggestions_activity
Suggest(prompts) ==
    /\ Fitting(prompts)
    /\ Send([event |-> "suggestions", prompts |-> Stripped(prompts)])
    /\ offered' = Stripped(prompts)
    /\ UNCHANGED <<numbers, declared, content, drawn, chips>>

-----------------------------------------------------------------------------
(* The client, as the module of limits tells it.                           *)

Drawable(chart) ==
    /\ chart # Nothing
    /\ chart.labels \in 1 .. MaxLabels
    /\ chart.series \in Seq(Seq(Points))
    /\ Len(FlattenSeq(chart.series)) \in 1 .. MaxPoints
    /\ \A s \in ToSet(chart.series) : Len(s) = chart.labels

\* A chart is redrawn from what is held, or left as it was.
Hold(chart) ==
    /\ content' = chart
    /\ drawn' = IF Drawable(chart) THEN chart ELSE drawn

DeliverSnapshot ==
    /\ Head(pending).event = "snapshot"
    /\ Hold(Head(pending).content)
    /\ UNCHANGED chips

\* A delta for an id that is not held, or for a series that is not there, is
\* dropped.
DeliverDelta ==
    LET e == Head(pending)
    IN /\ e.event = "delta"
       /\ IF content # Nothing /\ e.index \in DOMAIN content.series
          THEN Hold(Patched(content, e.index, e.points))
          ELSE UNCHANGED <<content, drawn>>
       /\ UNCHANGED chips

DeliverSuggestions ==
    /\ Head(pending).event = "suggestions"
    /\ LET sent == Head(pending).prompts
       IN chips' = [i \in 1 .. Min({MaxPrompts, Len(sent)}) |-> Min({MaxChars, sent[i]})]
    /\ UNCHANGED <<content, drawn>>

Deliver ==
    /\ pending # <<>>
    /\ DeliverSnapshot \/ DeliverDelta \/ DeliverSuggestions
    /\ pending' = Tail(pending)
    /\ UNCHANGED <<numbers, declared, offered>>

\* The page is reloaded: what it held is drawn anew, or not at all.
Reload ==
    /\ drawn' = IF Drawable(content) THEN content ELSE Nothing
    /\ UNCHANGED <<numbers, declared, offered, pending, content, chips>>

\* The client leaves, and what was under way is lost.
Leave ==
    /\ pending # <<>>
    /\ pending' = <<>>
    /\ declared' = FALSE
    /\ offered' = chips
    /\ UNCHANGED <<numbers, content, drawn, chips>>

Init ==
    /\ numbers = Nothing /\ declared = TRUE /\ offered = <<>>
    /\ pending = <<>>
    /\ content = Nothing /\ drawn = Nothing /\ chips = <<>>

Next ==
    \/ \E spec \in Drawings : Draw(spec)
    \/ \E m \in Moves : MoveDeclared(m.index, m.points) \/ Move(m.index, m.points)
    \/ \E prompts \in Offers : Suggest(prompts)
    \/ Deliver
    \/ Reload
    \/ Leave

Spec == Init /\ [][Next]_vars

-----------------------------------------------------------------------------
TypeOK ==
    /\ declared \in BOOLEAN
    /\ Len(pending) <= MaxPending
    /\ drawn # Nothing => Drawable(drawn)
    /\ Len(chips) <= MaxPrompts

(* What the client shows once everything sent has arrived is what the      *)
(* project last said, and a reload would show it again: no snapshot that   *)
(* was accepted is refused on arrival, whatever metadata came with it, and *)
(* no delta that declared its spec leaves a stale or an undrawable chart.  *)
ShowsTheNumbers ==
    pending = <<>> /\ declared /\ numbers # Nothing =>
        /\ Drawable(content) /\ drawn = content
        /\ content.labels = numbers.labels /\ content.series = numbers.series
        /\ content.kind = "ours"
        /\ "title" \in DOMAIN content <=> numbers.title

(* A snapshot mends a chart that undeclared or lost deltas had spoilt:     *)
(* what is on its way is drawn as sent.                                    *)
SnapshotsMend ==
    \A i \in DOMAIN pending : pending[i].event = "snapshot" => Drawable(pending[i].content)

(* Every prompt of a set that was accepted is a chip, none cut or dropped. *)
OffersEveryPrompt ==
    (\A i \in DOMAIN pending : pending[i].event # "suggestions") => chips = offered
=============================================================================
