------------------------------ MODULE Transcript ------------------------------
(***************************************************************************)
(* RunTranscript (agent/run_transcript.py): what one run's AG-UI events    *)
(* leave to store when the run is cut short, and the ids they lend to the  *)
(* dump of the messages when it completes.                                 *)
(*                                                                         *)
(* The run is written part by part, each part both as the events the       *)
(* adapter streams and as the dump will have it.  The two disagree where   *)
(* with_streamed_ids says they do: texts in a row stream as one message    *)
(* and dump as one, a file between two texts splits the stream and not the *)
(* dump, a thinking part splits the dump and not the stream, and a tool    *)
(* can speak a text the dump lacks.                                        *)
(*                                                                         *)
(* A text is the sequence of its parts' texts: newlines, which the         *)
(* comparison removes, are left out, and so are a call's arguments.        *)
(***************************************************************************)
EXTENDS Naturals, Sequences, SequencesExt, FiniteSetsExt, Selections

CONSTANT
    Setups  \* what a run may be made of, a record each:
            \*   texts       what a text or a thinking part can say; it can also say nothing
            \*   calls       tool call ids; a later response may use one again
            \*   types       activity types a tool streams
            \*   contents    contents of activities
            \*   outcomes    how a tool call can end
            \*   files       the parts a tool can hand the model beside its answer
            \*   forward     FORWARD_REASONING
            \*   parentless  whether a tool-call-only response opens no text message
            \*   maxParts    bound: parts, tool texts and activities of the run

ASSUME TranscriptAssumption ==
    \A s \in Setups :
        /\ {s.forward, s.parentless} \subseteq BOOLEAN /\ s.maxParts \in Nat
        /\ s.calls \intersect Nat = {} /\ <<>> \notin s.contents
        /\ s.outcomes \subseteq {"success", "failed", "denied", "interrupted", "retried"}

NoId == 0        \* None
Nothing == <<>>  \* no text, no content

VARIABLES
    setup,  \* which of them this is
    wire,   \* the events streamed
    run,    \* the run as the adapter has it
    dumped, \* the messages it will dump
    tr      \* the transcript

vars == <<setup, wire, run, dumped, tr>>

Texts == setup.texts
Calls == setup.calls
Types == setup.types
Contents == setup.contents
Forward == setup.forward
Parentless == setup.parentless
MaxParts == setup.maxParts

Say == {Nothing} \union {<<t>> : t \in Texts}

\* The provider's compaction: streamed as an activity and dumped as one.
Provider == "pydantic_ai_compaction"

-----------------------------------------------------------------------------
(* The transcript.                                                         *)

Empty == [items |-> <<>>,      \* drafts and tool messages
          pending |-> <<>>,    \* call id -> parent of the calls whose arguments stream
          parents |-> <<>>,    \* the calls with their parents, in order
          reasoning |-> <<>>,  \* reasoning ids with their texts
          activities |-> <<>>] \* activity ids with their types and contents

IsDraft(item) == item.kind = "draft"

Draft(id) == [kind |-> "draft", id |-> id, text |-> Nothing, calls |-> <<>>]

IndexOfId(seq, id) == {i \in DOMAIN seq : seq[i].id = id}

(* A fresh draft at every start and every call.                            *)
DraftForEach(items, id) == Append(items, Draft(id))

\* _draft_for
DraftFor(items, id) ==
    IF \E i \in IndexOfId(items, id) : IsDraft(items[i]) THEN items ELSE Append(items, Draft(id))

(* The newest call first.                                                  *)
ExtendFront(items, id, text, calls) ==
    LET made == DraftFor(items, id)
    IN [i \in DOMAIN made |->
          IF IsDraft(made[i]) /\ made[i].id = id
          THEN [made[i] EXCEPT !.text = @ \o text, !.calls = calls \o @]
          ELSE made[i]]

\* The draft of an id with text and calls added to it.
Extend(items, id, text, calls) ==
    LET made == DraftFor(items, id)
    IN [i \in DOMAIN made |->
          IF IsDraft(made[i]) /\ made[i].id = id
          THEN [made[i] EXCEPT !.text = @ \o text, !.calls = @ \o calls]
          ELSE made[i]]

\* A dict's setdefault, of an ordered dict kept as a sequence of rows.
SetDefault(seq, row) == IF IndexOfId(seq, row.id) = {} THEN Append(seq, row) ELSE seq

\* The reasoning with one of its texts gone on.
GoneOn(rows, e) ==
    [i \in DOMAIN rows |-> IF rows[i].id = e.id THEN [rows[i] EXCEPT !.text = @ \o e.text] ELSE rows[i]]

\* _snapshot
Snapshot(activities, e) ==
    LET known == SetDefault(activities, [id |-> e.id, type |-> e.type, content |-> e.content])
    IN [i \in DOMAIN known |->
          IF known[i].id = e.id /\ e.replace THEN [known[i] EXCEPT !.content = e.content]
                                             ELSE known[i]]

\* An ACTIVITY_DELTA leaves the activity with no content to compare.
Delta(activities, e) ==
    LET known == SetDefault(activities, [id |-> e.id, type |-> e.type, content |-> Nothing])
    IN [i \in DOMAIN known |->
          IF known[i].id = e.id THEN [known[i] EXCEPT !.content = Nothing] ELSE known[i]]

EndCall(t, e) ==
    LET parent == t.pending[e.call]
    IN [t EXCEPT !.items = Extend(@, IF parent = NoId THEN e.call ELSE parent, Nothing, <<e.call>>),
                 !.pending = [c \in DOMAIN @ \ {e.call} |-> @[c]]]

\* add
Add(t, e) ==
    CASE e.event = "text_start" -> [t EXCEPT !.items = DraftFor(@, e.id)]
      [] e.event = "text" -> [t EXCEPT !.items = Extend(@, e.id, e.text, <<>>)]
      [] e.event = "call_start" -> [t EXCEPT !.pending = [c \in DOMAIN @ \union {e.call} |->
                                                   IF c = e.call THEN e.parent ELSE @[c]],
                                             !.parents = Append(@, <<e.call, e.parent>>)]
      [] e.event = "call_end" -> EndCall(t, e)
      [] e.event = "result" -> [t EXCEPT !.items =
                                   Append(@, [kind |-> "tool", id |-> e.id, call |-> e.call,
                                              outcome |-> e.outcome])]
      [] e.event = "reasoning_start" ->
            [t EXCEPT !.reasoning = SetDefault(@, [id |-> e.id, text |-> Nothing])]
      [] e.event = "reasoning" -> [t EXCEPT !.reasoning = GoneOn(@, e)]
      [] e.event = "snapshot" -> [t EXCEPT !.activities = Snapshot(@, e)]
      [] e.event = "delta" -> [t EXCEPT !.activities = Delta(@, e)]

\* messages: what a run that does not complete is stored as.
Messages ==
    Sift(tr.items, {item \in ToSet(tr.items) :
                      ~IsDraft(item) \/ item.text # Nothing \/ item.calls # <<>>})

-----------------------------------------------------------------------------
(* with_streamed_ids, of the dump.                                         *)

\* _is_text_draft and _is_text_answer
TextDrafts == {item \in ToSet(tr.items) : IsDraft(item) /\ item.calls = <<>>}

TextAnswers == {m \in ToSet(dumped) : m.kind = "assistant" /\ m.calls = <<>>}

Thoughts == {m \in ToSet(dumped) : m.kind = "reasoning"}

ActivitiesOf(type) == {m \in ToSet(dumped) : m.kind = "activity" /\ m.type = type}

Nth(seq, n) == IF n \in DOMAIN seq THEN seq[n] ELSE NoId

Ids(seq) == [i \in DOMAIN seq |-> seq[i].id]

\* How many of the dumped messages up to the i-th are among some.
Place(i, some) == Cardinality({j \in 1 .. i : dumped[j] \in some})

(* Position alone, without a look at the texts.                            *)
ByPositionCounts(streamed, contents, i) ==
    IF Len(streamed) = Len(contents) THEN Nth(Ids(streamed), i) ELSE NoId

\* _by_position: the id of the i-th of its kind, if the whole kind pairs off.
ByPosition(streamed, contents, i) ==
    IF [j \in DOMAIN streamed |-> streamed[j].held] = contents
    THEN Nth(Ids(streamed), i)
    ELSE NoId

Held(seq) == [i \in DOMAIN seq |-> [id |-> seq[i].id, held |-> seq[i].text]]

TextsOf(seq) == [i \in DOMAIN seq |-> seq[i].text]

ContentsOf(seq) == [i \in DOMAIN seq |-> seq[i].content]

TextId(i) ==
    ByPosition(Held(Sift(tr.items, TextDrafts)), TextsOf(Sift(dumped, TextAnswers)),
               Place(i, TextAnswers))

ReasoningId(i) ==
    ByPosition(Held(tr.reasoning), TextsOf(Sift(dumped, Thoughts)), Place(i, Thoughts))

\* _activities_by_type.  What a delta changed pairs with nothing; the dump's
\* canonical_system key, which the comparison leaves out, is left out.
StreamedOf(type) == Sift(tr.activities, {a \in ToSet(tr.activities) : a.type = type})

ActivityId(i) ==
    LET type == dumped[i].type
        streamed == StreamedOf(type)
    IN ByPosition([j \in DOMAIN streamed |-> [id |-> streamed[j].id, held |-> streamed[j].content]],
                  ContentsOf(Sift(dumped, ActivitiesOf(type))), Place(i, ActivitiesOf(type)))

(* The latest result of a call first.                                      *)
ResultsOfNewest(c) ==
    Reverse(Ids(Sift(tr.items, {item \in ToSet(tr.items) : ~IsDraft(item) /\ item.call = c})))

\* The ids of the results of a call, and the parents it streamed under.
ResultsOf(c) == Ids(Sift(tr.items, {item \in ToSet(tr.items) : ~IsDraft(item) /\ item.call = c}))

ParentsOf(c) ==
    LET of == Sift(tr.parents, {row \in ToSet(tr.parents) : row[1] = c})
    IN [i \in DOMAIN of |-> of[i][2]]

AnswersTo(c) == {m \in ToSet(dumped) : m.kind = "tool" /\ m.call = c}

Asking(c) == {m \in ToSet(dumped) : m.kind = "assistant" /\ Contains(m.calls, c)}

(* The one parent of the calls, whatever it streamed.                      *)
ParentShared(i) ==
    LET found == {Nth(ParentsOf(c), Place(i, Asking(c))) : c \in ToSet(dumped[i].calls)}
    IN IF Cardinality(found) = 1 THEN CHOOSE p \in found : TRUE ELSE NoId

StreamedText(id) == (CHOOSE item \in ToSet(tr.items) : IsDraft(item) /\ item.id = id).text

\* _parent_holding
ParentHolding(i) ==
    LET parent == ParentShared(i)
    IN IF parent # NoId /\ StreamedText(parent) = dumped[i].text THEN parent ELSE NoId

StreamedId(i) ==
    LET m == dumped[i]
    IN CASE m.kind = "tool" -> Nth(ResultsOf(m.call), Place(i, AnswersTo(m.call)))
         [] m.kind = "assistant" /\ m.calls # <<>> -> ParentHolding(i)
         [] m.kind = "assistant" /\ m.calls = <<>> -> TextId(i)
         [] m.kind = "reasoning" -> ReasoningId(i)
         [] m.kind = "activity" -> ActivityId(i)
         [] m.kind = "user" -> NoId

\* The id each dumped message is stored under: the streamed one, or its own.
Lent ==
    LET streamed == [i \in DOMAIN dumped |-> StreamedId(i)]
    IN [i \in DOMAIN dumped |->
          IF \E j \in 1 .. i - 1 : streamed[j] = streamed[i] THEN NoId ELSE streamed[i]]

-----------------------------------------------------------------------------
(* OutcomeAGUIAdapter and strip_binary_content: what a result says of how  *)
(* its call went, streamed and stored, and what a stored message may hold. *)

\* _forwardable_outcome: absent means success, and a retry is no failure.
Forwardable(outcome) == IF outcome \in {"success", "retried"} THEN "none" ELSE outcome

(* The n-th result of the dump goes as the n-th of the stream went.        *)
StoredInTurn(i) ==
    Sift(tr.items, {item \in ToSet(tr.items) : ~IsDraft(item)})
        [Place(i, {m \in ToSet(dumped) : m.kind = "tool"})].outcome

\* _outcomes_by_call and _with_stored_outcome: the last outcome worth telling
\* of the calls by that id.
StoredOutcome(i) ==
    LET told == Sift(dumped, {m \in AnswersTo(dumped[i].call) : Forwardable(m.went) # "none"})
    IN IF told = <<>> THEN "none" ELSE Forwardable(Last(told).went)

(* A message with a file in it goes as a whole.                            *)
StripWhole(m) == IF m.kind = "user" /\ "data" \in m.parts THEN {} ELSE {m}

\* strip_binary_content, of one message: it without its bytes, unless that
\* leaves it blank.
Strip(m) ==
    IF m.kind # "user" THEN {m}
    ELSE {n \in {[m EXCEPT !.parts = @ \ {"data"}]} : n.parts # {}}

-----------------------------------------------------------------------------
(* The run.                                                                *)

\* A part streams two events at most.
Emit(events) ==
    /\ wire' = wire \o events
    /\ tr' = CASE Len(events) = 0 -> tr
                [] Len(events) = 1 -> Add(tr, events[1])
                [] Len(events) = 2 -> Add(Add(tr, events[1]), events[2])

Response == [last |-> "none", text |-> NoId, open |-> FALSE, said |-> Nothing, calls |-> <<>>,
             from |-> {}]

Init ==
    /\ setup \in Setups
    /\ wire = <<>>
    /\ dumped = <<>>
    /\ tr = Empty
    /\ run = [phase |-> "respond", r |-> Response, calling |-> NoId, asked |-> <<>>,
              waiting |-> {}, got |-> <<>>, ids |-> 0, parts |-> 0, plain |-> TRUE]

Fresh == run.ids + 1

Part(phase) == run.phase = phase /\ run.calling = NoId /\ run.parts < MaxParts

\* The dump with the message under construction closed; of is history, the
\* ids its parts streamed under.
Flushed ==
    IF run.r.open \/ run.r.calls # <<>>
    THEN Append(dumped, [kind |-> "assistant", text |-> run.r.said, calls |-> run.r.calls,
                         of |-> run.r.from])
    ELSE dumped

TextPart(t) ==
    LET joins == run.r.last = "text"
        id == IF joins THEN run.r.text ELSE Fresh
    IN /\ Part("respond")
       /\ run.asked = <<>>
       /\ Emit((IF joins THEN <<>> ELSE <<[event |-> "text_start", id |-> id]>>)
               \o (IF t = Nothing THEN <<>> ELSE <<[event |-> "text", id |-> id, text |-> t]>>))
       /\ run' = [run EXCEPT !.r.last = "text", !.r.text = id, !.r.open = TRUE,
                             !.r.said = @ \o t, !.r.from = @ \union {id},
                             !.ids = IF joins THEN @ ELSE id, !.parts = @ + 1,
                             !.plain = @ /\ (joins \/ run.r.last # "file")]
       /\ UNCHANGED dumped

FilePart ==
    /\ Part("respond")
    /\ run.r.last = "text"
    /\ run' = [run EXCEPT !.r.last = "file", !.parts = @ + 1]
    /\ UNCHANGED <<wire, dumped, tr>>

ThinkingPart(t) ==
    /\ Part("respond")
    /\ dumped' = Append(Flushed, [kind |-> "reasoning", text |-> t, of |-> {Fresh}])
    /\ Emit(IF ~Forward THEN <<>>
            ELSE <<[event |-> "reasoning_start", id |-> Fresh]>>
                 \o (IF t = Nothing THEN <<>>
                     ELSE <<[event |-> "reasoning", id |-> Fresh, text |-> t]>>))
    /\ run' = [run EXCEPT !.r.last = "thinking", !.r.open = FALSE, !.r.said = Nothing,
                          !.r.calls = <<>>, !.r.from = {}, !.ids = Fresh, !.parts = @ + 1]

\* The provider compacted the history before this response.
CompactionPart(content) ==
    /\ Part("respond")
    /\ run.r.last = "none"
    /\ Emit(<<[event |-> "snapshot", id |-> Fresh, type |-> Provider, content |-> content,
               replace |-> TRUE]>>)
    /\ dumped' = Append(dumped, [kind |-> "activity", type |-> Provider, content |-> content,
                                 of |-> {Fresh}])
    /\ run' = [run EXCEPT !.ids = Fresh, !.parts = @ + 1]

\* A call streams under the response's text message, or an empty one opened
\* for it; it is not a record until its arguments have ended.
CallStarts(c) ==
    LET opens == run.r.text = NoId /\ ~Parentless
        parent == IF opens THEN Fresh ELSE run.r.text
    IN /\ Part("respond")
       /\ c \notin run.waiting
       /\ Emit((IF opens THEN <<[event |-> "text_start", id |-> parent]>> ELSE <<>>)
               \o <<[event |-> "call_start", call |-> c, parent |-> parent]>>)
       /\ run' = [run EXCEPT !.calling = c, !.r.text = parent, !.ids = IF opens THEN parent ELSE @,
                             !.parts = @ + 1,
                             !.plain = @ /\ (run.r.open \/ run.r.calls # <<>> \/ opens)]
       /\ UNCHANGED dumped

CallEnds ==
    LET c == run.calling
    IN /\ run.phase = "respond" /\ c # NoId
       /\ Emit(<<[event |-> "call_end", call |-> c]>>)
       /\ run' = [run EXCEPT !.calling = NoId, !.waiting = @ \union {c}, !.asked = Append(@, c),
                             !.r.last = "call", !.r.calls = Append(@, c),
                             !.r.from = @ \union {run.r.text}]
       /\ UNCHANGED dumped

ResponseEnds ==
    /\ run.phase = "respond" /\ run.calling = NoId
    /\ dumped' = Flushed
    /\ run' = [run EXCEPT !.phase = IF run.asked = <<>> THEN "done" ELSE "tools", !.r = Response]
    /\ UNCHANGED <<wire, tr>>

\* What the tools answered, in the order they were asked.
Answers(asked, got) ==
    [i \in DOMAIN asked |-> [kind |-> "tool", call |-> asked[i], of |-> {got[asked[i]].id},
                             went |-> got[asked[i]].went]]

\* And then, as the client's own words, what they handed the model.
Handed(asked, got) ==
    LET handed == UNION {got[d].parts : d \in ToSet(asked)}
    IN IF handed = {} THEN <<>> ELSE <<[kind |-> "user", parts |-> handed]>>

Finished(got, c, answer) ==
    [d \in DOMAIN got \union {c} |-> IF d = c THEN answer ELSE got[d]]

\* Tools run together and finish in any order.
Answer(c, outcome, parts) ==
    LET waiting == run.waiting \ {c}
        got == Finished(run.got, c, [id |-> Fresh, went |-> outcome, parts |-> parts])
    IN /\ run.phase = "tools"
       /\ Emit(<<[event |-> "result", id |-> Fresh, call |-> c,
                  outcome |-> Forwardable(outcome)]>>)
       /\ run' = [run EXCEPT !.waiting = waiting, !.got = got, !.ids = Fresh,
                             !.phase = IF waiting = {} THEN "respond" ELSE @,
                             !.asked = IF waiting = {} THEN <<>> ELSE @]
       /\ dumped' = IF waiting # {} THEN dumped
                    ELSE dumped \o Answers(run.asked, got) \o Handed(run.asked, got)

\* A tool can send any event of its own along.
ToolSpeaks(t) ==
    /\ Part("tools")
    /\ Emit(<<[event |-> "text_start", id |-> Fresh], [event |-> "text", id |-> Fresh, text |-> t]>>)
    /\ run' = [run EXCEPT !.ids = Fresh, !.parts = @ + 1, !.plain = FALSE]
    /\ UNCHANGED dumped

ToolShows(event, id, type, content, replace) ==
    /\ Part("tools")
    /\ id = Fresh \/ \E a \in ToSet(tr.activities) : a.id = id /\ a.type = type
    /\ Emit(<<[event |-> event, id |-> id, type |-> type, content |-> content,
               replace |-> replace]>>)
    /\ run' = [run EXCEPT !.ids = IF id = Fresh THEN id ELSE @, !.parts = @ + 1,
                          !.plain = @ /\ type # Provider]
    /\ UNCHANGED dumped

Over == run.phase = "done" /\ UNCHANGED vars

Next ==
    /\ UNCHANGED setup
    /\ \/ \E t \in Say : TextPart(t) \/ ThinkingPart(t)
       \/ FilePart
       \/ \E content \in Contents : CompactionPart(content)
       \/ \E c \in Calls : CallStarts(c)
       \/ \E c \in run.waiting, outcome \in setup.outcomes, parts \in setup.files :
           Answer(c, outcome, parts)
       \/ CallEnds
       \/ ResponseEnds
       \/ \E t \in Say \ {Nothing} : ToolSpeaks(t)
       \/ \E type \in Types, id \in 1 .. Fresh :
           \/ \E content \in Contents, replace \in BOOLEAN :
               ToolShows("snapshot", id, type, content, replace)
           \/ ToolShows("delta", id, type, Nothing, TRUE)
       \/ Over

Spec == Init /\ [][Next]_vars

-----------------------------------------------------------------------------
(* What the client was shown, read off the wire.                           *)

Shown(type) == {i \in DOMAIN wire : wire[i].event = type}

WireText(type, id) ==
    FlattenSeq([i \in DOMAIN wire |->
                  IF wire[i].event = type /\ wire[i].id = id THEN wire[i].text ELSE Nothing])

\* The content an activity has on the client; Nothing once a delta changed it.
WireContent(id) ==
    LET of(i) == wire[i].event \in {"snapshot", "delta"} /\ wire[i].id = id
        settles(i) == of(i) /\ (wire[i].replace \/ \A j \in 1 .. i - 1 : ~of(j))
    IN wire[Max({i \in DOMAIN wire : settles(i)})].content

TypeOK ==
    /\ setup \in Setups
    /\ run.phase \in {"respond", "tools", "done"}
    /\ run.calling \in Calls \union {NoId}
    /\ run.waiting \subseteq ToSet(run.asked)
    /\ run.parts \in 0 .. MaxParts
    /\ \A item \in ToSet(tr.items) :
        IF IsDraft(item) THEN item.id \in 1 .. run.ids \union Calls ELSE item.call \in Calls
    /\ DOMAIN tr.pending = {run.calling} \ {NoId}
    /\ \A a \in ToSet(tr.activities) : a.content \in Contents \union {Nothing}

\* The calls whose arguments had ended, and they and the results, in order.
WireCalls ==
    FlattenSeq([i \in DOMAIN wire |->
        IF wire[i].event = "call_end" THEN <<wire[i].call>> ELSE <<>>])

WireTrail ==
    FlattenSeq([i \in DOMAIN wire |->
        IF wire[i].event = "call_end" THEN <<<<"call", wire[i].call>>>>
        ELSE IF wire[i].event = "result" THEN <<<<"result", wire[i].call>>>> ELSE <<>>])

StoredCalls(items) ==
    FlattenSeq([i \in DOMAIN items |-> IF IsDraft(items[i]) THEN items[i].calls ELSE <<>>])

StoredTrail(items) ==
    FlattenSeq([i \in DOMAIN items |->
        IF IsDraft(items[i]) THEN [j \in DOMAIN items[i].calls |-> <<"call", items[i].calls[j]>>]
        ELSE <<<<"result", items[i].call>>>>])

(* A run cut short, at whatever event, is stored with all the client saw   *)
(* of it: each text that said something once, whole and under its id, and  *)
(* each call whose arguments had ended as often as it was made.  Half a    *)
(* call is left out.                                                       *)
StoresWhatStreamed ==
    LET stored == Messages
    IN /\ \A i \in Shown("text") :
           \E m \in ToSet(stored) : IsDraft(m) /\ m.id = wire[i].id
                                   /\ m.text = WireText("text", m.id)
       /\ \A i, j \in DOMAIN stored :
           IsDraft(stored[i]) /\ IsDraft(stored[j]) /\ stored[i].id = stored[j].id => i = j
       /\ \A c \in Calls : Times(c, StoredCalls(stored)) = Times(c, WireCalls)

(* What it stores has the calls and their results in the order they ended  *)
(* and came, also when a later response uses a call id again, unless that  *)
(* call names no parent: a model provider refuses a history in which a     *)
(* result answers no call before it.                                       *)
CallsLandInOrder ==
    \/ Parentless /\ \E i, j \in Shown("call_start") : i # j /\ wire[i].call = wire[j].call
    \/ StoredTrail(Messages) = WireTrail

\* What the client was shown under an id is what a dumped message holds.
Holds(id, m) ==
    CASE m.kind = "tool" -> \E i \in Shown("result") : wire[i].id = id /\ wire[i].call = m.call
      [] m.kind = "assistant" -> /\ \E i \in Shown("text_start") : wire[i].id = id
                                 /\ WireText("text", id) = m.text
      [] m.kind = "reasoning" -> /\ \E i \in Shown("reasoning_start") : wire[i].id = id
                                 /\ WireText("reasoning", id) = m.text
      [] m.kind = "activity" -> /\ \E i \in Shown("snapshot") : wire[i].id = id
                                                            /\ wire[i].type = m.type
                                /\ WireContent(id) = m.content

(* A completed run's message takes a streamed id only when it holds what   *)
(* the client was shown under it, and no two take the same: whatever in    *)
(* the run streams and is not dumped, is dumped and not streamed, is split *)
(* or is joined, a rating keyed by an id never lands on other words.       *)
LendsWhatItHolds ==
    run.phase = "done" =>
        LET lent == Lent
        IN \A i \in DOMAIN dumped : lent[i] # NoId =>
            /\ Holds(lent[i], dumped[i])
            /\ \A j \in 1 .. i - 1 : lent[j] # lent[i]

\* The outcomes the results of a call streamed with.
WireOutcomes(c) == {wire[i].outcome : i \in {j \in Shown("result") : wire[j].call = c}}

(* Whichever way the run leaves, a stored result says of its call what the *)
(* client was told when it came, also when tools finish in another order   *)
(* than they were asked; unless the run used the call's id again.          *)
OutcomesAsStreamed ==
    /\ \A item \in ToSet(Messages) :
        ~IsDraft(item) => item.outcome \in WireOutcomes(item.call)
    /\ run.phase = "done" =>
        \A i \in DOMAIN dumped : dumped[i].kind = "tool" =>
            \/ WireOutcomes(dumped[i].call) = {StoredOutcome(i)}
            \/ \E j \in DOMAIN dumped : j # i /\ dumped[j].kind = "tool"
                                            /\ dumped[j].call = dumped[i].call

(* The server stores no bytes of a file it handed the model, and loses     *)
(* nothing else of the message they came in.                               *)
NoBytesStored ==
    \A m \in ToSet(dumped) : m.kind = "user" =>
        UNION {n.parts : n \in Strip(m)} = m.parts \ {"data"}

(* A run in which the two agree, whatever its texts, calls that finish out *)
(* of order, reused call ids and activities of tools, keeps every id the   *)
(* client was shown, each on its own message.                              *)
PlainRunsKeepTheirIds ==
    run.phase = "done" /\ run.plain =>
        LET lent == Lent
        IN \A i \in DOMAIN dumped :
            dumped[i].kind # "user" /\ (dumped[i].kind = "reasoning" => Forward)
                => lent[i] \in dumped[i].of
=============================================================================
