------------------------------- MODULE Notices -------------------------------
(***************************************************************************)
(* What a run says beside the provider's own events: compactions, which    *)
(* CompactionObserver records before a model request, and invalidations,   *)
(* which a tool's post-commit callback publishes.  Each goes to a sink of  *)
(* the run, and the stage that owns the sink empties it into the stream:   *)
(*                                                                         *)
(*   client < stamp_approval_prompts < inject_invalidation_events          *)
(*     < inject_compaction_events < drop_reasoning_events < provider       *)
(*                                                                         *)
(* A generator is resumed by its consumer, so one place at a time runs;    *)
(* the tools run beside them, a synchronous one in a thread of its own.    *)
(***************************************************************************)
EXTENDS Integers, Sequences, FiniteSets, SequencesExt, Selections

CONSTANTS
    Tools,      \* the calls the model may make
    Turns,      \* bound: model requests of the run
    Setups,     \* what an application may have set up, a record each:
                \*   gated      the calls that defer to an approval
                \*   project    what APPROVAL_PROMPTS has for each call's tool
                \*   confirm    calls whose tool is registered with a confirm=
                \*   own        gated calls raised with an x-confirm of their own
                \*   forward    forward_reasoning
                \*   detached   a call may leave a task behind, to publish later
    Threaded    \* TRUE: callbacks run in worker threads, beside the event loop

ASSUME NoticesAssumption ==
    /\ Turns \in Nat \ {0}
    /\ Threaded \in BOOLEAN
    /\ Setups \subseteq [gated : SUBSET Tools, own : SUBSET Tools, confirm : SUBSET Tools,
                         project : [Tools -> {"nothing", "blank", "phrase"}],
                         forward : BOOLEAN, detached : BOOLEAN]
    /\ \A s \in Setups : s.own \subseteq s.gated

VARIABLES
    setup,      \* which of them this is
    at,         \* who is running, as the generators resume each other
    phase,      \* what the provider does next
    turn,       \* model requests made
    call,       \* each tool call's progress
    compactions,\* COMPACTION_SINK
    queued,     \* INVALIDATION_SINK
    copied,     \* what _drain has copied of it and not yet cleared
    inner,      \* what inject_compaction_events has still to yield
    outer,      \* what inject_invalidation_events has still to yield
    names,      \* stamp_approval_prompts: calls whose start it has seen
    out,        \* what the client has received
    prompt,     \* what each interrupt of the last event asks with
    said,       \* history: events the provider has produced
    told        \* history: how many events each publish follows, or its fate

stages == <<at, copied, inner, outer, names, out, prompt>>
provider == <<phase, turn, call>>
sinks == <<compactions, queued>>
vars == <<setup, stages, provider, sinks, said, told>>

Gated == setup.gated
Own == setup.own
Forward == setup.forward
Detached == setup.detached

-----------------------------------------------------------------------------
\* An event: its kind, and the turn or the tool call it belongs to.
Event(kind, of) == [kind |-> kind, of |-> of]
Kinds == {"thought", "text", "start", "result", "finish", "compaction",
          "invalidation"}
Events == [kind : Kinds, of : (0 .. Turns) \union Tools]

Nothing == [kind |-> "end", of |-> 0]

\* A call that published nothing, and one to whose sink nobody looks any more.
Unsaid == -1
Orphaned == -2
Heard == {t \in Tools : told[t] >= 0}

TypeOK ==
    /\ setup \in Setups
    /\ at \in {"client", "outer", "copied", "inner", "provider", "over", "left"}
    /\ phase \in {"request", "thinking", "replying", "calling", "ending", "ended"}
    /\ turn \in 0 .. Turns
    /\ call \in [Tools -> {"unmade", "made", "deferred", "running", "returned", "reported"}]
    /\ \A s \in {compactions, queued, copied, inner, outer, out} :
          s \in Seq(Events \union {Nothing})
    /\ names \subseteq Tools
    /\ prompt \in [Tools -> {"none", "own", "confirm", "phrase", "generated"}]
    /\ said \in Seq(Events)
    /\ told \in [Tools -> {Unsaid, Orphaned} \union Nat]
    \* The compaction stage resumes the provider only once it has nothing left.
    /\ at = "provider" => inner = <<>> /\ outer = <<>>

Init ==
    /\ setup \in Setups
    /\ at = "client"
    /\ phase = "request" /\ turn = 0
    /\ call = [t \in Tools |-> "unmade"]
    /\ compactions = <<>> /\ queued = <<>> /\ copied = <<>>
    /\ inner = <<>> /\ outer = <<>> /\ out = <<>> /\ said = <<>>
    /\ names = {}
    /\ prompt = [t \in Tools |-> "none"]
    /\ told = [t \in Tools |-> Unsaid]

-----------------------------------------------------------------------------
\* The stages.

\* drop_reasoning_events, which is composed only where thoughts are withheld.
Withheld(e) == ~Forward /\ e.kind = "thought"

(* Everything is forwarded.                                                *)
ArriveAll(e) ==
    /\ inner' = compactions \o <<e>>
    /\ compactions' = <<>>
    /\ at' = "inner"

(* The newest event is yielded before what was recorded ahead of it.       *)
ArriveAfter(e) ==
    IF Withheld(e)
    THEN at' = "provider" /\ UNCHANGED <<inner, compactions>>
    ELSE /\ inner' = <<e>> \o compactions
         /\ compactions' = <<>>
         /\ at' = "inner"

\* An event comes out of drop_reasoning_events, or does not; the compaction
\* stage puts what its sink holds ahead of it.
Arrive(e) ==
    IF Withheld(e)
    THEN at' = "provider" /\ UNCHANGED <<inner, compactions>>
    ELSE /\ inner' = compactions \o <<e>>
         /\ compactions' = <<>>
         /\ at' = "inner"

\* The provider is exhausted: one last drain.
ArriveEnd ==
    /\ inner' = compactions \o <<Nothing>>
    /\ compactions' = <<>>
    /\ at' = "inner"

(* No drain after the loop.                                                *)
CopyInLoop ==
    /\ at = "inner" /\ inner # <<>>
    /\ outer' = <<Head(inner)>>
    /\ inner' = Tail(inner)
    /\ \/ copied' = queued /\ at' = "copied" /\ Head(inner) # Nothing
       \/ at' = "outer" /\ Head(inner) = Nothing /\ UNCHANGED copied
    /\ UNCHANGED <<names, out, prompt, provider, sinks, said, told>>

\* The compaction stage yields to the invalidation stage, whose _drain first
\* copies its sink ...
Copy ==
    /\ at = "inner" /\ inner # <<>>
    /\ outer' = <<Head(inner)>>
    /\ inner' = Tail(inner)
    /\ copied' = queued
    /\ at' = "copied"
    /\ UNCHANGED <<names, out, prompt, provider, sinks, said, told>>

(* The sink is copied and never cleared.                                   *)
ClearNothing ==
    /\ at = "copied"
    /\ outer' = copied \o outer
    /\ copied' = <<>>
    /\ at' = "outer"
    /\ UNCHANGED <<inner, names, out, prompt, provider, sinks, said, told>>

(* The copy is yielded behind the event.                                   *)
ClearBehind ==
    /\ at = "copied"
    /\ outer' = outer \o copied
    /\ queued' = <<>>
    /\ copied' = <<>>
    /\ at' = "outer"
    /\ UNCHANGED <<inner, names, out, prompt, provider, compactions, said, told>>

\* ... and then clears it: two steps, and a thread may append between them.
Clear ==
    /\ at = "copied"
    /\ outer' = copied \o outer
    /\ queued' = <<>>
    /\ copied' = <<>>
    /\ at' = "outer"
    /\ UNCHANGED <<inner, names, out, prompt, provider, compactions, said, told>>

(* A registered confirm= wins over the project's own words.                *)
RegistryFirst(t) ==
    IF t \in setup.confirm THEN "confirm" ELSE setup.project[t]

\* _with_registry_prompts: the project's own words win.
Words(t) ==
    IF setup.project[t] = "nothing" /\ t \in setup.confirm THEN "confirm" ELSE setup.project[t]

(* The endpoint's words, whatever the call brought.                        *)
PromptForced(t) ==
    IF t \in names /\ Words(t) \in {"confirm", "phrase"} THEN Words(t)
    ELSE IF t \in Own THEN "own" ELSE "generated"

\* _with_prompt: an x-confirm the call came with is left alone, and the words
\* are found through the name its start announced.
Prompt(t) ==
    IF t \in Own THEN "own"
    ELSE IF t \in names /\ Words(t) \in {"confirm", "phrase"} THEN Words(t) ELSE "generated"

Deferred == {t \in Tools : call[t] = "deferred"}

\* stamp_approval_prompts, and the client behind it.
Deliver ==
    LET e == Head(outer)
    IN  /\ at = "outer" /\ outer # <<>> /\ e # Nothing
        /\ out' = Append(out, e)
        /\ outer' = Tail(outer)
        /\ names' = IF e.kind = "start" THEN names \union {e.of} ELSE names
        /\ prompt' = IF e.kind # "finish" THEN prompt
                     ELSE [t \in Tools |-> IF t \in Deferred THEN Prompt(t) ELSE "none"]
        /\ at' = "client"
        /\ UNCHANGED <<copied, inner, provider, sinks, said, told>>

Ended ==
    /\ at = "outer" /\ outer = <<Nothing>>
    /\ at' = "over"
    /\ outer' = <<>>
    /\ UNCHANGED <<copied, inner, names, out, prompt, provider, sinks, said, told>>

(* The stage asks further in while it still has something to yield.        *)
AskEarly ==
    /\ \/ at = "outer" /\ at' = "inner"
       \/ at = "inner" /\ inner = <<>> /\ at' = "provider"
    /\ UNCHANGED <<copied, inner, outer, names, out, prompt, provider, sinks, said, told>>

\* The client comes back for more, and whoever has nothing asks further in.
Pull ==
    /\ at = "client"
    /\ at' = "outer"
    /\ UNCHANGED <<copied, inner, outer, names, out, prompt, provider, sinks, said, told>>

Ask ==
    /\ \/ at = "outer" /\ outer = <<>> /\ at' = "inner"
       \/ at = "inner" /\ inner = <<>> /\ at' = "provider"
    /\ UNCHANGED <<copied, inner, outer, names, out, prompt, provider, sinks, said, told>>

\* The client leaves; the generators are closed and their sinks reset.  A
\* thread a tool is in goes on.
Leave ==
    /\ at \in {"client", "provider"}
    /\ at' = "left"
    /\ call' = [t \in Tools |->
                  IF call[t] = "running" /\ ~Threaded THEN "reported" ELSE call[t]]
    /\ UNCHANGED <<copied, inner, outer, names, out, prompt, phase, turn, sinks, said, told>>

-----------------------------------------------------------------------------
\* The provider, whose agent run happens inside the innermost iteration.

Produce(e) ==
    /\ at = "provider"
    /\ said' = Append(said, e)
    /\ Arrive(e)
    /\ UNCHANGED <<copied, outer, names, out, prompt, queued, told>>

\* before_model_request: a strategy that shortened the history is recorded.
Request ==
    /\ at = "provider" /\ phase = "request"
    /\ turn' = turn + 1
    /\ phase' = "thinking"
    /\ \/ compactions' = Append(compactions, Event("compaction", turn + 1))
       \/ UNCHANGED compactions
    /\ UNCHANGED <<stages, call, queued, said, told>>

Think ==
    /\ phase = "thinking" /\ phase' = "replying"
    /\ Produce(Event("thought", turn))
    /\ UNCHANGED <<turn, call>>

Reply ==
    /\ phase \in {"thinking", "replying"} /\ phase' = "calling"
    /\ Produce(Event("text", turn))
    /\ UNCHANGED <<turn, call>>

StartCall(t) ==
    /\ phase = "calling" /\ call[t] = "unmade"
    /\ \A u \in Tools : call[u] \in {"unmade", "made", "reported"}
    /\ call' = [call EXCEPT ![t] = "made"]
    /\ Produce(Event("start", t))
    /\ UNCHANGED <<phase, turn>>

Made == {t \in Tools : call[t] = "made"}

\* The reply is over: its calls run, all at once, or defer.
RunCalls ==
    /\ at = "provider" /\ phase = "calling" /\ Made # {}
    /\ call' = [t \in Tools |->
                  IF t \notin Made THEN call[t]
                  ELSE IF t \in Gated THEN "deferred" ELSE "running"]
    /\ UNCHANGED <<stages, phase, turn, sinks, said, told>>

Report(t) ==
    /\ phase = "calling" /\ call[t] = "returned"
    /\ call' = [call EXCEPT ![t] = "reported"]
    /\ Produce(Event("result", t))
    /\ UNCHANGED <<phase, turn>>

\* Every call is answered: another request, or the end.
NextTurn ==
    /\ at = "provider" /\ phase = "calling"
    /\ \A t \in Tools : call[t] \in {"unmade", "deferred", "reported"}
    /\ \/ phase' = "request" /\ turn < Turns /\ Deferred = {}
       \/ phase' = "ending"
    /\ UNCHANGED <<stages, turn, call, sinks, said, told>>

Finish ==
    /\ phase = "ending" /\ phase' = "ended"
    /\ Produce(Event("finish", turn))
    /\ UNCHANGED <<turn, call>>

Exhaust ==
    /\ at = "provider" /\ phase = "ended"
    /\ ArriveEnd
    /\ UNCHANGED <<copied, outer, names, out, prompt, provider, queued, said, told>>

\* The event loop is free to run something else.
Idle == at \in {"client", "provider", "over", "left"}

\* The stage that empties the sink will not look at it again.
Unheard == at \in {"left", "over"} \/ Nothing \in Range(outer)

\* publish_invalidation, from the callback of a tool's transaction.  The
\* sink it finds is the one of the context its task was started in.
Publish(t) ==
    /\ \/ call[t] = "running"
       \/ Detached /\ call[t] \in {"returned", "reported"}
    /\ told[t] = Unsaid
    /\ Threaded \/ Idle
    /\ queued' = Append(queued, Event("invalidation", t))
    /\ told' = [told EXCEPT ![t] = IF Unheard THEN Orphaned ELSE Len(said)]
    /\ UNCHANGED <<stages, provider, compactions, said>>

Return(t) ==
    /\ call[t] = "running"
    /\ Threaded \/ Idle
    /\ call' = [call EXCEPT ![t] = "returned"]
    /\ UNCHANGED <<stages, phase, turn, sinks, said, told>>

Over ==
    /\ at \in {"over", "left"}
    /\ \A t \in Tools : call[t] # "running"
    /\ UNCHANGED vars

Stages == Pull \/ Ask \/ Copy \/ Clear \/ Deliver \/ Ended
Provider ==
    \/ Request \/ Think \/ Reply \/ RunCalls \/ NextTurn \/ Finish \/ Exhaust
    \/ \E t \in Tools : StartCall(t) \/ Report(t)

Next ==
    /\ UNCHANGED setup
    /\ \/ Stages
       \/ Provider
       \/ \E t \in Tools : Publish(t) \/ Return(t)
       \/ Leave
       \/ Over

Spec == Init /\ [][Next]_vars

-----------------------------------------------------------------------------
Owed == queued \o outer \o inner \o out

(* Every invalidation a run was listening for is, at every moment, in      *)
(* exactly one place: the sink, a stage's hands or the client's ("a write  *)
(* committed during the model request that produces the closing events     *)
(* would otherwise be dropped").                                           *)
NoInvalidationLost ==
    \A t \in Heard : Times(Event("invalidation", t), Owed) = 1

(* The page hears of a write at once: ahead of every event the run had not *)
(* produced when the write committed, the result of the call that made it  *)
(* among them, in whatever order parallel calls commit and return; and a   *)
(* run read to its end has told of everything recorded in it.              *)
ToldAtOnce ==
    /\ \A t \in Heard : \A i \in DOMAIN out, k \in told[t] + 1 .. Len(said) :
          out[i] = said[k] =>
              \E j \in 1 .. i - 1 : out[j] = Event("invalidation", t)
    /\ at = "over" =>
          /\ compactions = <<>> /\ inner = <<>>
          /\ \A t \in Heard : Times(Event("invalidation", t), out) = 1

(* A compaction stands directly above the turn that ran with the shortened *)
(* history: after everything of the turns before it, ahead of everything   *)
(* of its own.                                                             *)
CompactionAboveItsTurn ==
    \A i, j \in DOMAIN out :
        /\ out[i].kind = "compaction"
        /\ out[j].kind \in {"thought", "text"}
        => (i < j <=> out[i].of <= out[j].of)

(* Beside what the sinks add, the client receives the provider's events as *)
(* produced, none skipped or repeated, and its thoughts only where they    *)
(* are forwarded.                                                          *)
NothingElseChanges ==
    LET provided == {e \in Events : e.kind \notin {"compaction", "invalidation"}}
        shown == {e \in Events : Forward \/ e.kind # "thought"}
    IN  Sift(out, provided) \o Sift(outer, provided) \o Sift(inner, provided) = Sift(said, shown)

(* An interrupt asks with the words its call came with; failing those with *)
(* the phrase of its tool; failing that with the generated question.       *)
AsksInWords ==
    \A t \in Tools :
        prompt[t] # "none" =>
            /\ prompt[t] = "own" <=> t \in Own
            /\ prompt[t] = "phrase" <=> t \notin Own /\ setup.project[t] = "phrase"
            /\ prompt[t] = "confirm" <=> /\ t \in setup.confirm \ Own
                                         /\ setup.project[t] = "nothing"
=============================================================================
