----------------------------- MODULE NoticesProofs -----------------------------
(***************************************************************************)
(* What is proved of what goes with a run, for any calls, any number of    *)
(* turns and any setup: that an invalidation is never lost or doubled,     *)
(* that an interrupt asks in the words it should, that the client is told  *)
(* of a write ahead of whatever the run produced after it, that the        *)
(* compaction notices stand where they belong, that the page draws what    *)
(* was pushed, and that what a client says stays in its fence.             *)
(***************************************************************************)
EXTENDS MCNotices, SequenceLemmas, FiniteSetTheorems, FunctionTheorems, TLAPS

-----------------------------------------------------------------------------
(* Both ends of a sequence.                                               *)

LEMMA HeadAndTail ==
    ASSUME NEW S, NEW s \in Seq(S), s # <<>>
    PROVE  /\ Head(s) \in S /\ Tail(s) \in Seq(S)
           /\ s = <<Head(s)>> \o Tail(s)
           /\ Head(s) = s[1]
<1>1. /\ Head(s) \in S /\ Tail(s) \in Seq(S)
      /\ Len(Tail(s)) = Len(s) - 1
      /\ \A i \in 1 .. Len(Tail(s)) : Tail(s)[i] = s[i + 1]
  BY HeadTailProperties
<1>2. Len(s) \in Nat \ {0}
  BY EmptySeq
<1>3. <<Head(s)>> \in Seq(S) /\ Len(<<Head(s)>>) = 1 /\ <<Head(s)>>[1] = Head(s)
  BY <1>1
<1>4. Head(s) = s[1]
  BY <1>2
<1> DEFINE c == <<Head(s)>> \o Tail(s)
<1>5. /\ c \in Seq(S) /\ Len(c) = Len(s)
      /\ \A i \in 1 .. Len(s) : c[i] = IF i <= 1 THEN <<Head(s)>>[i] ELSE Tail(s)[i - 1]
  BY <1>1, <1>2, <1>3, ConcatProperties
<1>6. \A i \in 1 .. Len(s) : c[i] = s[i]
  <2> SUFFICES ASSUME NEW i \in 1 .. Len(s) PROVE c[i] = s[i]
    OBVIOUS
  <2>1. CASE i = 1
    BY <1>3, <1>4, <1>5, <2>1
  <2>2. CASE i # 1
    <3>1. i - 1 \in 1 .. Len(Tail(s)) /\ (i - 1) + 1 = i
      BY <1>1, <1>2, <2>2
    <3>2. Tail(s)[i - 1] = s[i]
      BY <1>1, <3>1
    <3>3. QED BY <1>5, <2>2, <3>2
  <2>3. QED BY <2>1, <2>2
<1>7. c = s
  BY <1>5, <1>6, SeqEqual
<1>8. QED BY <1>1, <1>4, <1>7

(* and in its tail once less for its head.                                 *)
LEMMA TimesTail ==
    ASSUME NEW S, NEW s \in Seq(S), s # <<>>, NEW e
    PROVE  Times(e, s) = (IF Head(s) = e THEN 1 ELSE 0) + Times(e, Tail(s))
<1>1. /\ Head(s) \in S /\ Tail(s) \in Seq(S)
      /\ s = <<Head(s)>> \o Tail(s)
  BY HeadAndTail
<1>2. <<Head(s)>> \in Seq(S)
  BY <1>1
<1>3. Times(e, <<Head(s)>> \o Tail(s)) = Times(e, <<Head(s)>>) + Times(e, Tail(s))
  BY <1>1, <1>2, TimesCat
<1>4. QED BY <1>1, <1>3, TimesOne

LEMMA TimesSome ==
    ASSUME NEW S, NEW s \in Seq(S), NEW e
    PROVE  Times(e, s) = 0 <=> e \notin Range(s)
<1>1. IsFiniteSet({i \in DOMAIN s : s[i] = e})
  BY TimesNat
<1>2. Times(e, s) = 0 <=> {i \in DOMAIN s : s[i] = e} = {}
  BY <1>1, FS_EmptySet DEF Times
<1>3. QED BY <1>2 DEF Range

-----------------------------------------------------------------------------
(* Types.                                                                  *)

CallStates == {"unmade", "made", "deferred", "running", "returned", "reported"}

\* What each of the three sources puts into the stream.
Compactions == {Event("compaction", n) : n \in 0 .. Turns}
Invalidations == {Event("invalidation", t) : t \in Tools}
Produced == {Event(k, n) : k \in {"thought", "text", "finish"}, n \in 0 .. Turns}
            \union {Event(k, t) : k \in {"start", "result"}, t \in Tools}

Inner == Compactions \union Produced \union {Nothing}
Elem == Inner \union Invalidations

SequencesTyped ==
    /\ compactions \in Seq(Compactions)
    /\ queued \in Seq(Invalidations) /\ copied \in Seq(Invalidations)
    /\ inner \in Seq(Inner) /\ outer \in Seq(Elem) /\ out \in Seq(Elem)
    /\ said \in Seq(Produced)

RestTyped ==
    /\ setup \in Setups
    /\ at \in {"client", "outer", "copied", "inner", "provider", "over", "left"}
    /\ phase \in {"request", "thinking", "replying", "calling", "ending", "ended"}
    /\ turn \in 0 .. Turns
    /\ phase = "request" => turn < Turns
    /\ call \in [Tools -> CallStates]
    /\ names \subseteq Tools
    /\ prompt \in [Tools -> {"none", "own", "confirm", "phrase", "generated"}]
    /\ told \in [Tools -> {Unsaid, Orphaned} \union Nat]

\* Whoever asks further in has nothing more to yield himself.
Nested ==
    /\ at = "provider" => inner = <<>> /\ outer = <<>>
    /\ at = "inner" => outer = <<>>

Typed == SequencesTyped /\ RestTyped /\ Nested

(* What a sequence of one stage may hold, one further out may hold too.    *)
LEMMA Widen ==
    /\ \A s \in Seq(Inner) : s \in Seq(Elem)
    /\ \A s \in Seq(Invalidations) : s \in Seq(Elem)
    /\ \A s \in Seq(Compactions) : s \in Seq(Inner) /\ s \in Seq(Elem)
<1>1. /\ Inner \subseteq Elem /\ Invalidations \subseteq Elem
      /\ Compactions \subseteq Inner /\ Compactions \subseteq Elem
  BY DEF Inner, Elem
<1>2. QED BY <1>1, SeqMonotonic

LEMMA TypedIsTypeOK == Typed => TypeOK
<1> SUFFICES ASSUME Typed PROVE TypeOK
  OBVIOUS
<1>1. /\ Compactions \subseteq Events \union {Nothing}
      /\ Invalidations \subseteq Events \union {Nothing}
      /\ Produced \subseteq Events
      /\ Inner \subseteq Events \union {Nothing}
      /\ Elem \subseteq Events \union {Nothing}
  <2>1. Compactions \subseteq Events /\ Invalidations \subseteq Events
    BY DEF Compactions, Invalidations, Event, Events, Kinds
  <2>2. Produced \subseteq Events
    BY DEF Produced, Event, Events, Kinds
  <2>3. QED BY <2>1, <2>2 DEF Inner, Elem
<1>2. /\ compactions \in Seq(Events \union {Nothing})
      /\ queued \in Seq(Events \union {Nothing})
      /\ copied \in Seq(Events \union {Nothing})
      /\ inner \in Seq(Events \union {Nothing})
      /\ outer \in Seq(Events \union {Nothing})
      /\ out \in Seq(Events \union {Nothing})
      /\ said \in Seq(Events)
  BY <1>1, SeqMonotonic DEF Typed, SequencesTyped
<1>3. QED BY <1>2 DEF Typed, RestTyped, Nested, CallStates, TypeOK

LEMMA TypedStart == Init => Typed
<1> SUFFICES ASSUME Init PROVE Typed
  OBVIOUS
<1>1. SequencesTyped
  BY EmptySeq DEF Init, SequencesTyped
<1>2. RestTyped
  BY NoticesAssumption DEF Init, RestTyped, CallStates
<1>3. Nested
  BY DEF Init, Nested
<1>4. QED BY <1>1, <1>2, <1>3 DEF Typed

\* An event's kind says where it comes from.
LEMMA KindTells ==
    /\ \A e \in Compactions : e.kind = "compaction"
    /\ \A e \in Invalidations : e.kind = "invalidation" /\ e.of \in Tools
    /\ \A e \in Produced : e.kind \in {"thought", "text", "finish", "start", "result"}
    /\ \A e \in Elem : e.kind \in {"start", "result"} => e.of \in Tools /\ e \in Produced
    /\ \A e \in Elem : e.kind = "invalidation" => e \in Invalidations
    /\ \A t : Event("invalidation", t).kind = "invalidation"
    /\ Nothing.kind = "end"
<1>1. \A e \in Compactions : e.kind = "compaction"
  BY DEF Compactions, Event
<1>2. \A e \in Invalidations : e.kind = "invalidation" /\ e.of \in Tools
  BY DEF Invalidations, Event
<1>3. \A e \in Produced : /\ e.kind \in {"thought", "text", "finish", "start", "result"}
                          /\ e.kind \in {"start", "result"} => e.of \in Tools
  BY DEF Produced, Event
<1>4. Nothing.kind = "end" /\ \A t : Event("invalidation", t).kind = "invalidation"
  BY DEF Nothing, Event
<1>5. QED BY <1>1, <1>2, <1>3, <1>4 DEF Inner, Elem

\* What comes out of drop_reasoning_events goes to the compaction stage.
LEMMA ArriveType ==
    ASSUME Typed, at = "provider", NEW e \in Produced \union {Nothing},
           \/ Arrive(e)
           \/ /\ inner' = compactions \o <<e>> /\ compactions' = <<>> /\ at' = "inner",
           UNCHANGED <<queued, copied, outer, out>>, said' \in Seq(Produced)
    PROVE  SequencesTyped' /\ Nested' /\ at' \in {"provider", "inner"}
<1>1. SequencesTyped /\ inner = <<>> /\ outer = <<>>
  BY DEF Typed, Nested
<1>2. CASE at' = "provider" /\ UNCHANGED <<inner, compactions>>
  BY <1>1, <1>2 DEF SequencesTyped, Nested
<1>3. CASE inner' = compactions \o <<e>> /\ compactions' = <<>> /\ at' = "inner"
  <2>1. <<e>> \in Seq(Inner) /\ compactions \in Seq(Inner)
    <3>1. e \in Inner
      BY DEF Inner
    <3>2. QED BY <1>1, <3>1, Widen DEF SequencesTyped
  <2>2. inner' \in Seq(Inner)
    BY <1>3, <2>1, ConcatProperties
  <2>3. compactions' \in Seq(Compactions)
    BY <1>3, EmptySeq
  <2>4. QED BY <1>1, <1>3, <2>2, <2>3 DEF SequencesTyped, Nested
<1>4. QED BY <1>2, <1>3 DEF Arrive

LEMMA StagesTyped == ASSUME Typed, Stages, UNCHANGED setup PROVE Typed'
<1> USE DEF Typed
<1>1. CASE Pull
  BY <1>1 DEF Pull, SequencesTyped, RestTyped, Nested, provider, sinks
<1>2. CASE Ask
  BY <1>2 DEF Ask, SequencesTyped, RestTyped, Nested, provider, sinks
<1>3. CASE Copy
  <2>1. Head(inner) \in Inner /\ Tail(inner) \in Seq(Inner)
    BY <1>3, HeadTailProperties DEF Copy, SequencesTyped
  <2>2. /\ outer' = <<Head(inner)>> /\ inner' = Tail(inner) /\ copied' = queued /\ at' = "copied"
        /\ UNCHANGED <<names, out, prompt, phase, turn, call, compactions, queued, said, told>>
    BY <1>3 DEF Copy, provider, sinks
  <2>3. outer' \in Seq(Elem)
    BY <2>1, <2>2 DEF Elem
  <2>4. SequencesTyped' /\ Nested'
    BY <2>1, <2>2, <2>3 DEF SequencesTyped, Nested
  <2>5. RestTyped'
    BY <2>2 DEF RestTyped
  <2>6. QED BY <2>4, <2>5
<1>4. CASE Clear
  <2>1. copied \o outer \in Seq(Elem) /\ <<>> \in Seq(Invalidations)
    <3>1. copied \in Seq(Elem) /\ outer \in Seq(Elem)
      BY Widen DEF SequencesTyped
    <3>2. QED BY <3>1, ConcatProperties, EmptySeq
  <2>2. /\ outer' = copied \o outer /\ queued' = <<>> /\ copied' = <<>> /\ at' = "outer"
        /\ UNCHANGED <<inner, names, out, prompt, phase, turn, call, compactions, said, told>>
    BY <1>4 DEF Clear, provider
  <2>3. SequencesTyped' /\ Nested' /\ RestTyped'
    BY <2>1, <2>2 DEF SequencesTyped, Nested, RestTyped
  <2>4. QED BY <2>3
<1>5. CASE Deliver
  <2>1. Head(outer) \in Elem /\ Tail(outer) \in Seq(Elem)
    BY <1>5, HeadTailProperties DEF Deliver, SequencesTyped
  <2>2. Append(out, Head(outer)) \in Seq(Elem)
    BY <2>1, AppendProperties DEF SequencesTyped
  <2>3. /\ out' = Append(out, Head(outer)) /\ outer' = Tail(outer) /\ at' = "client"
        /\ UNCHANGED <<copied, inner, phase, turn, call, compactions, queued, said, told>>
    BY <1>5 DEF Deliver, provider, sinks
  <2>4. names' \subseteq Tools
    <3>1. Head(outer).kind = "start" => Head(outer).of \in Tools
      BY <2>1, KindTells
    <3>2. QED BY <1>5, <3>1 DEF Deliver, RestTyped
  <2>5. prompt' \in [Tools -> {"none", "own", "confirm", "phrase", "generated"}]
    BY <1>5 DEF Deliver, RestTyped, Prompt, Words
  <2>6. SequencesTyped' /\ Nested' /\ RestTyped'
    BY <2>1, <2>2, <2>3, <2>4, <2>5 DEF SequencesTyped, Nested, RestTyped
  <2>7. QED BY <2>6
<1>6. CASE Ended
  <2>1. <<>> \in Seq(Elem)
    BY EmptySeq
  <2>2. QED BY <1>6, <2>1 DEF Ended, SequencesTyped, RestTyped, Nested, provider, sinks
<1>7. QED BY <1>1, <1>2, <1>3, <1>4, <1>5, <1>6 DEF Stages

LEMMA ProduceType ==
    ASSUME Typed, NEW e \in Produced, Produce(e)
    PROVE  SequencesTyped' /\ Nested' /\ at' \in {"provider", "inner"}
<1>1. /\ at = "provider" /\ Arrive(e) /\ said' = Append(said, e)
      /\ UNCHANGED <<copied, outer, out, queued>>
  BY DEF Produce
<1>2. said' \in Seq(Produced)
  BY <1>1, AppendProperties DEF Typed, SequencesTyped
<1>3. QED BY <1>1, <1>2, ArriveType

LEMMA ProducedType ==
    ASSUME Typed
    PROVE  /\ \A k \in {"thought", "text", "finish"} : Event(k, turn) \in Produced
           /\ \A k \in {"start", "result"}, t \in Tools : Event(k, t) \in Produced
BY DEF Typed, RestTyped, Produced

LEMMA ProviderTyped == ASSUME Typed, Provider, UNCHANGED setup PROVE Typed'
<1> USE DEF Typed
<1>1. CASE Request
  <2>1. /\ turn' = turn + 1 /\ phase' = "thinking"
        /\ compactions' \in {compactions, Append(compactions, Event("compaction", turn + 1))}
        /\ UNCHANGED <<at, copied, inner, outer, names, out, prompt, call, queued, said, told>>
    BY <1>1 DEF Request, stages
  <2>2. turn + 1 \in 0 .. Turns
    BY <1>1, NoticesAssumption DEF Request, RestTyped
  <2>3. Event("compaction", turn + 1) \in Compactions
    BY <2>2 DEF Compactions
  <2>4. compactions' \in Seq(Compactions)
    <3>1. Append(compactions, Event("compaction", turn + 1)) \in Seq(Compactions)
      BY <2>3, AppendProperties DEF SequencesTyped
    <3>2. QED BY <2>1, <3>1 DEF SequencesTyped
  <2>5. QED BY <2>1, <2>2, <2>4 DEF SequencesTyped, RestTyped, Nested
<1>2. CASE Think \/ Reply \/ Finish
  <2>1. \E k \in {"thought", "text", "finish"} : Produce(Event(k, turn))
    BY <1>2 DEF Think, Reply, Finish
  <2>2. SequencesTyped' /\ Nested' /\ at' \in {"provider", "inner"}
    BY <2>1, ProduceType, ProducedType
  <2>3. RestTyped'
    BY <1>2, <2>2 DEF Think, Reply, Finish, Produce, RestTyped
  <2>4. QED BY <2>2, <2>3
<1>3. ASSUME NEW t \in Tools, StartCall(t) \/ Report(t) PROVE Typed'
  <2>1. \E k \in {"start", "result"} : Produce(Event(k, t))
    BY <1>3 DEF StartCall, Report
  <2>2. SequencesTyped' /\ Nested' /\ at' \in {"provider", "inner"}
    BY <2>1, ProduceType, ProducedType
  <2>3. RestTyped'
    BY <1>3, <2>2 DEF StartCall, Report, Produce, RestTyped, CallStates
  <2>4. QED BY <2>2, <2>3
<1>4. CASE RunCalls
  BY <1>4 DEF RunCalls, SequencesTyped, RestTyped, Nested, stages, sinks, CallStates
<1>5. CASE NextTurn
  BY <1>5 DEF NextTurn, SequencesTyped, RestTyped, Nested, stages, sinks
<1>6. CASE Exhaust
  <2>1. /\ at = "provider" /\ at' = "inner"
        /\ inner' = compactions \o <<Nothing>> /\ compactions' = <<>>
        /\ UNCHANGED <<copied, outer, names, out, prompt, phase, turn, call, queued, said, told>>
    BY <1>6 DEF Exhaust, ArriveEnd, provider
  <2>2. SequencesTyped' /\ Nested'
    BY <2>1, ArriveType DEF SequencesTyped
  <2>3. QED BY <2>1, <2>2 DEF RestTyped
<1>7. QED BY <1>1, <1>2, <1>3, <1>4, <1>5, <1>6 DEF Provider

LEMMA ToolsTyped ==
    ASSUME Typed, NEW t \in Tools, Publish(t) \/ Return(t), UNCHANGED setup
    PROVE  Typed'
<1> USE DEF Typed
<1>1. CASE Publish(t)
  <2>1. /\ queued' = Append(queued, Event("invalidation", t))
        /\ told' = [told EXCEPT ![t] = IF Unheard THEN Orphaned ELSE Len(said)]
        /\ UNCHANGED <<at, copied, inner, outer, names, out, prompt, phase, turn, call, compactions, said>>
    BY <1>1 DEF Publish, stages, provider
  <2>2. queued' \in Seq(Invalidations)
    <3>1. Event("invalidation", t) \in Invalidations
      BY DEF Invalidations
    <3>2. QED BY <2>1, <3>1, AppendProperties DEF SequencesTyped
  <2>3. told' \in [Tools -> {Unsaid, Orphaned} \union Nat]
    <3>1. Len(said) \in Nat
      BY LenProperties DEF SequencesTyped
    <3>2. QED BY <2>1, <3>1 DEF RestTyped
  <2>4. QED BY <2>1, <2>2, <2>3 DEF SequencesTyped, RestTyped, Nested
<1>2. CASE Return(t)
  BY <1>2 DEF Return, SequencesTyped, RestTyped, Nested, stages, sinks, CallStates
<1>3. QED BY <1>1, <1>2

LEMMA LeaveTyped == ASSUME Typed, Leave, UNCHANGED setup PROVE Typed'
BY DEF Typed, Leave, SequencesTyped, RestTyped, Nested, sinks, CallStates

LEMMA StillTyped == ASSUME Typed, UNCHANGED vars PROVE Typed'
BY DEF Typed, SequencesTyped, RestTyped, Nested, vars, stages, provider, sinks

LEMMA TypedKept == Typed /\ [Next]_vars => Typed'
BY StagesTyped, ProviderTyped, ToolsTyped, LeaveTyped, StillTyped DEF Next, Over

-----------------------------------------------------------------------------
(* No invalidation is lost.                                                *)

Inv(t) == Event("invalidation", t)

\* Where the invalidation of a call is, and how often.
Count(t) == Times(Inv(t), queued) + Times(Inv(t), outer) + Times(Inv(t), out)

CopyIsWhole == at = "copied" => copied = queued

Conserved ==
    \A t \in Tools :
        /\ told[t] = Unsaid => Count(t) = 0
        /\ told[t] >= 0 => Count(t) = 1

CountInv == Typed /\ CopyIsWhole /\ Conserved

LEMMA CountIsNat ==
    ASSUME Typed, NEW t
    PROVE  /\ Times(Inv(t), queued) \in Nat /\ Times(Inv(t), outer) \in Nat
           /\ Times(Inv(t), out) \in Nat
BY TimesNat DEF Typed, SequencesTyped

\* The compaction stage holds none.
LEMMA NoneInner ==
    ASSUME Typed, NEW t, NEW s \in Seq(Inner)
    PROVE  Times(Inv(t), s) = 0
<1>1. \A e \in Inner : e # Inv(t)
  BY KindTells DEF Inner, Inv
<1>2. \A i \in DOMAIN s : s[i] \in Inner
  BY LenProperties
<1>3. QED BY <1>1, <1>2, TimesNone

(* NoInvalidationLost counts in one concatenation what Count adds up place *)
(* by place.                                                               *)
LEMMA OwedIsCounted ==
    ASSUME Typed, NEW t
    PROVE  Times(Event("invalidation", t), Owed) = Count(t)
<1>1. /\ queued \in Seq(Elem) /\ outer \in Seq(Elem) /\ inner \in Seq(Elem) /\ out \in Seq(Elem)
  BY Widen DEF Typed, SequencesTyped
<1>2. /\ queued \o outer \in Seq(Elem)
      /\ (queued \o outer) \o inner \in Seq(Elem)
  BY <1>1, ConcatProperties
<1>3. Times(Inv(t), queued \o outer) = Times(Inv(t), queued) + Times(Inv(t), outer)
  BY <1>1, TimesCat
<1>4. Times(Inv(t), (queued \o outer) \o inner) = Times(Inv(t), queued \o outer) + Times(Inv(t), inner)
  BY <1>1, <1>2, TimesCat
<1>5. Times(Inv(t), ((queued \o outer) \o inner) \o out)
        = Times(Inv(t), (queued \o outer) \o inner) + Times(Inv(t), out)
  BY <1>1, <1>2, TimesCat
<1>6. Times(Inv(t), inner) = 0
  BY NoneInner DEF Typed, SequencesTyped
<1>7. Owed = ((queued \o outer) \o inner) \o out
  BY DEF Owed
<1>8. QED BY <1>3, <1>4, <1>5, <1>6, <1>7, CountIsNat DEF Count, Inv

\* Between the sink, the invalidation stage and the client, the stages lose
\* and double nothing.
LEMMA StagesCount ==
    ASSUME CountInv, Stages, NEW t
    PROVE  Count(t)' = Count(t)
<1> USE DEF CountInv
<1>1. CASE Pull \/ Ask
  BY <1>1 DEF Pull, Ask, Count, sinks, Inv
<1>2. CASE Copy
  <2>1. outer = <<>> /\ outer' = <<Head(inner)>> /\ UNCHANGED <<queued, out>>
    BY <1>2 DEF Copy, Typed, Nested, sinks
  <2>2. <<Head(inner)>> \in Seq(Inner) /\ outer \in Seq(Inner)
    <3>1. Head(inner) \in Inner
      BY <1>2, HeadTailProperties DEF Copy, Typed, SequencesTyped
    <3>2. QED BY <2>1, <3>1, EmptySeq
  <2>3. Times(Inv(t), outer) = 0 /\ Times(Inv(t), outer') = 0
    BY <2>1, <2>2, NoneInner
  <2>4. QED BY <2>1, <2>3 DEF Count, Inv
<1>3. CASE Clear
  <2>1. outer' = queued \o outer /\ queued' = <<>> /\ out' = out
    BY <1>3 DEF Clear, CopyIsWhole
  <2>2. queued \in Seq(Elem) /\ outer \in Seq(Elem)
    BY Widen DEF Typed, SequencesTyped
  <2>3. Times(Inv(t), outer') = Times(Inv(t), queued) + Times(Inv(t), outer)
    BY <2>1, <2>2, TimesCat
  <2>4. Times(Inv(t), queued') = 0
    BY <2>1, EmptySeq, NoneInner
  <2>5. QED BY <2>1, <2>3, <2>4, CountIsNat DEF Count, Inv
<1>4. CASE Deliver
  <2>1. outer # <<>> /\ out' = Append(out, Head(outer)) /\ outer' = Tail(outer) /\ queued' = queued
    BY <1>4 DEF Deliver, sinks
  <2>2. Times(Inv(t), outer) = (IF Head(outer) = Inv(t) THEN 1 ELSE 0) + Times(Inv(t), outer')
    BY <2>1, TimesTail DEF Typed, SequencesTyped
  <2>3. Times(Inv(t), out') = Times(Inv(t), out) + (IF Head(outer) = Inv(t) THEN 1 ELSE 0)
    <3>1. Head(outer) \in Elem
      BY <2>1, HeadTailProperties DEF Typed, SequencesTyped
    <3>2. QED BY <2>1, <3>1, TimesAppend DEF Typed, SequencesTyped
  <2>4. Times(Inv(t), outer') \in Nat
    <3>1. outer' \in Seq(Elem)
      BY <2>1, HeadTailProperties DEF Typed, SequencesTyped
    <3>2. QED BY <3>1, TimesNat
  <2>5. QED BY <2>1, <2>2, <2>3, <2>4, CountIsNat DEF Count, Inv
<1>5. CASE Ended
  <2>1. outer = <<Nothing>> /\ outer' = <<>> /\ UNCHANGED <<queued, out>>
    BY <1>5 DEF Ended, sinks
  <2>2. outer \in Seq(Inner) /\ outer' \in Seq(Inner)
    BY <2>1, EmptySeq DEF Inner
  <2>3. Times(Inv(t), outer) = 0 /\ Times(Inv(t), outer') = 0
    BY <2>2, NoneInner
  <2>4. QED BY <2>1, <2>3 DEF Count, Inv
<1>6. QED BY <1>1, <1>2, <1>3, <1>4, <1>5 DEF Stages

\* Publishing adds one of its own, and of no other call's.
LEMMA PublishCounts ==
    ASSUME CountInv, NEW t \in Tools, Publish(t), NEW u \in Tools
    PROVE  Count(u)' = Count(u) + (IF u = t THEN 1 ELSE 0)
<1>1. queued' = Append(queued, Inv(t)) /\ UNCHANGED <<outer, out>>
  BY DEF Publish, stages, Inv
<1>2. Inv(t) \in Invalidations
  BY DEF Invalidations, Inv
<1>3. Inv(t) = Inv(u) <=> t = u
  BY DEF Inv, Event
<1>4. Times(Inv(u), queued') = Times(Inv(u), queued) + (IF Inv(t) = Inv(u) THEN 1 ELSE 0)
  BY <1>1, <1>2, TimesAppend DEF CountInv, Typed, SequencesTyped
<1>5. QED BY <1>1, <1>3, <1>4, CountIsNat DEF CountInv, Count, Inv

LEMMA CountKept == ~Threaded /\ CountInv /\ [Next]_vars => CountInv'
<1> SUFFICES ASSUME ~Threaded, CountInv, [Next]_vars PROVE CountInv'
  OBVIOUS
<1>1. Typed'
  BY TypedKept DEF CountInv
<1>2. CASE Stages
  <2>1. told' = told
    BY <1>2 DEF Stages, Pull, Ask, Copy, Clear, Deliver, Ended
  <2>2. CopyIsWhole'
    BY <1>2 DEF Stages, Pull, Ask, Copy, Clear, Deliver, Ended, CopyIsWhole, CountInv, sinks
  <2>3. Conserved'
    BY <1>2, <2>1, StagesCount DEF CountInv, Conserved
  <2>4. QED BY <1>1, <2>2, <2>3 DEF CountInv
<1>3. CASE UNCHANGED <<queued, outer, out, told>> /\ at' # "copied"
  BY <1>1, <1>3 DEF CountInv, CopyIsWhole, Conserved, Count, Inv
<1>4. CASE UNCHANGED <<queued, outer, out, told, copied, at>>
  BY <1>1, <1>4 DEF CountInv, CopyIsWhole, Conserved, Count, Inv
<1>5. CASE Provider
  <2>1. UNCHANGED <<queued, outer, out, told>> /\ at = "provider" /\ at' \in {"provider", "inner"}
    BY <1>5 DEF Provider, Request, Think, Reply, RunCalls, NextTurn, Finish, Exhaust, StartCall,
       Report, Produce, Arrive, ArriveEnd, stages, sinks
  <2>2. QED BY <1>3, <2>1
<1>6. ASSUME NEW t \in Tools, Publish(t) PROVE CountInv'
  <2>1. told[t] = Unsaid /\ at # "copied"
    BY <1>6 DEF Publish, Idle
  <2>2. told' = [told EXCEPT ![t] = IF Unheard THEN Orphaned ELSE Len(said)] /\ at' = at
    BY <1>6 DEF Publish, stages
  <2>3. Len(said) \in Nat
    BY LenProperties DEF CountInv, Typed, SequencesTyped
  <2>4. Conserved'
    <3> SUFFICES ASSUME NEW u \in Tools
                 PROVE  /\ told'[u] = Unsaid => Count(u)' = 0
                        /\ told'[u] >= 0 => Count(u)' = 1
      BY DEF Conserved
    <3>1. CASE u = t
      BY <1>6, <2>1, <2>2, <2>3, <3>1, PublishCounts DEF CountInv, Conserved, Typed, RestTyped, Unsaid, Orphaned
    <3>2. CASE u # t
      <4>1. told'[u] = told[u]
        BY <2>2, <3>2 DEF CountInv, Typed, RestTyped
      <4>2. Count(u)' = Count(u) + 0
        BY <1>6, <3>2, PublishCounts
      <4>3. QED BY <4>1, <4>2 DEF CountInv, Conserved
    <3>3. QED BY <3>1, <3>2
  <2>5. QED BY <1>1, <2>1, <2>2, <2>4 DEF CountInv, CopyIsWhole
<1>7. ASSUME NEW t \in Tools, Return(t) PROVE CountInv'
  BY <1>4, <1>7 DEF Return, stages, sinks
<1>8. CASE Leave
  BY <1>3, <1>8 DEF Leave, sinks
<1>9. CASE UNCHANGED vars
  BY <1>4, <1>9 DEF vars, stages, sinks
<1>10. QED BY <1>2, <1>5, <1>6, <1>7, <1>8, <1>9 DEF Next, Over

LEMMA CountStart == Init => CountInv
<1> SUFFICES ASSUME Init PROVE CountInv
  OBVIOUS
<1>1. Typed
  BY TypedStart
<1>2. \A t : Count(t) = 0
  <2>1. queued = <<>> /\ outer = <<>> /\ out = <<>>
    BY DEF Init
  <2>2. \A t : Times(Inv(t), <<>>) = 0
    BY <1>1, EmptySeq, NoneInner
  <2>3. QED BY <2>1, <2>2 DEF Count
<1>3. QED BY <1>1, <1>2 DEF Init, CountInv, CopyIsWhole, Conserved, Unsaid

LEMMA CountAlways == ~Threaded => (MCSpec => []CountInv)
<1> SUFFICES ASSUME ~Threaded PROVE MCSpec => []CountInv
  OBVIOUS
<1>1. MCInit => CountInv
  BY CountStart DEF MCInit
<1>2. CountInv /\ [MCNext]_<<part, vars, activityVars, contextVars>> => CountInv'
  <2>1. [MCNext]_<<part, vars, activityVars, contextVars>> => [Next]_vars
    BY DEF MCNext
  <2>2. QED BY <2>1, CountKept
<1>3. QED BY <1>1, <1>2, PTL DEF MCSpec

(* NoInvalidationLost: where callbacks run on the event loop, each write a *)
(* run was listening for is in one place and once, from the sink through   *)
(* _drain and the stage's hands to the client.  Copying the sink and       *)
(* clearing it are two steps, and with callbacks in worker threads what is *)
(* appended between them is lost: the run NoticesThreaded shows it.        *)
THEOREM InvalidationsAreNeverLost == ~Threaded => (MCSpec => []NoInvalidationLost)
<1>1. CountInv => NoInvalidationLost
  BY OwedIsCounted DEF CountInv, Conserved, NoInvalidationLost, Heard
<1>2. QED BY <1>1, CountAlways, PTL

-----------------------------------------------------------------------------
(* What is between the provider and the client.                            *)

InFlight == Range(outer) \union Range(inner)

LEMMA RangeOf ==
    /\ Range(<<>>) = {}
    /\ \A x : Range(<<x>>) = {x}
    /\ \A S : \A s \in Seq(S) : Range(s) \subseteq S
    /\ \A S : \A s, t \in Seq(S) : Range(s \o t) = Range(s) \union Range(t)
    /\ \A S : \A s \in Seq(S), x \in S : Range(Append(s, x)) = Range(s) \union {x}
    /\ \A S : \A s \in Seq(S) : s # <<>> => Range(s) = {Head(s)} \union Range(Tail(s))
<1>1. Range(<<>>) = {} /\ \A x : Range(<<x>>) = {x}
  BY DEF Range
<1>2. \A S : \A s \in Seq(S) : Range(s) \subseteq S
  BY RangeOfSeq
<1>3. \A S : \A s, t \in Seq(S) : Range(s \o t) = Range(s) \union Range(t)
  BY RangeConcatenation
<1>4. ASSUME NEW S, NEW s \in Seq(S), NEW x \in S
      PROVE  Range(Append(s, x)) = Range(s) \union {x}
  <2>1. Append(s, x) = s \o <<x>> /\ <<x>> \in Seq(S)
    BY AppendIsConcat
  <2>2. Range(s \o <<x>>) = Range(s) \union Range(<<x>>)
    BY <1>3, <2>1
  <2>3. Range(<<x>>) = {x}
    BY <1>1
  <2>4. QED BY <2>1, <2>2, <2>3
<1>5. ASSUME NEW S, NEW s \in Seq(S), s # <<>>
      PROVE  Range(s) = {Head(s)} \union Range(Tail(s))
  <2>1. s = <<Head(s)>> \o Tail(s) /\ <<Head(s)>> \in Seq(S) /\ Tail(s) \in Seq(S)
    BY <1>5, HeadAndTail
  <2>2. Range(<<Head(s)>> \o Tail(s)) = Range(<<Head(s)>>) \union Range(Tail(s))
    BY <1>3, <2>1
  <2>3. QED BY <1>1, <2>1, <2>2
<1>6. QED BY <1>1, <1>2, <1>3, <1>4, <1>5

\* A stage adds nothing to what is in flight but invalidations, and takes
\* nothing from it but what it delivers.
LEMMA StagesInFlight ==
    ASSUME Typed, Stages
    PROVE  /\ InFlight' \subseteq InFlight \union Invalidations
           /\ InFlight \subseteq InFlight' \union
                 (IF at = "outer" /\ outer # <<>> THEN {Head(outer)} ELSE {})
<1>1. CASE Pull \/ Ask
  BY <1>1 DEF Pull, Ask, InFlight
<1>2. CASE Copy
  <2>1. outer = <<>> /\ outer' = <<Head(inner)>> /\ inner' = Tail(inner) /\ inner # <<>>
    BY <1>2 DEF Copy, Typed, Nested
  <2>2. Range(inner) = {Head(inner)} \union Range(inner')
    BY <2>1, RangeOf DEF Typed, SequencesTyped
  <2>3. QED BY <2>1, <2>2, RangeOf DEF InFlight
<1>3. CASE Clear
  <2>1. outer' = copied \o outer /\ inner' = inner
    BY <1>3 DEF Clear
  <2>2. copied \in Seq(Elem) /\ outer \in Seq(Elem) /\ Range(copied) \subseteq Invalidations
    BY Widen, RangeOf DEF Typed, SequencesTyped
  <2>3. Range(outer') = Range(copied) \union Range(outer)
    BY <2>1, <2>2, RangeOf
  <2>4. QED BY <2>1, <2>2, <2>3 DEF InFlight
<1>4. CASE Deliver
  <2>1. at = "outer" /\ outer # <<>> /\ outer' = Tail(outer) /\ inner' = inner
    BY <1>4 DEF Deliver
  <2>2. Range(outer) = {Head(outer)} \union Range(outer')
    BY <2>1, RangeOf DEF Typed, SequencesTyped
  <2>3. QED BY <2>1, <2>2 DEF InFlight
<1>5. CASE Ended
  <2>1. outer = <<Nothing>> /\ outer' = <<>> /\ inner' = inner /\ at = "outer"
    BY <1>5 DEF Ended
  <2>2. Head(outer) = Nothing /\ outer # <<>>
    BY <2>1
  <2>3. QED BY <2>1, <2>2, RangeOf DEF InFlight
<1>6. QED BY <1>1, <1>2, <1>3, <1>4, <1>5 DEF Stages

\* An event of the provider's finds nothing in flight, and is soon the only
\* one of the provider's that is.
LEMMA ProduceInFlight ==
    ASSUME Typed, NEW e \in Produced, Produce(e)
    PROVE  /\ InFlight = {}
           /\ InFlight' \subseteq Compactions \union {e}
           /\ e \in InFlight' \/ Withheld(e)
           /\ UNCHANGED <<outer, out, names, prompt, queued, copied, told>>
<1>1. /\ at = "provider" /\ Arrive(e)
      /\ UNCHANGED <<outer, out, names, prompt, queued, copied, told>>
  BY DEF Produce
<1>2. inner = <<>> /\ outer = <<>>
  BY <1>1 DEF Typed, Nested
<1>3. InFlight = {}
  BY <1>2, RangeOf DEF InFlight
<1>4. CASE Withheld(e)
  BY <1>1, <1>3, <1>4 DEF Arrive, InFlight
<1>5. CASE ~Withheld(e)
  <2>1. inner' = compactions \o <<e>>
    BY <1>1, <1>5 DEF Arrive
  <2>2. compactions \in Seq(Inner) /\ <<e>> \in Seq(Inner) /\ Range(compactions) \subseteq Compactions
    <3>1. e \in Inner
      BY DEF Inner
    <3>2. QED BY <3>1, Widen, RangeOf DEF Typed, SequencesTyped
  <2>3. Range(inner') = Range(compactions) \union {e}
    <3>1. Range(compactions \o <<e>>) = Range(compactions) \union Range(<<e>>)
      BY <2>2, RangeConcatenation
    <3>2. Range(<<e>>) = {e}
      BY RangeOf
    <3>3. QED BY <2>1, <3>1, <3>2
  <2>4. Range(outer') = {}
    BY <1>1, <1>2, RangeOf
  <2>5. QED BY <1>1, <1>3, <2>2, <2>3, <2>4 DEF InFlight
<1>6. QED BY <1>4, <1>5

LEMMA ExhaustInFlight ==
    ASSUME Typed, Exhaust
    PROVE  /\ InFlight = {}
           /\ InFlight' \subseteq Compactions \union {Nothing}
<1>1. /\ at = "provider" /\ inner' = compactions \o <<Nothing>> /\ UNCHANGED outer
  BY DEF Exhaust, ArriveEnd
<1>2. inner = <<>> /\ outer = <<>>
  BY <1>1 DEF Typed, Nested
<1>3. compactions \in Seq(Inner) /\ <<Nothing>> \in Seq(Inner) /\ Range(compactions) \subseteq Compactions
  <2>1. Nothing \in Inner
    BY DEF Inner
  <2>2. QED BY <2>1, Widen, RangeOf DEF Typed, SequencesTyped
<1>4. Range(inner') = Range(compactions) \union {Nothing}
  <2>1. Range(compactions \o <<Nothing>>) = Range(compactions) \union Range(<<Nothing>>)
    BY <1>3, RangeConcatenation
  <2>2. Range(<<Nothing>>) = {Nothing}
    BY RangeOf
  <2>3. QED BY <1>1, <2>1, <2>2
<1>5. QED BY <1>1, <1>2, <1>3, <1>4, RangeOf DEF InFlight

-----------------------------------------------------------------------------
(* An approval is asked for in the right words.                            *)

\* A call that has begun is known by name, or its start is on its way.
Announced ==
    \A t \in Tools :
        call[t] # "unmade" => t \in names \/ Event("start", t) \in InFlight

\* By the time the run's last event is on its way, every one is known.
KnownByTheEnd ==
    \A e \in InFlight :
        e.kind = "finish" => \A t \in Tools : call[t] # "unmade" => t \in names

WordsInv == Typed /\ Announced /\ KnownByTheEnd /\ AsksInWords

LEMMA WordsStart == Init => WordsInv
<1> SUFFICES ASSUME Init PROVE WordsInv
  OBVIOUS
<1>1. Typed
  BY TypedStart
<1>2. InFlight = {}
  BY RangeOf DEF Init, InFlight
<1>3. QED BY <1>1, <1>2 DEF Init, WordsInv, Announced, KnownByTheEnd, AsksInWords

\* The words found for a call whose name is known.
LEMMA PromptInWords ==
    ASSUME Typed, NEW t \in Tools, t \in names
    PROVE  /\ Prompt(t) # "none"
           /\ Prompt(t) = "own" <=> t \in Own
           /\ Prompt(t) = "phrase" <=> t \notin Own /\ setup.project[t] = "phrase"
           /\ Prompt(t) = "confirm" <=> t \in setup.confirm \ Own /\ setup.project[t] = "nothing"
<1>1. setup.project[t] \in {"nothing", "blank", "phrase"}
  BY NoticesAssumption DEF Typed, RestTyped
<1>2. QED BY <1>1 DEF Prompt, Words

(* Names are learnt, and prompts stamped, from the one event at the head   *)
(* of the outer stage.                                                     *)
LEMMA WordsAmongStages == ASSUME WordsInv, Stages, UNCHANGED setup PROVE WordsInv'
<1>1. Typed'
  BY StagesTyped DEF WordsInv
<1>2. /\ InFlight' \subseteq InFlight \union Invalidations
      /\ InFlight \subseteq InFlight' \union
            (IF at = "outer" /\ outer # <<>> THEN {Head(outer)} ELSE {})
  BY StagesInFlight DEF WordsInv
<1>3. call' = call
  BY DEF Stages, Pull, Ask, Copy, Clear, Deliver, Ended, provider
<1>4. names \subseteq names'
  BY DEF Stages, Pull, Ask, Copy, Clear, Deliver, Ended
<1>5. KnownByTheEnd'
  <2>1. \A e \in InFlight' : e.kind = "finish" => e \in InFlight
    BY <1>2, KindTells
  <2>2. QED BY <1>3, <1>4, <2>1 DEF WordsInv, KnownByTheEnd
<1>6. CASE Deliver
  <2>1. at = "outer" /\ outer # <<>> /\ Head(outer) \in InFlight
    <3>1. Head(outer) \in Range(outer)
      BY <1>6, RangeOf DEF Deliver, WordsInv, Typed, SequencesTyped
    <3>2. QED BY <1>6, <3>1 DEF Deliver, InFlight
  <2>2. Announced'
    <3> SUFFICES ASSUME NEW t \in Tools, call[t] # "unmade", t \notin names'
                 PROVE  Event("start", t) \in InFlight'
      BY <1>3 DEF Announced
    <3>1. Event("start", t) \in InFlight
      BY <1>4 DEF WordsInv, Announced
    <3>2. Event("start", t) # Head(outer)
      BY <1>6 DEF Deliver, Event
    <3>3. QED BY <1>2, <3>1, <3>2
  <2>3. AsksInWords'
    <3>1. CASE Head(outer).kind # "finish"
      <4>1. prompt' = prompt
        BY <1>6, <3>1 DEF Deliver
      <4>2. QED BY <4>1 DEF WordsInv, AsksInWords, Own
    <3>2. CASE Head(outer).kind = "finish"
      <4>1. prompt' = [t \in Tools |-> IF t \in Deferred THEN Prompt(t) ELSE "none"]
        BY <1>6, <3>2 DEF Deliver
      <4>2. \A t \in Deferred : t \in Tools /\ t \in names
        BY <2>1, <3>2 DEF WordsInv, KnownByTheEnd, Deferred
      <4>3. QED BY <4>1, <4>2, PromptInWords DEF WordsInv, AsksInWords, Own
    <3>3. QED BY <3>1, <3>2
  <2>4. QED BY <1>1, <1>5, <2>2, <2>3 DEF WordsInv
<1>7. CASE ~Deliver
  <2>1. UNCHANGED <<names, prompt>> /\ (Stages => Pull \/ Ask \/ Copy \/ Clear \/ Ended)
    BY <1>7 DEF Stages, Pull, Ask, Copy, Clear, Ended
  <2>2. at = "outer" /\ outer # <<>> => Head(outer) = Nothing
    BY <2>1 DEF Pull, Ask, Copy, Clear, Ended
  <2>3. \A t \in Tools : Event("start", t) # Nothing
    BY DEF Event, Nothing
  <2>4. Announced'
    BY <1>2, <1>3, <2>1, <2>2, <2>3 DEF WordsInv, Announced
  <2>5. AsksInWords'
    BY <2>1 DEF WordsInv, AsksInWords, Own
  <2>6. QED BY <1>1, <1>5, <2>4, <2>5 DEF WordsInv
<1>8. QED BY <1>6, <1>7

\* The provider's steps: what it announces is not in flight before it is, and
\* what it ends with finds everything delivered.
LEMMA WordsAmongProvider == ASSUME WordsInv, Provider, UNCHANGED setup PROVE WordsInv'
<1>1. Typed'
  BY ProviderTyped DEF WordsInv
<1>2. names' = names /\ prompt' = prompt
  BY DEF Provider, Request, Think, Reply, RunCalls, NextTurn, Finish, Exhaust, StartCall,
     Report, Produce, stages
<1>3. AsksInWords'
  BY <1>2 DEF WordsInv, AsksInWords, Own
<1>4. \A e \in Compactions \union {Nothing} : e.kind # "finish"
  BY DEF Compactions, Event, Nothing
<1>5. ASSUME NEW e \in Produced, Produce(e), e.kind # "finish",
             \A t \in Tools : call'[t] # "unmade" => call[t] # "unmade" \/ e = Event("start", t)
      PROVE  Announced' /\ KnownByTheEnd'
  <2>1. /\ InFlight = {} /\ InFlight' \subseteq Compactions \union {e}
        /\ e \in InFlight' \/ Withheld(e)
    BY <1>5, ProduceInFlight DEF WordsInv
  <2>2. KnownByTheEnd'
    BY <1>4, <1>5, <2>1 DEF KnownByTheEnd
  <2>3. Announced'
    <3> SUFFICES ASSUME NEW t \in Tools, call'[t] # "unmade", t \notin names
                 PROVE  Event("start", t) \in InFlight'
      BY <1>2 DEF Announced
    <3>1. e = Event("start", t)
      BY <1>5, <2>1 DEF WordsInv, Announced
    <3>2. ~Withheld(e)
      BY <3>1 DEF Withheld, Event
    <3>3. QED BY <2>1, <3>1, <3>2
  <2>4. QED BY <2>2, <2>3
<1>6. CASE Think
  <2>1. Produce(Event("thought", turn)) /\ call' = call
    BY <1>6 DEF Think
  <2>2. Event("thought", turn) \in Produced /\ Event("thought", turn).kind # "finish"
    BY <2>1, ProducedType DEF WordsInv, Event
  <2>3. QED BY <1>1, <1>3, <1>5, <2>1, <2>2 DEF WordsInv
<1>7. CASE Reply
  <2>1. Produce(Event("text", turn)) /\ call' = call
    BY <1>7 DEF Reply
  <2>2. Event("text", turn) \in Produced /\ Event("text", turn).kind # "finish"
    BY <2>1, ProducedType DEF WordsInv, Event
  <2>3. QED BY <1>1, <1>3, <1>5, <2>1, <2>2 DEF WordsInv
<1>8. ASSUME NEW t \in Tools, StartCall(t) PROVE WordsInv'
  <2>1. Produce(Event("start", t)) /\ call' = [call EXCEPT ![t] = "made"]
    BY <1>8 DEF StartCall
  <2>2. Event("start", t) \in Produced /\ Event("start", t).kind # "finish"
    BY <2>1, ProducedType DEF WordsInv, Event
  <2>3. \A u \in Tools : call'[u] # "unmade" => call[u] # "unmade" \/ u = t
    BY <2>1 DEF WordsInv, Typed, RestTyped
  <2>4. QED BY <1>1, <1>3, <1>5, <2>1, <2>2, <2>3 DEF WordsInv
<1>9. ASSUME NEW t \in Tools, Report(t) PROVE WordsInv'
  <2>1. /\ Produce(Event("result", t))
        /\ call[t] = "returned" /\ call' = [call EXCEPT ![t] = "reported"]
    BY <1>9 DEF Report
  <2>2. Event("result", t) \in Produced /\ Event("result", t).kind # "finish"
    BY <2>1, ProducedType DEF WordsInv, Event
  <2>3. \A u \in Tools : call'[u] # "unmade" => call[u] # "unmade"
    BY <2>1 DEF WordsInv, Typed, RestTyped
  <2>4. QED BY <1>1, <1>3, <1>5, <2>1, <2>2, <2>3 DEF WordsInv
<1>10. CASE Finish
  <2>1. Produce(Event("finish", turn)) /\ call' = call
    BY <1>10 DEF Finish
  <2>2. Event("finish", turn) \in Produced
    BY <2>1, ProducedType DEF WordsInv
  <2>3. InFlight = {}
    BY <2>1, <2>2, ProduceInFlight DEF WordsInv
  <2>4. \A t \in Tools : call[t] # "unmade" => t \in names
    BY <2>3 DEF WordsInv, Announced
  <2>5. Announced' /\ KnownByTheEnd'
    BY <1>2, <2>1, <2>4 DEF Announced, KnownByTheEnd
  <2>6. QED BY <1>1, <1>3, <2>5 DEF WordsInv
<1>11. CASE Exhaust
  <2>1. InFlight = {} /\ InFlight' \subseteq Compactions \union {Nothing}
    BY <1>11, ExhaustInFlight DEF WordsInv
  <2>2. call' = call
    BY <1>11 DEF Exhaust, provider
  <2>3. Announced' /\ KnownByTheEnd'
    BY <1>2, <1>4, <2>1, <2>2 DEF WordsInv, Announced, KnownByTheEnd
  <2>4. QED BY <1>1, <1>3, <2>3 DEF WordsInv
<1>12. CASE Request \/ NextTurn
  <2>1. UNCHANGED <<call, outer, inner>>
    BY <1>12 DEF Request, NextTurn, stages
  <2>2. Announced' /\ KnownByTheEnd'
    BY <1>2, <2>1 DEF WordsInv, Announced, KnownByTheEnd, InFlight
  <2>3. QED BY <1>1, <1>3, <2>2 DEF WordsInv
<1>13. CASE RunCalls
  <2>1. UNCHANGED <<outer, inner>>
    BY <1>13 DEF RunCalls, stages
  <2>2. \A t \in Tools : call'[t] # "unmade" => call[t] # "unmade"
    BY <1>13 DEF RunCalls, Made
  <2>3. Announced' /\ KnownByTheEnd'
    BY <1>2, <2>1, <2>2 DEF WordsInv, Announced, KnownByTheEnd, InFlight
  <2>4. QED BY <1>1, <1>3, <2>3 DEF WordsInv
<1>14. QED BY <1>6, <1>7, <1>8, <1>9, <1>10, <1>11, <1>12, <1>13 DEF Provider

LEMMA WordsKept == WordsInv /\ [Next]_vars => WordsInv'
<1> SUFFICES ASSUME WordsInv, [Next]_vars PROVE WordsInv'
  OBVIOUS
<1>1. Typed'
  BY TypedKept DEF WordsInv
<1>2. setup' = setup
  BY DEF Next, vars
<1>3. ASSUME UNCHANGED <<names, prompt, outer, inner>>,
             \A t \in Tools : call'[t] # "unmade" => call[t] # "unmade"
      PROVE  WordsInv'
  BY <1>1, <1>2, <1>3 DEF WordsInv, Announced, KnownByTheEnd, InFlight, AsksInWords, Own
<1>4. CASE Stages
  BY <1>2, <1>4, WordsAmongStages
<1>5. CASE Provider
  BY <1>2, <1>5, WordsAmongProvider
<1>6. ASSUME NEW t \in Tools, Publish(t) PROVE WordsInv'
  BY <1>3, <1>6 DEF Publish, stages, provider
<1>7. ASSUME NEW t \in Tools, Return(t) PROVE WordsInv'
  BY <1>3, <1>7 DEF Return, stages, WordsInv, Typed, RestTyped
<1>8. CASE Leave
  BY <1>3, <1>8 DEF Leave
<1>9. CASE UNCHANGED vars
  BY <1>3, <1>9 DEF vars, stages, provider
<1>10. QED BY <1>4, <1>5, <1>6, <1>7, <1>8, <1>9 DEF Next, Over

(* ApprovalPrompts: whatever the calls, the setup and the order of events, *)
(* an interrupt that stamp_approval_prompts lets through asks with the     *)
(* x-confirm the call came with; failing that with the project's phrase    *)
(* for the tool, or its registered confirm=; failing both with the         *)
(* generated question.  The tool's name is always known by then.           *)
THEOREM ApprovalsAskInWords == MCSpec => []AsksInWords
<1>1. MCInit => WordsInv
  BY WordsStart DEF MCInit
<1>2. WordsInv /\ [MCNext]_<<part, vars, activityVars, contextVars>> => WordsInv'
  <2>1. [MCNext]_<<part, vars, activityVars, contextVars>> => [Next]_vars
    BY DEF MCNext
  <2>2. QED BY <2>1, WordsKept
<1>3. WordsInv => AsksInWords
  BY DEF WordsInv
<1>4. QED BY <1>1, <1>2, <1>3, PTL DEF MCSpec

-----------------------------------------------------------------------------
(* The client is told at once.                                             *)

\* Sequences, index by index.
LEMMA AppendAt ==
    ASSUME NEW S, NEW s \in Seq(S), NEW x \in S
    PROVE  /\ DOMAIN Append(s, x) = 1 .. Len(s) + 1 /\ DOMAIN s = 1 .. Len(s) /\ Len(s) \in Nat
           /\ \A i \in 1 .. Len(s) : Append(s, x)[i] = s[i]
           /\ Append(s, x)[Len(s) + 1] = x
BY AppendProperties, LenProperties

LEMMA TailAt ==
    ASSUME NEW S, NEW s \in Seq(S), s # <<>>
    PROVE  /\ DOMAIN s = 1 .. Len(s) /\ Len(s) \in Nat \ {0}
           /\ DOMAIN Tail(s) = 1 .. Len(s) - 1 /\ Len(Tail(s)) = Len(s) - 1
           /\ \A i \in 1 .. Len(s) - 1 : Tail(s)[i] = s[i + 1]
           /\ Head(s) = s[1]
<1>1. /\ Tail(s) \in Seq(S) /\ Len(Tail(s)) = Len(s) - 1
      /\ \A i \in 1 .. Len(Tail(s)) : Tail(s)[i] = s[i + 1]
  BY HeadTailProperties
<1>2. Len(s) \in Nat \ {0} /\ DOMAIN s = 1 .. Len(s) /\ DOMAIN Tail(s) = 1 .. Len(Tail(s))
  BY <1>1, EmptySeq, LenProperties
<1>3. Head(s) = s[1]
  BY <1>2, HeadAndTail
<1>4. QED BY <1>1, <1>2, <1>3

LEMMA CatAt ==
    ASSUME NEW S, NEW s \in Seq(S), NEW t \in Seq(S)
    PROVE  /\ Len(s) \in Nat /\ Len(t) \in Nat
           /\ DOMAIN s = 1 .. Len(s) /\ DOMAIN t = 1 .. Len(t)
           /\ DOMAIN (s \o t) = 1 .. Len(s) + Len(t) /\ Len(s \o t) = Len(s) + Len(t)
           /\ \A i \in 1 .. Len(s) : (s \o t)[i] = s[i]
           /\ \A i \in 1 .. Len(t) : (s \o t)[i + Len(s)] = t[i]
<1>1. /\ Len(s) \in Nat /\ Len(t) \in Nat
      /\ DOMAIN s = 1 .. Len(s) /\ DOMAIN t = 1 .. Len(t)
  BY LenProperties
<1>2. /\ s \o t \in Seq(S) /\ Len(s \o t) = Len(s) + Len(t)
      /\ \A i \in 1 .. Len(s) + Len(t) :
            (s \o t)[i] = IF i <= Len(s) THEN s[i] ELSE t[i - Len(s)]
  BY ConcatProperties
<1>3. DOMAIN (s \o t) = 1 .. Len(s) + Len(t)
  BY <1>2, LenProperties
<1>4. ASSUME NEW i \in 1 .. Len(t) PROVE (s \o t)[i + Len(s)] = t[i]
  <2>1. i + Len(s) \in 1 .. Len(s) + Len(t) /\ ~(i + Len(s) <= Len(s)) /\ (i + Len(s)) - Len(s) = i
    BY <1>1
  <2>2. QED BY <1>2, <2>1
<1>5. QED BY <1>1, <1>2, <1>3, <1>4

\* What the provider has said of the turn and of the calls.
SaidSoFar ==
    \A e \in Range(said) :
        /\ e.kind \in {"thought", "text"} => e.of \in 0 .. turn
        /\ e.kind = "thought" /\ e.of = turn => phase # "thinking"
        /\ e.kind = "text" /\ e.of = turn => phase \notin {"thinking", "replying"}
        /\ e.kind = "start" => call[e.of] # "unmade"
        /\ e.kind = "result" => call[e.of] = "reported"
        /\ e.kind = "finish" => phase = "ended"

\* Whatever is on its way or delivered, the provider has said.
SaidFirst == \A e \in Range(out) \union InFlight : e \in Produced => e \in Range(said)

\* The provider's events are new when it produces them.
LEMMA Anew ==
    ASSUME Typed, SaidSoFar, NEW e, Produce(e),
           \/ Think /\ e = Event("thought", turn)
           \/ Reply /\ e = Event("text", turn)
           \/ \E t \in Tools : StartCall(t) /\ e = Event("start", t)
           \/ \E t \in Tools : Report(t) /\ e = Event("result", t)
           \/ Finish /\ e = Event("finish", turn)
    PROVE  e \in Produced /\ e \notin Range(said)
<1>1. e \in Produced
  BY ProducedType
<1>2. e \notin Range(said)
  <2>1. CASE Think /\ e = Event("thought", turn)
    BY <2>1 DEF SaidSoFar, Think, Event
  <2>2. CASE Reply /\ e = Event("text", turn)
    BY <2>2 DEF SaidSoFar, Reply, Event
  <2>3. ASSUME NEW t \in Tools, StartCall(t), e = Event("start", t) PROVE e \notin Range(said)
    <3>1. e.kind = "start" /\ e.of = t /\ call[t] = "unmade"
      BY <2>3 DEF StartCall, Event
    <3>2. QED BY <3>1 DEF SaidSoFar
  <2>4. ASSUME NEW t \in Tools, Report(t), e = Event("result", t) PROVE e \notin Range(said)
    <3>1. e.kind = "result" /\ e.of = t /\ call[t] = "returned"
      BY <2>4 DEF Report, Event
    <3>2. QED BY <3>1 DEF SaidSoFar
  <2>5. CASE Finish /\ e = Event("finish", turn)
    BY <2>5 DEF SaidSoFar, Finish, Event
  <2>6. QED BY <2>1, <2>2, <2>3, <2>4, <2>5
<1>3. QED BY <1>1, <1>2

LEMMA ProviderSays ==
    ASSUME Typed, SaidSoFar, Provider
    PROVE  \/ \E e \in Produced : Produce(e) /\ e \notin Range(said)
           \/ /\ UNCHANGED <<said, told, out, outer, queued>>
              /\ Request \/ RunCalls \/ NextTurn \/ Exhaust
<1>1. CASE Think
  BY <1>1, Anew DEF Think
<1>2. CASE Reply
  BY <1>2, Anew DEF Reply
<1>3. ASSUME NEW t \in Tools, StartCall(t) PROVE \E e \in Produced : Produce(e) /\ e \notin Range(said)
  BY <1>3, Anew DEF StartCall
<1>4. ASSUME NEW t \in Tools, Report(t) PROVE \E e \in Produced : Produce(e) /\ e \notin Range(said)
  BY <1>4, Anew DEF Report
<1>5. CASE Finish
  BY <1>5, Anew DEF Finish
<1>6. CASE Request \/ RunCalls \/ NextTurn \/ Exhaust
  BY <1>6 DEF Request, RunCalls, NextTurn, Exhaust, stages, sinks
<1>7. QED BY <1>1, <1>2, <1>3, <1>4, <1>5, <1>6 DEF Provider

LEMMA SaidMore ==
    ASSUME Typed, NEW e \in Produced, Produce(e)
    PROVE  /\ Range(said') = Range(said) \union {e}
           /\ said' = Append(said, e)
<1>1. said' = Append(said, e)
  BY DEF Produce
<1>2. QED BY <1>1, RangeOf DEF Typed, SequencesTyped

LEMMA SaidSoFarKept == Typed /\ SaidSoFar /\ [Next]_vars => SaidSoFar'
<1> SUFFICES ASSUME Typed, SaidSoFar, [Next]_vars PROVE SaidSoFar'
  OBVIOUS
<1>1. Range(said) \subseteq Produced /\ turn \in Nat /\ turn \in 0 .. Turns
  BY RangeOf, NoticesAssumption DEF Typed, SequencesTyped, RestTyped
<1>2. \A e \in Range(said) : e.kind \in {"start", "result"} => e.of \in Tools
  BY <1>1, KindTells DEF Elem, Inner
<1>3. CASE UNCHANGED <<said, phase, turn, call>>
  BY <1>3 DEF SaidSoFar
<1>4. CASE Stages \/ UNCHANGED vars
  BY <1>3, <1>4 DEF Stages, Pull, Ask, Copy, Clear, Deliver, Ended, provider, vars
<1>5. ASSUME NEW t \in Tools, Publish(t) \/ Return(t) PROVE SaidSoFar'
  <2>1. UNCHANGED <<said, phase, turn>>
    BY <1>5 DEF Publish, Return, provider
  <2>2. call' = call \/ (call[t] = "running" /\ call' = [call EXCEPT ![t] = "returned"])
    BY <1>5 DEF Publish, Return, provider
  <2>3. \A u \in Tools : /\ call[u] # "unmade" => call'[u] # "unmade"
                         /\ call[u] = "reported" => call'[u] = "reported"
    BY <2>2 DEF Typed, RestTyped
  <2>4. QED BY <1>2, <2>1, <2>3 DEF SaidSoFar
<1>6. CASE Leave
  <2>1. UNCHANGED <<said, phase, turn>>
    BY <1>6 DEF Leave
  <2>2. \A u \in Tools : /\ call[u] # "unmade" => call'[u] # "unmade"
                         /\ call[u] = "reported" => call'[u] = "reported"
    BY <1>6 DEF Leave
  <2>3. QED BY <1>2, <2>1, <2>2 DEF SaidSoFar
<1>7. CASE Request
  <2>1. UNCHANGED <<said, call>> /\ turn' = turn + 1 /\ phase' = "thinking" /\ phase = "request"
    BY <1>7 DEF Request
  <2>2. QED BY <1>1, <2>1 DEF SaidSoFar
<1>8. CASE Exhaust
  BY <1>3, <1>8 DEF Exhaust, provider
<1>9. CASE RunCalls
  <2>1. UNCHANGED <<said, phase, turn>>
    BY <1>9 DEF RunCalls
  <2>2. \A u \in Tools : /\ call[u] # "unmade" => call'[u] # "unmade"
                         /\ call[u] = "reported" => call'[u] = "reported"
    BY <1>9 DEF RunCalls, Made
  <2>3. QED BY <1>2, <2>1, <2>2 DEF SaidSoFar
<1>10. CASE NextTurn
  <2>1. UNCHANGED <<said, turn, call>> /\ phase' \in {"request", "ending"} /\ phase = "calling"
    BY <1>10 DEF NextTurn
  <2>2. QED BY <2>1 DEF SaidSoFar
<1>11. CASE Think
  <2>1. Produce(Event("thought", turn)) /\ UNCHANGED <<turn, call>> /\ phase' = "replying" /\ phase = "thinking"
    BY <1>11 DEF Think
  <2>2. Range(said') = Range(said) \union {Event("thought", turn)}
    BY <2>1, SaidMore, ProducedType
  <2>3. QED BY <1>1, <2>1, <2>2 DEF SaidSoFar, Event
<1>12. CASE Reply
  <2>1. /\ Produce(Event("text", turn)) /\ UNCHANGED <<turn, call>> /\ phase' = "calling"
        /\ phase \in {"thinking", "replying"}
    BY <1>12 DEF Reply
  <2>2. Range(said') = Range(said) \union {Event("text", turn)}
    BY <2>1, SaidMore, ProducedType
  <2>3. QED BY <1>1, <2>1, <2>2 DEF SaidSoFar, Event
<1>13. ASSUME NEW t \in Tools, StartCall(t) PROVE SaidSoFar'
  <2>1. /\ Produce(Event("start", t)) /\ UNCHANGED <<turn, phase>>
        /\ call[t] = "unmade" /\ call' = [call EXCEPT ![t] = "made"]
    BY <1>13 DEF StartCall
  <2>2. Range(said') = Range(said) \union {Event("start", t)}
    BY <2>1, SaidMore, ProducedType
  <2>3. /\ call'[t] = "made"
        /\ \A u \in Tools : /\ call[u] # "unmade" => call'[u] # "unmade"
                            /\ call[u] = "reported" => call'[u] = "reported"
    BY <2>1 DEF Typed, RestTyped
  <2>4. QED BY <1>2, <2>1, <2>2, <2>3 DEF SaidSoFar, Event
<1>14. ASSUME NEW t \in Tools, Report(t) PROVE SaidSoFar'
  <2>1. /\ Produce(Event("result", t)) /\ UNCHANGED <<turn, phase>>
        /\ call' = [call EXCEPT ![t] = "reported"]
    BY <1>14 DEF Report
  <2>2. Range(said') = Range(said) \union {Event("result", t)}
    BY <2>1, SaidMore, ProducedType
  <2>3. /\ call'[t] = "reported"
        /\ \A u \in Tools : /\ call[u] # "unmade" => call'[u] # "unmade"
                            /\ call[u] = "reported" => call'[u] = "reported"
    BY <2>1 DEF Typed, RestTyped
  <2>4. QED BY <1>2, <2>1, <2>2, <2>3 DEF SaidSoFar, Event
<1>15. CASE Finish
  <2>1. /\ Produce(Event("finish", turn)) /\ UNCHANGED <<turn, call>> /\ phase' = "ended"
        /\ phase = "ending"
    BY <1>15 DEF Finish
  <2>2. Range(said') = Range(said) \union {Event("finish", turn)}
    BY <2>1, SaidMore, ProducedType
  <2>3. QED BY <2>1, <2>2 DEF SaidSoFar, Event
<1>16. QED BY <1>4, <1>5, <1>6, <1>7, <1>8, <1>9, <1>10, <1>11, <1>12, <1>13, <1>14, <1>15
         DEF Next, Provider, Over

LEMMA SaidFirstKept == Typed /\ SaidFirst /\ [Next]_vars => SaidFirst'
<1> SUFFICES ASSUME Typed, SaidFirst, [Next]_vars PROVE SaidFirst'
  OBVIOUS
<1>1. /\ Compactions \intersect Produced = {} /\ Invalidations \intersect Produced = {}
      /\ Nothing \notin Produced
  BY KindTells
<1>2. ASSUME UNCHANGED <<out, outer, inner, said>> PROVE SaidFirst'
  BY <1>2 DEF SaidFirst, InFlight
<1>3. CASE Stages
  <2>1. InFlight' \subseteq InFlight \union Invalidations /\ said' = said
    BY <1>3, StagesInFlight DEF Stages, Pull, Ask, Copy, Clear, Deliver, Ended
  <2>2. Range(out') \subseteq Range(out) \union InFlight
    <3>1. CASE Deliver
      <4>1. out' = Append(out, Head(outer)) /\ outer # <<>>
        BY <3>1 DEF Deliver
      <4>2. Head(outer) \in Elem /\ Head(outer) \in Range(outer)
        BY <4>1, HeadAndTail, RangeOf DEF Typed, SequencesTyped
      <4>3. Range(out') = Range(out) \union {Head(outer)}
        BY <4>1, <4>2, RangeOf DEF Typed, SequencesTyped
      <4>4. QED BY <4>2, <4>3 DEF InFlight
    <3>2. CASE ~Deliver
      <4>1. out' = out
        BY <1>3, <3>2 DEF Stages, Pull, Ask, Copy, Clear, Ended
      <4>2. QED BY <4>1
    <3>3. QED BY <3>1, <3>2
  <2>3. QED BY <1>1, <2>1, <2>2 DEF SaidFirst
<1>4. ASSUME NEW e \in Produced, Produce(e) PROVE SaidFirst'
  <2>1. InFlight' \subseteq Compactions \union {e} /\ out' = out
    BY <1>4, ProduceInFlight
  <2>2. Range(said') = Range(said) \union {e}
    BY <1>4, SaidMore
  <2>3. QED BY <1>1, <2>1, <2>2 DEF SaidFirst
<1>5. CASE Exhaust
  <2>1. InFlight' \subseteq Compactions \union {Nothing} /\ UNCHANGED <<out, said>>
    BY <1>5, ExhaustInFlight DEF Exhaust
  <2>2. QED BY <1>1, <2>1 DEF SaidFirst
<1>6. CASE Provider
  <2>1. CASE Request \/ RunCalls \/ NextTurn
    BY <1>2, <2>1 DEF Request, RunCalls, NextTurn, stages
  <2>2. CASE Think \/ Reply \/ Finish
    BY <1>4, <2>2, ProducedType DEF Think, Reply, Finish
  <2>3. ASSUME NEW t \in Tools, StartCall(t) \/ Report(t) PROVE SaidFirst'
    BY <1>4, <2>3, ProducedType DEF StartCall, Report
  <2>4. QED BY <1>5, <1>6, <2>1, <2>2, <2>3 DEF Provider
<1>7. ASSUME NEW t \in Tools, Publish(t) \/ Return(t) PROVE SaidFirst'
  BY <1>2, <1>7 DEF Publish, Return, stages
<1>8. CASE Leave \/ UNCHANGED vars
  BY <1>2, <1>8 DEF Leave, vars, stages
<1>9. QED BY <1>3, <1>6, <1>7, <1>8 DEF Next, Over

\* What the run has produced since a write was published.
Late(t) == {said[k] : k \in told[t] + 1 .. Len(said)}

\* The late events of each write stand behind its invalidation.
InOrderOut ==
    \A t \in Heard : \A i \in DOMAIN out :
        out[i] \in Late(t) => \E j \in 1 .. i - 1 : out[j] = Inv(t)

InOrderOuter ==
    \A t \in Heard : \A i \in DOMAIN outer :
        outer[i] \in Late(t) =>
            \/ Inv(t) \in Range(out)
            \/ \E j \in 1 .. i - 1 : outer[j] = Inv(t)
            \/ at = "copied" /\ Inv(t) \in Range(queued)

InOrder == InOrderOut /\ InOrderOuter

(* What counts as said after a write was said; a write has nothing late at *)
(* first, and each event the provider produces adds at most itself.        *)
LEMMA LateIsSaid ==
    ASSUME Typed, NEW t \in Heard
    PROVE  Late(t) \subseteq Range(said) /\ Late(t) \subseteq Produced
<1>1. told[t] \in Nat
  BY DEF Heard, Typed, RestTyped, Unsaid, Orphaned
<1>2. Late(t) \subseteq Range(said)
  <2>1. DOMAIN said = 1 .. Len(said) /\ Len(said) \in Nat
    BY LenProperties DEF Typed, SequencesTyped
  <2>2. QED BY <1>1, <2>1 DEF Late, Range
<1>3. Range(said) \subseteq Produced
  BY RangeOf DEF Typed, SequencesTyped
<1>4. QED BY <1>2, <1>3

LEMMA LateGrows ==
    ASSUME Typed, NEW t \in Heard, NEW e \in Produced, Produce(e)
    PROVE  Late(t)' \subseteq Late(t) \union {e}
<1>1. told[t] \in Nat
  BY DEF Heard, Typed, RestTyped, Unsaid, Orphaned
<1>2. said' = Append(said, e) /\ told' = told
  BY DEF Produce
<1>3. /\ Len(said) \in Nat /\ Len(said') = Len(said) + 1
      /\ \A i \in 1 .. Len(said) : said'[i] = said[i]
      /\ said'[Len(said) + 1] = e
  BY <1>2, AppendProperties, LenProperties DEF Typed, SequencesTyped
<1>4. ASSUME NEW k \in told[t] + 1 .. Len(said) + 1 PROVE said'[k] \in Late(t) \union {e}
  <2>1. CASE k = Len(said) + 1
    BY <1>3, <2>1
  <2>2. CASE k # Len(said) + 1
    <3>1. k \in told[t] + 1 .. Len(said) /\ k \in 1 .. Len(said)
      BY <1>1, <1>3, <2>2
    <3>2. QED BY <1>3, <3>1 DEF Late
  <2>3. QED BY <2>1, <2>2
<1>5. QED BY <1>2, <1>3, <1>4 DEF Late

LEMMA DeliverInOrder == ASSUME CountInv, InOrder, Deliver PROVE InOrder'
<1> USE DEF CountInv
<1>1. /\ at = "outer" /\ outer # <<>>
      /\ out' = Append(out, Head(outer)) /\ outer' = Tail(outer)
      /\ UNCHANGED <<said, told>>
  BY DEF Deliver
<1>2. /\ DOMAIN out' = 1 .. Len(out) + 1 /\ DOMAIN out = 1 .. Len(out) /\ Len(out) \in Nat
      /\ \A i \in 1 .. Len(out) : out'[i] = out[i]
      /\ out'[Len(out) + 1] = Head(outer)
  <2>1. Head(outer) \in Elem
    BY <1>1, HeadTailProperties DEF Typed, SequencesTyped
  <2>2. QED BY <1>1, <2>1, AppendAt DEF Typed, SequencesTyped
<1>3. /\ DOMAIN outer = 1 .. Len(outer) /\ Len(outer) \in Nat \ {0}
      /\ DOMAIN outer' = 1 .. Len(outer) - 1
      /\ \A i \in 1 .. Len(outer) - 1 : outer'[i] = outer[i + 1]
      /\ Head(outer) = outer[1]
  BY <1>1, TailAt DEF Typed, SequencesTyped
<1> SUFFICES ASSUME NEW t \in Heard PROVE
       /\ \A i \in DOMAIN out' : out'[i] \in Late(t) => \E j \in 1 .. i - 1 : out'[j] = Inv(t)
       /\ \A i \in DOMAIN outer' : outer'[i] \in Late(t) =>
             Inv(t) \in Range(out') \/ \E j \in 1 .. i - 1 : outer'[j] = Inv(t)
  <2>1. Heard' = Heard /\ \A t \in Heard : Late(t)' = Late(t) /\ Inv(t)' = Inv(t)
    BY <1>1 DEF Heard, Late, Inv
  <2>2. QED BY <2>1 DEF InOrder, InOrderOut, InOrderOuter
<1>4. \A i \in 1 .. Len(out) : out[i] \in Late(t) => \E j \in 1 .. i - 1 : out[j] = Inv(t)
  BY <1>2 DEF InOrder, InOrderOut
<1>5. \A i \in 1 .. Len(outer) : outer[i] \in Late(t) =>
         Inv(t) \in Range(out) \/ \E j \in 1 .. i - 1 : outer[j] = Inv(t)
  BY <1>1, <1>3 DEF InOrder, InOrderOuter
<1>6. Inv(t) \in Range(out) => \E j \in 1 .. Len(out) : out'[j] = Inv(t)
  BY <1>2 DEF Range
<1>7. ASSUME NEW i \in DOMAIN out', out'[i] \in Late(t)
      PROVE  \E j \in 1 .. i - 1 : out'[j] = Inv(t)
  <2>1. CASE i \in 1 .. Len(out)
    <3>1. PICK j \in 1 .. i - 1 : out[j] = Inv(t)
      BY <1>2, <1>4, <1>7, <2>1
    <3>2. j \in 1 .. Len(out)
      BY <1>2, <2>1
    <3>3. QED BY <1>2, <3>1, <3>2
  <2>2. CASE i = Len(out) + 1
    <3>1. Inv(t) \in Range(out)
      <4>1. outer[1] \in Late(t) /\ 1 \in 1 .. Len(outer)
        BY <1>2, <1>3, <1>7, <2>2
      <4>2. QED BY <1>5, <4>1
    <3>2. QED BY <1>2, <1>6, <2>2, <3>1
  <2>3. QED BY <1>2, <1>7, <2>1, <2>2
<1>8. ASSUME NEW i \in DOMAIN outer', outer'[i] \in Late(t)
      PROVE  Inv(t) \in Range(out') \/ \E j \in 1 .. i - 1 : outer'[j] = Inv(t)
  <2>1. i + 1 \in 1 .. Len(outer) /\ outer[i + 1] \in Late(t) /\ i \in 1 .. Len(outer) - 1
    BY <1>3, <1>8
  <2>2. CASE Inv(t) \in Range(out)
    <3>1. PICK j \in 1 .. Len(out) : out'[j] = Inv(t)
      BY <1>6, <2>2
    <3>2. QED BY <1>2, <3>1 DEF Range
  <2>3. ASSUME NEW j \in 1 .. (i + 1) - 1, outer[j] = Inv(t)
        PROVE  Inv(t) \in Range(out') \/ \E k \in 1 .. i - 1 : outer'[k] = Inv(t)
    <3>1. CASE j = 1
      <4>1. out'[Len(out) + 1] = Inv(t) /\ Len(out) + 1 \in DOMAIN out'
        BY <1>2, <1>3, <2>3, <3>1
      <4>2. QED BY <4>1 DEF Range
    <3>2. CASE j # 1
      <4>1. j - 1 \in 1 .. i - 1 /\ j - 1 \in 1 .. Len(outer) - 1 /\ (j - 1) + 1 = j
        BY <1>3, <2>1, <2>3, <3>2
      <4>2. outer'[j - 1] = Inv(t)
        BY <1>3, <2>3, <4>1
      <4>3. QED BY <4>1, <4>2
    <3>3. QED BY <3>1, <3>2
  <2>4. QED BY <1>5, <2>1, <2>2, <2>3
<1>9. QED BY <1>7, <1>8

(* _drain hands the copied sink on ahead of the event it was held for.     *)
LEMMA ClearInOrder == ASSUME CountInv, InOrder, Clear PROVE InOrder'
<1> USE DEF CountInv
<1>1. /\ at = "copied" /\ outer' = queued \o outer
      /\ UNCHANGED <<said, told, out>>
  BY DEF Clear, CopyIsWhole
<1>2. /\ Len(queued) \in Nat /\ Len(outer) \in Nat
      /\ DOMAIN queued = 1 .. Len(queued) /\ DOMAIN outer = 1 .. Len(outer)
      /\ DOMAIN outer' = 1 .. Len(queued) + Len(outer)
      /\ \A i \in 1 .. Len(queued) : outer'[i] = queued[i]
      /\ \A i \in 1 .. Len(outer) : outer'[i + Len(queued)] = outer[i]
  <2>1. queued \in Seq(Elem) /\ outer \in Seq(Elem)
    BY Widen DEF Typed, SequencesTyped
  <2>2. QED BY <1>1, <2>1, CatAt
<1> SUFFICES ASSUME NEW t \in Heard, NEW i \in DOMAIN outer', outer'[i] \in Late(t)
             PROVE  Inv(t) \in Range(out) \/ \E j \in 1 .. i - 1 : outer'[j] = Inv(t)
  <2>1. Heard' = Heard /\ \A t \in Heard : Late(t)' = Late(t) /\ Inv(t)' = Inv(t)
    BY <1>1 DEF Heard, Late, Inv
  <2>2. InOrderOut'
    BY <1>1, <2>1 DEF InOrder, InOrderOut
  <2>3. QED BY <1>1, <2>1, <2>2 DEF InOrder, InOrderOuter
<1>3. i \notin 1 .. Len(queued)
  <2>1. \A k \in 1 .. Len(queued) : queued[k] \in Invalidations
    BY LenProperties DEF Typed, SequencesTyped
  <2>2. Late(t) \intersect Invalidations = {}
    BY LateIsSaid, KindTells
  <2>3. QED BY <1>2, <2>1, <2>2
<1>4. i - Len(queued) \in 1 .. Len(outer) /\ outer[i - Len(queued)] \in Late(t)
  <2>1. i - Len(queued) \in 1 .. Len(outer) /\ (i - Len(queued)) + Len(queued) = i
    BY <1>2, <1>3
  <2>2. QED BY <1>2, <2>1
<1>5. \/ Inv(t) \in Range(out)
      \/ \E j \in 1 .. (i - Len(queued)) - 1 : outer[j] = Inv(t)
      \/ Inv(t) \in Range(queued)
  BY <1>2, <1>4 DEF InOrder, InOrderOuter
<1>6. ASSUME NEW j \in 1 .. (i - Len(queued)) - 1, outer[j] = Inv(t)
      PROVE  \E k \in 1 .. i - 1 : outer'[k] = Inv(t)
  <2>1. j \in 1 .. Len(outer) /\ j + Len(queued) \in 1 .. i - 1
    BY <1>2, <1>4
  <2>2. QED BY <1>2, <1>6, <2>1
<1>7. ASSUME Inv(t) \in Range(queued) PROVE \E k \in 1 .. i - 1 : outer'[k] = Inv(t)
  <2>1. PICK k \in 1 .. Len(queued) : queued[k] = Inv(t)
    BY <1>2, <1>7 DEF Range
  <2>2. k \in 1 .. i - 1
    BY <1>2, <1>4
  <2>3. QED BY <1>2, <2>1, <2>2
<1>8. QED BY <1>5, <1>6, <1>7

LEMMA CopyInOrder == ASSUME CountInv, InOrder, Copy PROVE InOrder'
<1> USE DEF CountInv
<1>1. /\ outer = <<>> /\ outer' = <<Head(inner)>> /\ at' = "copied"
      /\ UNCHANGED <<said, told, out, queued>>
  BY DEF Copy, Typed, Nested, sinks
<1>2. ASSUME NEW t \in Heard PROVE Inv(t) \in Range(out) \/ Inv(t) \in Range(queued)
  <2>1. t \in Tools /\ Count(t) = 1
    BY DEF Heard, Conserved
  <2>2. Times(Inv(t), outer) = 0
    BY <1>1, NoneInner, EmptySeq
  <2>3. Times(Inv(t), queued) # 0 \/ Times(Inv(t), out) # 0
    BY <2>1, <2>2, CountIsNat DEF Count
  <2>4. QED BY <2>3, TimesSome DEF Typed, SequencesTyped
<1>3. QED BY <1>1, <1>2 DEF InOrder, InOrderOut, InOrderOuter, Late, Heard, Inv

(* An event is new when it is produced, so it is behind every write there  *)
(* is.                                                                     *)
LEMMA ProduceInOrder ==
    ASSUME Typed, InOrder, SaidFirst, NEW e \in Produced, Produce(e), e \notin Range(said)
    PROVE  InOrder'
<1>1. UNCHANGED <<outer, out, queued, told>> /\ outer = <<>>
  BY DEF Produce, Typed, Nested
<1>2. DOMAIN outer = {}
  BY <1>1
<1>3. e \notin Range(out)
  BY DEF SaidFirst
<1>4. \A t \in Heard : Late(t)' \subseteq Late(t) \union {e}
  BY LateGrows
<1>5. Heard' = Heard
  BY <1>1 DEF Heard
<1>6. InOrderOuter'
  BY <1>1, <1>2 DEF InOrderOuter
<1>7. InOrderOut'
  <2> SUFFICES ASSUME NEW t \in Heard, NEW i \in DOMAIN out, out[i] \in Late(t)'
               PROVE  \E j \in 1 .. i - 1 : out[j] = Inv(t)
    BY <1>1, <1>5 DEF InOrderOut, Inv
  <2>1. out[i] # e
    BY <1>3 DEF Range
  <2>2. out[i] \in Late(t)
    BY <1>4, <2>1
  <2>3. QED BY <2>2 DEF InOrder, InOrderOut
<1>8. QED BY <1>6, <1>7 DEF InOrder

\* Nothing is late when a write is published, and so nothing out of order.
LEMMA PublishInOrder ==
    ASSUME ~Threaded, Typed, InOrder, NEW t \in Tools, Publish(t)
    PROVE  InOrder'
<1>1. /\ at # "copied" /\ UNCHANGED <<outer, out, said, at>>
      /\ told' = [told EXCEPT ![t] = IF Unheard THEN Orphaned ELSE Len(said)]
  BY DEF Publish, stages, Idle
<1>2. Len(said) \in Nat
  BY LenProperties DEF Typed, SequencesTyped
<1>3. ASSUME NEW u \in Heard', u # t PROVE u \in Heard /\ Late(u)' = Late(u)
  BY <1>1, <1>3 DEF Heard, Late, Typed, RestTyped
<1>4. ASSUME t \in Heard' PROVE Late(t)' = {}
  <2>1. told'[t] = Len(said)
    BY <1>1, <1>4 DEF Heard, Typed, RestTyped, Orphaned
  <2>2. QED BY <1>1, <1>2, <2>1 DEF Late
<1>5. InOrderOut'
  <2> SUFFICES ASSUME NEW u \in Heard', NEW i \in DOMAIN out, out[i] \in Late(u)'
               PROVE  \E j \in 1 .. i - 1 : out[j] = Inv(u)
    BY <1>1 DEF InOrderOut, Inv
  <2>1. u \in Heard /\ out[i] \in Late(u)
    BY <1>3, <1>4
  <2>2. QED BY <2>1 DEF InOrder, InOrderOut
<1>6. InOrderOuter'
  <2> SUFFICES ASSUME NEW u \in Heard', NEW i \in DOMAIN outer, outer[i] \in Late(u)'
               PROVE  Inv(u) \in Range(out) \/ \E j \in 1 .. i - 1 : outer[j] = Inv(u)
    BY <1>1 DEF InOrderOuter, Inv
  <2>1. u \in Heard /\ outer[i] \in Late(u)
    BY <1>3, <1>4
  <2>2. QED BY <1>1, <2>1 DEF InOrder, InOrderOuter
<1>7. QED BY <1>5, <1>6 DEF InOrder

LEMMA InOrderKept ==
    ~Threaded /\ CountInv /\ SaidSoFar /\ SaidFirst /\ InOrder /\ [Next]_vars => InOrder'
<1> SUFFICES ASSUME ~Threaded, CountInv, SaidSoFar, SaidFirst, InOrder, [Next]_vars
             PROVE  InOrder'
  OBVIOUS
<1>1. ASSUME UNCHANGED <<outer, out, queued, said, told>>, at # "copied" PROVE InOrder'
  BY <1>1 DEF InOrder, InOrderOut, InOrderOuter, Late, Heard, Inv
<1>2. ASSUME UNCHANGED <<outer, out, queued, said, told, at>> PROVE InOrder'
  BY <1>2 DEF InOrder, InOrderOut, InOrderOuter, Late, Heard, Inv
<1>3. CASE Stages
  <2>1. CASE Pull \/ Ask
    BY <1>1, <2>1 DEF Pull, Ask, sinks
  <2>2. CASE Ended
    <3>1. outer' = <<>> /\ UNCHANGED <<out, said, told>>
      BY <2>2 DEF Ended
    <3>2. QED BY <3>1 DEF InOrder, InOrderOut, InOrderOuter, Late, Heard, Inv
  <2>3. QED BY <1>3, <2>1, <2>2, CopyInOrder, ClearInOrder, DeliverInOrder DEF Stages
<1>4. CASE Provider
  <2>1. at = "provider"
    BY <1>4 DEF Provider, Request, Think, Reply, RunCalls, NextTurn, Finish, Exhaust, StartCall,
       Report, Produce
  <2>2. QED BY <1>1, <1>4, <2>1, ProviderSays, ProduceInOrder DEF CountInv
<1>5. ASSUME NEW t \in Tools, Publish(t) PROVE InOrder'
  BY <1>5, PublishInOrder DEF CountInv
<1>6. ASSUME NEW t \in Tools, Return(t) PROVE InOrder'
  BY <1>2, <1>6 DEF Return, stages, sinks
<1>7. CASE Leave
  BY <1>1, <1>7 DEF Leave, sinks
<1>8. CASE UNCHANGED vars
  BY <1>2, <1>8 DEF vars, stages, sinks
<1>9. QED BY <1>3, <1>4, <1>5, <1>6, <1>7, <1>8 DEF Next, Over

\* What closes a run is behind everything else: nothing is left in the stages
\* further in, nor, once the sink is cleared, in the sink.
Closing == Nothing \in Range(outer)

InnerCloses ==
    \A i \in DOMAIN inner : inner[i] = Nothing => i = Len(inner) /\ compactions = <<>>

Drained ==
    /\ InnerCloses
    /\ Closing \/ at = "over" => inner = <<>> /\ compactions = <<>>
    /\ (Closing /\ at # "copied") \/ at = "over" => \A t \in Heard : Inv(t) \notin Range(queued)
    /\ at = "over" => outer = <<>>

(* When the end of the stream is taken in, nothing is left further in, and *)
(* what the sink still had has been copied.                                *)
LEMMA CopyDrains == ASSUME CountInv, Drained, Copy PROVE Drained'
<1>1. /\ inner # <<>> /\ outer' = <<Head(inner)>> /\ inner' = Tail(inner) /\ at' = "copied"
      /\ UNCHANGED <<compactions, queued, told>>
  BY DEF Copy, sinks
<1>2. /\ DOMAIN inner = 1 .. Len(inner) /\ Len(inner) \in Nat \ {0}
      /\ DOMAIN inner' = 1 .. Len(inner) - 1 /\ Len(inner') = Len(inner) - 1
      /\ \A i \in 1 .. Len(inner) - 1 : inner'[i] = inner[i + 1]
      /\ Head(inner) = inner[1] /\ inner' \in Seq(Inner)
  BY <1>1, TailAt, HeadAndTail DEF CountInv, Typed, SequencesTyped
<1>3. InnerCloses'
  <2> SUFFICES ASSUME NEW i \in DOMAIN inner', inner'[i] = Nothing
               PROVE  i = Len(inner') /\ compactions = <<>>
    BY <1>1 DEF InnerCloses
  <2>1. i + 1 \in DOMAIN inner /\ inner[i + 1] = Nothing
    BY <1>2
  <2>2. i + 1 = Len(inner) /\ compactions = <<>>
    BY <2>1 DEF Drained, InnerCloses
  <2>3. QED BY <1>2, <2>2
<1>4. Closing' => inner' = <<>> /\ compactions' = <<>>
  <2> SUFFICES ASSUME Closing' PROVE inner' = <<>> /\ compactions' = <<>>
    OBVIOUS
  <2>1. inner[1] = Nothing
    BY <1>1, <1>2, RangeOf DEF Closing
  <2>2. 1 = Len(inner) /\ compactions = <<>>
    BY <1>2, <2>1 DEF Drained, InnerCloses
  <2>3. QED BY <1>1, <1>2, <2>2, EmptySeq
<1>5. QED BY <1>1, <1>3, <1>4 DEF Drained

LEMMA StagesDrain == ASSUME CountInv, Drained, Stages PROVE Drained'
<1> USE DEF CountInv
<1>1. CASE Pull
  BY <1>1 DEF Pull, Drained, InnerCloses, Closing, Heard, sinks, Inv
<1>2. CASE Ask
  BY <1>2 DEF Ask, Drained, InnerCloses, Closing, Heard, sinks, Inv
<1>3. CASE Copy
  BY <1>3, CopyDrains
<1>4. CASE Clear
  <2>1. /\ outer' = copied \o outer /\ queued' = <<>> /\ at' = "outer"
        /\ UNCHANGED <<inner, compactions, told>>
    BY <1>4 DEF Clear
  <2>2. Closing' => Closing
    <3>1. copied \in Seq(Elem) /\ outer \in Seq(Elem) /\ Range(copied) \subseteq Invalidations
      BY Widen, RangeOf DEF Typed, SequencesTyped
    <3>2. Range(outer') = Range(copied) \union Range(outer)
      BY <2>1, <3>1, RangeConcatenation
    <3>3. Nothing \notin Invalidations
      BY KindTells
    <3>4. QED BY <3>1, <3>2, <3>3 DEF Closing
  <2>3. Range(queued') = {}
    BY <2>1, RangeOf
  <2>4. QED BY <2>1, <2>2, <2>3 DEF Drained, InnerCloses
<1>5. CASE Deliver
  <2>1. /\ at = "outer" /\ outer # <<>> /\ outer' = Tail(outer) /\ at' = "client"
        /\ UNCHANGED <<inner, compactions, queued, told>>
    BY <1>5 DEF Deliver, sinks
  <2>2. Closing' => Closing
    BY <2>1, RangeOf DEF Closing, Typed, SequencesTyped
  <2>3. QED BY <2>1, <2>2 DEF Drained, InnerCloses, Heard, Inv
<1>6. CASE Ended
  <2>1. /\ at = "outer" /\ outer = <<Nothing>> /\ outer' = <<>> /\ at' = "over"
        /\ UNCHANGED <<inner, compactions, queued, told>>
    BY <1>6 DEF Ended, sinks
  <2>2. Closing
    BY <2>1, RangeOf DEF Closing
  <2>3. QED BY <2>1, <2>2 DEF Drained, InnerCloses, Heard, Inv
<1>7. QED BY <1>1, <1>2, <1>3, <1>4, <1>5, <1>6 DEF Stages

\* The provider runs where nobody further out has anything left.
LEMMA ProviderDrains == ASSUME Typed, Drained, Provider PROVE Drained'
<1>1. /\ at = "provider" /\ at' \in {"provider", "inner"}
      /\ inner = <<>> /\ outer = <<>> /\ outer' = <<>>
  BY DEF Provider, Request, Think, Reply, RunCalls, NextTurn, Finish, Exhaust, StartCall,
     Report, Produce, Arrive, ArriveEnd, stages, Typed, Nested
<1>2. ~Closing'
  BY <1>1, RangeOf DEF Closing
<1>3. InnerCloses'
  <2>1. CASE inner' = inner
    BY <1>1, <2>1 DEF InnerCloses
  <2>2. ASSUME NEW e \in Produced \union {Nothing},
               inner' = compactions \o <<e>>, compactions' = <<>>
        PROVE  InnerCloses'
    <3>1. /\ compactions \in Seq(Compactions) /\ compactions \in Seq(Inner)
          /\ <<e>> \in Seq(Inner) /\ Len(<<e>>) = 1
      <4>1. e \in Inner
        BY DEF Inner
      <4>2. QED BY <4>1, Widen DEF Typed, SequencesTyped
    <3>2. /\ Len(compactions) \in Nat /\ DOMAIN compactions = 1 .. Len(compactions)
          /\ DOMAIN inner' = 1 .. Len(compactions) + 1 /\ Len(inner') = Len(compactions) + 1
          /\ \A i \in 1 .. Len(compactions) : inner'[i] = compactions[i]
      BY <2>2, <3>1, CatAt
    <3>3. \A i \in 1 .. Len(compactions) : compactions[i] # Nothing
      BY <3>1, KindTells
    <3>4. QED BY <2>2, <3>2, <3>3 DEF InnerCloses
  <2>3. CASE Request \/ RunCalls \/ NextTurn
    BY <2>1, <2>3 DEF Request, RunCalls, NextTurn, stages
  <2>4. ASSUME NEW e \in Produced, Produce(e) PROVE InnerCloses'
    BY <2>1, <2>2, <2>4 DEF Produce, Arrive
  <2>5. CASE Think \/ Reply \/ Finish
    BY <2>4, <2>5, ProducedType DEF Think, Reply, Finish
  <2>6. ASSUME NEW t \in Tools, StartCall(t) \/ Report(t) PROVE InnerCloses'
    BY <2>4, <2>6, ProducedType DEF StartCall, Report
  <2>7. CASE Exhaust
    BY <2>2, <2>7 DEF Exhaust, ArriveEnd
  <2>8. QED BY <2>3, <2>5, <2>6, <2>7 DEF Provider
<1>4. QED BY <1>1, <1>2, <1>3 DEF Drained

LEMMA DrainedKept == ~Threaded /\ CountInv /\ Drained /\ [Next]_vars => Drained'
<1> SUFFICES ASSUME ~Threaded, CountInv, Drained, [Next]_vars PROVE Drained'
  OBVIOUS
<1> USE DEF CountInv
<1>1. ASSUME NEW t \in Tools, Publish(t) PROVE Drained'
  <2>1. /\ queued' = Append(queued, Inv(t)) /\ UNCHANGED <<at, inner, outer, compactions>>
        /\ told' = [told EXCEPT ![t] = IF Unheard THEN Orphaned ELSE Len(said)]
    BY <1>1 DEF Publish, stages, Inv
  <2>2. Range(queued') = Range(queued) \union {Inv(t)}
    <3>1. Inv(t) \in Invalidations
      BY DEF Invalidations, Inv
    <3>2. QED BY <2>1, <3>1, RangeOf DEF Typed, SequencesTyped
  <2>3. ASSUME Closing \/ at = "over", NEW u \in Heard'
        PROVE  u \in Heard /\ Inv(u) # Inv(t)
    <3>1. told'[t] = Orphaned
      BY <2>1, <2>3 DEF Unheard, Closing, Typed, RestTyped
    <3>2. u # t
      BY <2>3, <3>1 DEF Heard, Orphaned
    <3>3. QED BY <2>1, <2>3, <3>2 DEF Heard, Inv, Event, Typed, RestTyped
  <2>4. Closing' = Closing
    BY <2>1 DEF Closing
  <2>5. QED BY <2>1, <2>2, <2>3, <2>4 DEF Drained, InnerCloses, Inv
<1>2. ASSUME NEW t \in Tools, Return(t) PROVE Drained'
  BY <1>2 DEF Return, stages, sinks, Drained, InnerCloses, Closing, Heard, Inv
<1>3. CASE Leave
  BY <1>3 DEF Leave, sinks, Drained, InnerCloses, Closing, Heard, Inv
<1>4. CASE UNCHANGED vars
  BY <1>4 DEF vars, stages, sinks, Drained, InnerCloses, Closing, Heard, Inv
<1>5. QED BY <1>1, <1>2, <1>3, <1>4, StagesDrain, ProviderDrains DEF Next, Over

\* The invariant: the invalidations counted, what is late in order, and
\* nothing behind the end.
TellInv == CountInv /\ SaidSoFar /\ SaidFirst /\ InOrder /\ Drained

LEMMA TellStart == Init => TellInv
<1> SUFFICES ASSUME Init PROVE TellInv
  OBVIOUS
<1>1. CountInv
  BY CountStart
<1>2. Range(said) = {} /\ Range(out) = {} /\ InFlight = {} /\ Heard = {}
  BY RangeOf DEF Init, InFlight, Heard, Unsaid
<1>3. DOMAIN inner = {} /\ ~Closing /\ at # "over"
  BY RangeOf DEF Init, Closing
<1>4. QED BY <1>1, <1>2, <1>3 DEF TellInv, SaidSoFar, SaidFirst, InOrder, InOrderOut, InOrderOuter,
       Drained, InnerCloses

LEMMA TellKept == ~Threaded /\ TellInv /\ [Next]_vars => TellInv'
BY CountKept, SaidSoFarKept, SaidFirstKept, InOrderKept, DrainedKept DEF TellInv, CountInv

(* The order at the client is the case of InOrder that has left every      *)
(* stage.                                                                  *)
LEMMA TellMeans == TellInv => ToldAtOnce
<1> SUFFICES ASSUME TellInv PROVE ToldAtOnce
  OBVIOUS
<1>1. ASSUME NEW t \in Heard, NEW i \in DOMAIN out, NEW k \in told[t] + 1 .. Len(said),
             out[i] = said[k]
      PROVE  \E j \in 1 .. i - 1 : out[j] = Event("invalidation", t)
  <2>1. out[i] \in Late(t)
    BY <1>1 DEF Late
  <2>2. QED BY <2>1 DEF TellInv, InOrder, InOrderOut, Inv
<1>2. ASSUME at = "over", NEW t \in Heard PROVE Times(Event("invalidation", t), out) = 1
  <2>1. Count(t) = 1
    BY DEF TellInv, CountInv, Conserved, Heard
  <2>2. Times(Inv(t), queued) = 0
    BY <1>2, TimesSome DEF TellInv, Drained, CountInv, Typed, SequencesTyped
  <2>3. Times(Inv(t), outer) = 0
    BY <1>2, NoneInner, EmptySeq DEF TellInv, Drained, CountInv
  <2>4. QED BY <2>1, <2>2, <2>3, CountIsNat DEF Count, Inv, TellInv, CountInv
<1>3. at = "over" => compactions = <<>> /\ inner = <<>>
  BY DEF TellInv, Drained
<1>4. QED BY <1>1, <1>2, <1>3 DEF ToldAtOnce

(* ToldAtOnce: where callbacks run on the event loop, the client is told   *)
(* of a write ahead of everything the run produced once it had committed,  *)
(* whatever was still in the stages' hands at the time; and a run that is  *)
(* read to its end has told of every write it heard of, once, because the  *)
(* sinks are drained a last time before the end is passed on.              *)
THEOREM WritesAreToldAtOnce == ~Threaded => (MCSpec => []ToldAtOnce)
<1> SUFFICES ASSUME ~Threaded PROVE MCSpec => []ToldAtOnce
  OBVIOUS
<1>1. MCInit => TellInv
  BY TellStart DEF MCInit
<1>2. TellInv /\ [MCNext]_<<part, vars, activityVars, contextVars>> => TellInv'
  <2>1. [MCNext]_<<part, vars, activityVars, contextVars>> => [Next]_vars
    BY DEF MCNext
  <2>2. QED BY <2>1, TellKept
<1>3. QED BY <1>1, <1>2, TellMeans, PTL DEF MCSpec

-----------------------------------------------------------------------------
(* Everything is in its place.                                             *)

\* All that is under way, in the order in which the client will have it.
Pipeline == Cat(Cat(Cat(out, outer), inner), compactions)

\* What the properties of places do not look at.
Aside == Invalidations \union {Nothing}

LEMMA PipelineParts ==
    ASSUME Typed
    PROVE  /\ out \in Seq(Elem) /\ outer \in Seq(Elem) /\ inner \in Seq(Elem)
           /\ compactions \in Seq(Elem) /\ Pipeline \in Seq(Elem)
<1>1. /\ out \in Seq(Elem) /\ outer \in Seq(Elem) /\ inner \in Seq(Elem)
      /\ compactions \in Seq(Elem)
  BY Widen DEF Typed, SequencesTyped
<1>2. QED BY <1>1, CatType DEF Pipeline

LEMMA AsideType ==
    /\ Aside \subseteq Elem
    /\ \A s \in Seq(Aside) : s \in Seq(Elem)
    /\ \A s \in Seq(Invalidations) : s \in Seq(Aside)
    /\ <<Nothing>> \in Seq(Aside) /\ <<>> \in Seq(Aside)
<1>1. Aside \subseteq Elem /\ Invalidations \subseteq Aside /\ Nothing \in Aside
  BY DEF Aside, Elem, Inner
<1>2. QED BY <1>1, SeqMonotonic, EmptySeq

\* Something set aside is put into the pipeline, or taken out of it.
PutAside ==
    \E a, b \in Seq(Elem), c \in Seq(Aside) :
        \/ Pipeline = Cat(a, b) /\ Pipeline' = Cat(a, Cat(c, b))
        \/ Pipeline = Cat(a, Cat(c, b)) /\ Pipeline' = Cat(a, b)

LEMMA SamePipeline ==
    ASSUME Typed, Pipeline' = Pipeline
    PROVE  PutAside
<1>1. Pipeline \in Seq(Elem) /\ <<>> \in Seq(Elem) /\ <<>> \in Seq(Aside)
  BY PipelineParts, EmptySeq
<1>2. Pipeline = Cat(Pipeline, <<>>) /\ Pipeline' = Cat(Pipeline, Cat(<<>>, <<>>))
  BY <1>1, CatNothing
<1>3. QED BY <1>1, <1>2 DEF PutAside

LEMMA StagesPutAside == ASSUME Typed, Stages PROVE PutAside
<1>0. /\ out \in Seq(Elem) /\ outer \in Seq(Elem) /\ inner \in Seq(Elem)
      /\ compactions \in Seq(Elem) /\ <<>> \in Seq(Elem)
  BY PipelineParts, EmptySeq
<1>1. CASE Pull \/ Ask
  <2>1. Pipeline' = Pipeline
    BY <1>1 DEF Pull, Ask, Pipeline, sinks
  <2>2. QED BY <2>1, SamePipeline
<1>2. CASE Copy
  <2>1. /\ outer = <<>> /\ inner # <<>> /\ outer' = <<Head(inner)>> /\ inner' = Tail(inner)
        /\ UNCHANGED <<out, compactions>>
    BY <1>2 DEF Copy, Typed, Nested, sinks
  <2>2. /\ inner = Cat(<<Head(inner)>>, Tail(inner))
        /\ <<Head(inner)>> \in Seq(Elem) /\ Tail(inner) \in Seq(Elem)
    <3>1. /\ Head(inner) \in Elem /\ Tail(inner) \in Seq(Elem)
          /\ inner = <<Head(inner)>> \o Tail(inner)
      BY <1>0, <2>1, HeadAndTail
    <3>2. QED BY <3>1 DEF Cat
  <2>3. Cat(Cat(out, outer), inner) = Cat(Cat(out, outer'), inner')
    <3>1. Cat(out, Cat(<<Head(inner)>>, Tail(inner))) = Cat(Cat(out, <<Head(inner)>>), Tail(inner))
      <4> DEFINE first == <<Head(inner)>>
                 others == Tail(inner)
      <4> HIDE DEF first, others
      <4>1. first \in Seq(Elem) /\ others \in Seq(Elem)
        BY <2>2 DEF first, others
      <4>2. Cat(Cat(out, first), others) = Cat(out, Cat(first, others))
        BY <1>0, <4>1, CatAssociates
      <4>3. QED BY <4>2 DEF first, others
    <3>2. Cat(out, <<>>) = out
      BY <1>0, CatNothing
    <3>3. QED BY <2>1, <2>2, <3>1, <3>2
  <2>4. Pipeline' = Pipeline
    BY <2>1, <2>3 DEF Pipeline
  <2>5. QED BY <2>4, SamePipeline
<1>3. CASE Clear
  <2>1. outer' = Cat(copied, outer) /\ UNCHANGED <<out, inner, compactions>>
    BY <1>3 DEF Clear, Cat
  <2>2. copied \in Seq(Aside) /\ copied \in Seq(Elem)
    BY AsideType DEF Typed, SequencesTyped
  <2> DEFINE rest == Cat(outer, Cat(inner, compactions))
  <2>3. Pipeline = Cat(out, rest) /\ rest \in Seq(Elem)
    BY <1>0, CatType, CatAssociates DEF Pipeline
  <2>4. Pipeline' = Cat(out, Cat(copied, rest))
    <3>1. Cat(Cat(Cat(out, Cat(copied, outer)), inner), compactions) = Cat(out, Cat(copied, rest))
      BY <1>0, <2>2, CatType, CatAssociates
    <3>2. QED BY <2>1, <3>1 DEF Pipeline
  <2> HIDE DEF rest
  <2>5. QED BY <1>0, <2>2, <2>3, <2>4 DEF PutAside
<1>4. CASE Deliver
  <2>1. /\ outer # <<>> /\ out' = Append(out, Head(outer)) /\ outer' = Tail(outer)
        /\ UNCHANGED <<inner, compactions>>
    BY <1>4 DEF Deliver, sinks
  <2>2. /\ outer = Cat(<<Head(outer)>>, Tail(outer)) /\ Head(outer) \in Elem
        /\ <<Head(outer)>> \in Seq(Elem) /\ Tail(outer) \in Seq(Elem)
    <3>1. /\ Head(outer) \in Elem /\ Tail(outer) \in Seq(Elem)
          /\ outer = <<Head(outer)>> \o Tail(outer)
      BY <1>0, <2>1, HeadAndTail
    <3>2. QED BY <3>1 DEF Cat
  <2>3. Cat(out', outer') = Cat(out, outer)
    <3>1. Append(out, Head(outer)) = Cat(out, <<Head(outer)>>)
      BY <1>0, <2>2, CatAppend
    <3>2. Cat(Cat(out, <<Head(outer)>>), Tail(outer)) = Cat(out, Cat(<<Head(outer)>>, Tail(outer)))
      <4> DEFINE first == <<Head(outer)>>
                 others == Tail(outer)
      <4> HIDE DEF first, others
      <4>1. first \in Seq(Elem) /\ others \in Seq(Elem)
        BY <2>2 DEF first, others
      <4>2. Cat(Cat(out, first), others) = Cat(out, Cat(first, others))
        BY <1>0, <4>1, CatAssociates
      <4>3. QED BY <4>2 DEF first, others
    <3>3. QED BY <2>1, <2>2, <3>1, <3>2
  <2>4. Pipeline' = Pipeline
    BY <2>1, <2>3 DEF Pipeline
  <2>5. QED BY <2>4, SamePipeline
<1>5. CASE Ended
  <2>1. outer = <<Nothing>> /\ outer' = <<>> /\ UNCHANGED <<out, inner, compactions>>
    BY <1>5 DEF Ended, sinks
  <2> DEFINE rest == Cat(inner, compactions)
  <2>2. rest \in Seq(Elem)
    BY <1>0, CatType
  <2>3. Pipeline = Cat(out, Cat(outer, rest))
    BY <1>0, CatType, CatAssociates DEF Pipeline
  <2>4. Pipeline' = Cat(out, rest)
    <3>1. Cat(out, <<>>) = out
      BY <1>0, CatNothing
    <3>2. Cat(Cat(out, inner), compactions) = Cat(out, rest)
      BY <1>0, CatAssociates
    <3>3. QED BY <2>1, <3>1, <3>2 DEF Pipeline
  <2> HIDE DEF rest
  <2>5. QED BY <1>0, <2>1, <2>2, <2>3, <2>4, AsideType DEF PutAside
<1>6. QED BY <1>1, <1>2, <1>3, <1>4, <1>5 DEF Stages

\* What the provider makes goes in at the far end.
LEMMA ArrivesLast ==
    ASSUME Typed, at = "provider", NEW e \in Elem,
           inner' = compactions \o <<e>>, compactions' = <<>>, UNCHANGED <<out, outer>>
    PROVE  Pipeline' = Append(Pipeline, e)
<1>1. /\ out \in Seq(Elem) /\ compactions \in Seq(Elem)
      /\ outer = <<>> /\ inner = <<>> /\ Pipeline \in Seq(Elem)
  BY PipelineParts DEF Typed, Nested
<1>2. Append(Pipeline, e) = Cat(Pipeline, <<e>>) /\ <<e>> \in Seq(Elem)
  BY <1>1, CatAppend
<1>3. Pipeline = Cat(out, compactions)
  BY <1>1, CatNothing DEF Pipeline
<1>4. inner' = Cat(compactions, <<e>>)
  BY DEF Cat
<1>5. Cat(compactions, <<e>>) \in Seq(Elem) /\ Cat(out, Cat(compactions, <<e>>)) \in Seq(Elem)
  BY <1>1, <1>2, CatType
<1>6. Pipeline' = Cat(out, Cat(compactions, <<e>>))
  BY <1>1, <1>4, <1>5, CatNothing DEF Pipeline
<1>7. Cat(Cat(out, compactions), <<e>>) = Cat(out, Cat(compactions, <<e>>))
  <2> DEFINE last == <<e>>
  <2> HIDE DEF last
  <2>1. last \in Seq(Elem)
    BY <1>2 DEF last
  <2>2. Cat(Cat(out, compactions), last) = Cat(out, Cat(compactions, last))
    BY <1>1, <2>1, CatAssociates
  <2>3. QED BY <2>2 DEF last
<1>8. QED BY <1>2, <1>3, <1>6, <1>7

LEMMA ProduceAdds ==
    ASSUME Typed, NEW e \in Produced, Produce(e)
    PROVE  /\ said' = Append(said, e)
           /\ Withheld(e) => Pipeline' = Pipeline
           /\ ~Withheld(e) => Pipeline' = Append(Pipeline, e)
<1>1. /\ at = "provider" /\ Arrive(e) /\ said' = Append(said, e) /\ UNCHANGED <<out, outer>>
  BY DEF Produce
<1>2. CASE Withheld(e)
  BY <1>1, <1>2 DEF Arrive, Pipeline
<1>3. CASE ~Withheld(e)
  <2>1. inner' = compactions \o <<e>> /\ compactions' = <<>>
    BY <1>1, <1>3 DEF Arrive
  <2>2. e \in Elem
    BY DEF Elem, Inner
  <2>3. QED BY <1>1, <1>3, <2>1, <2>2, ArrivesLast
<1>4. QED BY <1>2, <1>3

LEMMA ExhaustAdds ==
    ASSUME Typed, Exhaust
    PROVE  Pipeline' = Append(Pipeline, Nothing) /\ UNCHANGED <<said, turn>>
<1>1. Nothing \in Elem
  BY DEF Elem, Inner
<1>2. QED BY <1>1, ArrivesLast DEF Exhaust, ArriveEnd, provider

LEMMA RequestAdds ==
    ASSUME Typed, Request
    PROVE  /\ UNCHANGED said /\ turn' = turn + 1
           /\ \/ Pipeline' = Pipeline
              \/ Pipeline' = Append(Pipeline, Event("compaction", turn + 1))
           /\ Event("compaction", turn + 1) \in Compactions
<1>1. /\ turn' = turn + 1 /\ UNCHANGED <<out, outer, inner, said>>
      /\ \/ compactions' = Append(compactions, Event("compaction", turn + 1))
         \/ UNCHANGED compactions
  BY DEF Request, stages
<1> DEFINE e == Event("compaction", turn + 1)
<1>2. e \in Compactions /\ e \in Elem
  <2>1. turn + 1 \in 0 .. Turns
    BY NoticesAssumption DEF Request, Typed, RestTyped
  <2>2. QED BY <2>1 DEF Compactions, Elem, Inner
<1> HIDE DEF e
<1>3. compactions' = Append(compactions, e) => Pipeline' = Append(Pipeline, e)
  <2> SUFFICES ASSUME compactions' = Append(compactions, e) PROVE Pipeline' = Append(Pipeline, e)
    OBVIOUS
  <2> DEFINE front == Cat(Cat(out, outer), inner)
             last == <<e>>
  <2>1. front \in Seq(Elem) /\ compactions \in Seq(Elem) /\ Pipeline \in Seq(Elem)
    BY PipelineParts, CatType
  <2>2. /\ Append(compactions, e) = Cat(compactions, last) /\ last \in Seq(Elem)
        /\ Append(Pipeline, e) = Cat(Pipeline, last)
    BY <1>2, <2>1, CatAppend
  <2>3. Pipeline = Cat(front, compactions) /\ Pipeline' = Cat(front, Append(compactions, e))
    BY <1>1 DEF Pipeline
  <2> HIDE DEF front, last
  <2>4. Cat(Cat(front, compactions), last) = Cat(front, Cat(compactions, last))
    BY <2>1, <2>2, CatAssociates
  <2>5. QED BY <2>2, <2>3, <2>4
<1>4. UNCHANGED compactions => Pipeline' = Pipeline
  BY <1>1 DEF Pipeline
<1>5. QED BY <1>1, <1>2, <1>3, <1>4 DEF e

LEMMA RestIdles ==
    ASSUME RunCalls \/ NextTurn \/ Leave \/ (\E t \in Tools : Publish(t) \/ Return(t)) \/ UNCHANGED vars
    PROVE  Pipeline' = Pipeline /\ UNCHANGED <<said, turn>>
BY DEF RunCalls, NextTurn, Leave, Publish, Return, vars, stages, provider, sinks, Pipeline

\* The events NothingElseChanges compares, as the client has them and as the
\* provider says them.
Provided == {e \in Events : e.kind \notin {"compaction", "invalidation"}}
Shown == {e \in Events : Forward \/ e.kind # "thought"}

SaidInPlace == Sift(Pipeline, Provided) = Sift(said, Shown)

LEMMA ProvidedAre ==
    /\ \A e \in Produced : e \in Provided
    /\ \A e \in Produced : e \in Shown <=> ~Withheld(e)
    /\ Compactions \intersect Provided = {}
    /\ Aside \intersect Provided = {}
<1>1. Produced \subseteq Events
  BY DEF Produced, Event, Events, Kinds
<1>2. \A e \in Produced : e.kind \notin {"compaction", "invalidation"}
  BY KindTells
<1>3. Compactions \intersect Provided = {} /\ Invalidations \intersect Provided = {}
  BY KindTells DEF Provided
<1>4. Nothing \notin Provided
  BY KindTells DEF Provided, Events, Kinds
<1>5. QED BY <1>1, <1>2, <1>3, <1>4 DEF Provided, Shown, Withheld, Aside

LEMMA AsideSifted ==
    ASSUME NEW a \in Seq(Elem), NEW b \in Seq(Elem), NEW c \in Seq(Aside)
    PROVE  Sift(Cat(a, Cat(c, b)), Provided) = Sift(Cat(a, b), Provided)
<1>1. c \in Seq(Elem) /\ Sift(c, Provided) = <<>>
  BY AsideType, ProvidedAre, SiftNothing
<1>2. Cat(c, b) \in Seq(Elem) /\ Sift(b, Provided) \in Seq(Elem)
  BY <1>1, CatType, SiftType
<1>3. /\ Sift(Cat(a, b), Provided) = Cat(Sift(a, Provided), Sift(b, Provided))
      /\ Sift(Cat(c, b), Provided) = Cat(Sift(c, Provided), Sift(b, Provided))
      /\ Sift(Cat(a, Cat(c, b)), Provided) = Cat(Sift(a, Provided), Sift(Cat(c, b), Provided))
  BY <1>1, <1>2, SiftTogether
<1>4. Cat(<<>>, Sift(b, Provided)) = Sift(b, Provided)
  BY <1>2, CatNothing
<1>5. QED BY <1>1, <1>3, <1>4

LEMMA SaidAside == ASSUME SaidInPlace, PutAside, UNCHANGED <<said, setup>> PROVE SaidInPlace'
<1>1. Provided' = Provided /\ Shown' = Shown
  BY DEF Provided, Shown, Forward
<1>2. Sift(Pipeline', Provided) = Sift(Pipeline, Provided)
  BY AsideSifted DEF PutAside
<1>3. Sift(Pipeline, Provided)' = Sift(Pipeline', Provided) /\ Sift(said, Shown)' = Sift(said, Shown)
  BY <1>1 DEF Sift
<1>4. QED BY <1>2, <1>3 DEF SaidInPlace

LEMMA SaidProduced ==
    ASSUME Typed, SaidInPlace, NEW e \in Produced, Produce(e), UNCHANGED setup
    PROVE  SaidInPlace'
<1>1. Provided' = Provided /\ Shown' = Shown
  BY DEF Provided, Shown, Forward
<1>2. said \in Seq(Produced) /\ Pipeline \in Seq(Elem) /\ e \in Elem
  BY PipelineParts DEF Typed, SequencesTyped, Elem, Inner
<1>3. Sift(said', Shown) = IF Withheld(e) THEN Sift(said, Shown) ELSE Append(Sift(said, Shown), e)
  <2>1. Sift(Append(said, e), Shown) = IF e \in Shown THEN Append(Sift(said, Shown), e) ELSE Sift(said, Shown)
    BY <1>2, SiftMore
  <2>2. QED BY <2>1, ProduceAdds, ProvidedAre
<1>4. ~Withheld(e) => Sift(Pipeline', Provided) = Append(Sift(Pipeline, Provided), e)
  <2>1. Sift(Append(Pipeline, e), Provided)
          = IF e \in Provided THEN Append(Sift(Pipeline, Provided), e) ELSE Sift(Pipeline, Provided)
    BY <1>2, SiftMore
  <2>2. QED BY <2>1, ProduceAdds, ProvidedAre
<1>5. Withheld(e) => Sift(Pipeline', Provided) = Sift(Pipeline, Provided)
  BY ProduceAdds
<1>6. Sift(Pipeline, Provided)' = Sift(Pipeline', Provided) /\ Sift(said, Shown)' = Sift(said', Shown)
  BY <1>1 DEF Sift
<1>7. QED BY <1>3, <1>4, <1>5, <1>6 DEF SaidInPlace

LEMMA SaidAmongProvider ==
    ASSUME Typed, SaidInPlace, Provider, UNCHANGED setup PROVE SaidInPlace'
<1>1. CASE \E e \in Produced : Produce(e)
  BY <1>1, SaidProduced
<1>2. ASSUME NEW e \in Compactions \union {Nothing}, Pipeline' = Append(Pipeline, e), UNCHANGED said
      PROVE  SaidInPlace'
  <2>1. e \in Elem /\ e \notin Provided /\ Pipeline \in Seq(Elem)
    BY PipelineParts, ProvidedAre DEF Elem, Inner, Aside
  <2>2. Sift(Append(Pipeline, e), Provided)
          = IF e \in Provided THEN Append(Sift(Pipeline, Provided), e) ELSE Sift(Pipeline, Provided)
    BY <2>1, SiftMore
  <2>3. Provided' = Provided /\ Shown' = Shown
    BY DEF Provided, Shown, Forward
  <2>4. Sift(Pipeline, Provided)' = Sift(Pipeline', Provided) /\ Sift(said, Shown)' = Sift(said, Shown)
    BY <1>2, <2>3 DEF Sift
  <2>5. QED BY <1>2, <2>1, <2>2, <2>4 DEF SaidInPlace
<1>3. CASE Pipeline' = Pipeline /\ UNCHANGED said
  BY <1>3, SamePipeline, SaidAside
<1>4. CASE Request
  BY <1>2, <1>3, <1>4, RequestAdds
<1>5. CASE Exhaust
  BY <1>2, <1>5, ExhaustAdds
<1>6. CASE Think \/ Reply \/ Finish
  BY <1>1, <1>6, ProducedType DEF Think, Reply, Finish
<1>7. CASE RunCalls \/ NextTurn
  BY <1>3, <1>7, RestIdles
<1>8. CASE \E t \in Tools : StartCall(t) \/ Report(t)
  BY <1>1, <1>8, ProducedType DEF StartCall, Report
<1>9. QED BY <1>4, <1>5, <1>6, <1>7, <1>8 DEF Provider

LEMMA SaidKept == Typed /\ SaidInPlace /\ [Next]_vars => SaidInPlace'
<1> SUFFICES ASSUME Typed, SaidInPlace, [Next]_vars PROVE SaidInPlace'
  OBVIOUS
<1>1. UNCHANGED setup
  BY DEF Next, vars
<1>2. CASE Stages
  <2>1. UNCHANGED said
    BY <1>2 DEF Stages, Pull, Ask, Copy, Clear, Deliver, Ended
  <2>2. QED BY <1>1, <1>2, <2>1, StagesPutAside, SaidAside
<1>3. CASE Provider
  BY <1>1, <1>3, SaidAmongProvider
<1>4. CASE Leave \/ (\E t \in Tools : Publish(t) \/ Return(t)) \/ UNCHANGED vars
  <2>1. Pipeline' = Pipeline /\ UNCHANGED said
    BY <1>4, RestIdles
  <2>2. QED BY <1>1, <2>1, SamePipeline, SaidAside
<1>5. QED BY <1>2, <1>3, <1>4 DEF Next, Over

LEMMA SaidMeans == Typed /\ SaidInPlace => NothingElseChanges
<1> SUFFICES ASSUME Typed, SaidInPlace PROVE NothingElseChanges
  OBVIOUS
<1>1. /\ out \in Seq(Elem) /\ outer \in Seq(Elem) /\ inner \in Seq(Elem) /\ compactions \in Seq(Elem)
      /\ compactions \in Seq(Compactions)
  BY PipelineParts DEF Typed, SequencesTyped
<1>2. Sift(compactions, Provided) = <<>>
  BY <1>1, ProvidedAre, SiftNothing
<1> DEFINE front == Cat(Cat(out, outer), inner)
<1>3. /\ Cat(out, outer) \in Seq(Elem) /\ front \in Seq(Elem)
      /\ Sift(front, Provided) \in Seq(Elem)
  BY <1>1, CatType, SiftType
<1>4. Sift(Pipeline, Provided) = Cat(Sift(front, Provided), Sift(compactions, Provided))
  BY <1>1, <1>3, SiftTogether DEF Pipeline
<1>5. Sift(front, Provided) = Cat(Cat(Sift(out, Provided), Sift(outer, Provided)), Sift(inner, Provided))
  <2>1. Sift(front, Provided) = Cat(Sift(Cat(out, outer), Provided), Sift(inner, Provided))
    BY <1>1, <1>3, SiftTogether
  <2>2. Sift(Cat(out, outer), Provided) = Cat(Sift(out, Provided), Sift(outer, Provided))
    BY <1>1, SiftTogether
  <2>3. QED BY <2>1, <2>2
<1>6. Cat(Sift(front, Provided), <<>>) = Sift(front, Provided)
  BY <1>3, CatNothing
<1>7. Cat(Cat(Sift(out, Provided), Sift(outer, Provided)), Sift(inner, Provided)) = Sift(said, Shown)
  BY <1>2, <1>4, <1>5, <1>6 DEF SaidInPlace
<1>8. QED BY <1>7 DEF NothingElseChanges, Provided, Shown, Cat

\* CompactionAboveItsTurn, of any sequence.
Above(s) ==
    \A i, j \in DOMAIN s :
        s[i].kind = "compaction" /\ s[j].kind \in {"thought", "text"} => (i < j <=> s[i].of <= s[j].of)

OfATurn == {"compaction", "thought", "text"}

(* An event comes last if it is of the newest turn, and a compaction if    *)
(* nothing of its turn has been before.                                    *)
LEMMA AboveMore ==
    ASSUME NEW s \in Seq(Elem), NEW e \in Elem, Above(s),
           \A x \in ToSet(s) : e.kind \in {"thought", "text"} /\ x.kind = "compaction" => x.of <= e.of,
           \A x \in ToSet(s) : e.kind = "compaction" /\ x.kind \in {"thought", "text"} => ~(e.of <= x.of)
    PROVE  Above(Append(s, e))
<1> DEFINE r == Append(s, e)
<1>1. /\ Len(s) \in Nat /\ DOMAIN s = 1 .. Len(s) /\ DOMAIN r = 1 .. Len(s) + 1
      /\ \A i \in 1 .. Len(s) : r[i] = s[i]
      /\ r[Len(s) + 1] = e
  BY AppendProperties, LenProperties
<1>2. \A i \in 1 .. Len(s) : s[i] \in ToSet(s)
  BY <1>1 DEF ToSet
<1> HIDE DEF r
<1> SUFFICES ASSUME NEW i \in 1 .. Len(s) + 1, NEW j \in 1 .. Len(s) + 1,
                    r[i].kind = "compaction", r[j].kind \in {"thought", "text"}
             PROVE  i < j <=> r[i].of <= r[j].of
  BY <1>1 DEF Above, r
<1>3. CASE i \in 1 .. Len(s) /\ j \in 1 .. Len(s)
  BY <1>1, <1>3 DEF Above
<1>4. CASE i \in 1 .. Len(s) /\ j = Len(s) + 1
  <2>1. r[i] = s[i] /\ r[j] = e /\ s[i] \in ToSet(s)
    BY <1>1, <1>2, <1>4
  <2>2. r[i].of <= r[j].of
    BY <2>1
  <2>3. i < j
    BY <1>1, <1>4
  <2>4. QED BY <2>2, <2>3
<1>5. CASE i = Len(s) + 1 /\ j \in 1 .. Len(s)
  <2>1. r[i] = e /\ r[j] = s[j] /\ s[j] \in ToSet(s)
    BY <1>1, <1>2, <1>5
  <2>2. ~(r[i].of <= r[j].of)
    BY <2>1
  <2>3. ~(i < j)
    BY <1>1, <1>5
  <2>4. QED BY <2>2, <2>3
<1>6. CASE i = Len(s) + 1 /\ j = Len(s) + 1
  BY <1>1, <1>6
<1>7. QED BY <1>1, <1>3, <1>4, <1>5, <1>6

LEMMA AboveFirst ==
    ASSUME NEW s \in Seq(Elem), NEW t \in Seq(Elem), Above(Cat(s, t))
    PROVE  Above(s)
<1> DEFINE r == Cat(s, t)
<1>1. /\ Len(s) \in Nat /\ Len(t) \in Nat /\ DOMAIN s = 1 .. Len(s) /\ DOMAIN r = 1 .. Len(s) + Len(t)
      /\ \A i \in 1 .. Len(s) + Len(t) : r[i] = IF i <= Len(s) THEN s[i] ELSE t[i - Len(s)]
  BY ConcatProperties, LenProperties DEF Cat
<1> HIDE DEF r
<1>2. \A i \in DOMAIN s : i \in DOMAIN r /\ r[i] = s[i]
  BY <1>1
<1>3. Above(r)
  BY DEF r
<1>4. QED BY <1>2, <1>3 DEF Above

(* What is put aside changes no order of the rest.                         *)
LEMMA AboveAside ==
    ASSUME NEW a \in Seq(Elem), NEW b \in Seq(Elem), NEW c \in Seq(Aside)
    PROVE  Above(Cat(a, b)) <=> Above(Cat(a, Cat(c, b)))
<1> DEFINE r == Cat(a, b)
           q == Cat(a, Cat(c, b))
           k == Len(a)
           m == Len(c)
           n == Len(b)
<1>1. /\ k \in Nat /\ n \in Nat /\ DOMAIN r = 1 .. k + n
      /\ \A i \in 1 .. k + n : r[i] = IF i <= k THEN a[i] ELSE b[i - k]
  BY ConcatProperties, LenProperties DEF Cat
<1>2. c \in Seq(Elem)
  BY AsideType
<1>3. /\ m \in Nat /\ Cat(c, b) \in Seq(Elem) /\ Len(Cat(c, b)) = m + n
      /\ \A i \in 1 .. m + n : Cat(c, b)[i] = IF i <= m THEN c[i] ELSE b[i - m]
  BY <1>2, ConcatProperties, LenProperties DEF Cat
<1>4. /\ DOMAIN q = 1 .. k + (m + n)
      /\ \A i \in 1 .. k + (m + n) : q[i] = IF i <= k THEN a[i] ELSE Cat(c, b)[i - k]
  <2> DEFINE d == Cat(c, b)
  <2>1. d \in Seq(Elem) /\ Len(d) = m + n /\ m + n \in Nat
    BY <1>1, <1>3
  <2> HIDE DEF d, m, n
  <2>2. Len(a \o d) = k + (m + n) /\ k \in Nat /\ DOMAIN (a \o d) = 1 .. Len(a \o d)
    BY <2>1, ConcatProperties, LenProperties
  <2>3. \A i \in 1 .. k + (m + n) : (a \o d)[i] = IF i <= k THEN a[i] ELSE d[i - k]
    BY <2>1, ConcatProperties
  <2>4. q = a \o d
    BY DEF d, Cat
  <2>5. QED BY <2>2, <2>3, <2>4 DEF d
<1>5. \A i \in 1 .. m : c[i].kind \notin OfATurn
  <2>1. \A x \in Aside : x.kind \notin OfATurn
    BY KindTells DEF Aside, OfATurn
  <2>2. QED BY <2>1, ElementOfSeq
<1> HIDE DEF r, q, k, m, n
<1>6. /\ \A i \in 1 .. k : i \in DOMAIN q /\ i \in DOMAIN r /\ q[i] = r[i]
      /\ \A i \in k + 1 .. k + n : i + m \in DOMAIN q /\ i \in DOMAIN r /\ q[i + m] = r[i]
      /\ \A i \in k + 1 .. k + m : q[i].kind \notin OfATurn
  <2>1. ASSUME NEW i \in 1 .. k PROVE i \in DOMAIN q /\ i \in DOMAIN r /\ q[i] = r[i]
    BY <1>1, <1>3, <1>4
  <2>2. ASSUME NEW i \in k + 1 .. k + n PROVE i + m \in DOMAIN q /\ i \in DOMAIN r /\ q[i + m] = r[i]
    <3>1. i - k \in 1 .. n /\ i \in 1 .. k + n /\ ~(i <= k)
      BY <1>1
    <3>2. i + m \in 1 .. k + (m + n) /\ ~(i + m <= k) /\ (i + m) - k \in 1 .. m + n
          /\ ~((i + m) - k <= m) /\ ((i + m) - k) - m = i - k
      BY <1>1, <1>3
    <3>3. r[i] = b[i - k]
      BY <1>1, <3>1
    <3>4. q[i + m] = Cat(c, b)[(i + m) - k]
      BY <1>4, <3>2
    <3>5. Cat(c, b)[(i + m) - k] = b[((i + m) - k) - m]
      BY <1>3, <3>2
    <3>6. QED BY <1>1, <1>4, <3>1, <3>2, <3>3, <3>4, <3>5
  <2>3. ASSUME NEW i \in k + 1 .. k + m PROVE q[i].kind \notin OfATurn
    <3>1. i - k \in 1 .. m /\ i - k \in 1 .. m + n /\ i \in 1 .. k + (m + n) /\ ~(i <= k)
      BY <1>1, <1>3
    <3>2. q[i] = c[i - k]
      BY <1>3, <1>4, <3>1
    <3>3. QED BY <1>5, <3>1, <3>2
  <2>4. QED BY <2>1, <2>2, <2>3
<1>7. DOMAIN r = 1 .. k + n /\ DOMAIN q = 1 .. k + (m + n) /\ k \in Nat /\ m \in Nat /\ n \in Nat
  BY <1>1, <1>3, <1>4
<1>8. ASSUME Above(r), NEW i \in DOMAIN q, NEW j \in DOMAIN q,
             q[i].kind = "compaction", q[j].kind \in {"thought", "text"}
      PROVE  i < j <=> q[i].of <= q[j].of
  <2> DEFINE back(x) == IF x <= k THEN x ELSE x - m
  <2>1. ASSUME NEW x \in DOMAIN q, q[x].kind \in OfATurn
        PROVE  back(x) \in DOMAIN r /\ r[back(x)] = q[x] /\ (x <= k \/ x > k + m)
    <3>1. CASE x <= k
      BY <1>6, <1>7, <3>1
    <3>2. CASE x > k
      <4>1. x \notin k + 1 .. k + m
        BY <1>6, <2>1
      <4>2. x - m \in k + 1 .. k + n /\ (x - m) + m = x /\ x > k + m
        BY <1>7, <3>2, <4>1
      <4>3. QED BY <1>6, <1>7, <3>2, <4>2
    <3>3. QED BY <1>7, <3>1, <3>2
  <2>2. back(i) \in DOMAIN r /\ r[back(i)] = q[i] /\ (i <= k \/ i > k + m)
    BY <1>8, <2>1 DEF OfATurn
  <2>3. back(j) \in DOMAIN r /\ r[back(j)] = q[j] /\ (j <= k \/ j > k + m)
    BY <1>8, <2>1 DEF OfATurn
  <2>4. i < j <=> back(i) < back(j)
    BY <1>7, <2>2, <2>3
  <2> HIDE DEF back
  <2>5. back(i) < back(j) <=> r[back(i)].of <= r[back(j)].of
    BY <1>8, <2>2, <2>3 DEF Above
  <2>6. QED BY <2>2, <2>3, <2>4, <2>5
<1>9. ASSUME Above(q), NEW i \in DOMAIN r, NEW j \in DOMAIN r,
             r[i].kind = "compaction", r[j].kind \in {"thought", "text"}
      PROVE  i < j <=> r[i].of <= r[j].of
  <2> DEFINE on(x) == IF x <= k THEN x ELSE x + m
  <2>1. \A x \in DOMAIN r : on(x) \in DOMAIN q /\ q[on(x)] = r[x]
    BY <1>6, <1>7
  <2>2. i < j <=> on(i) < on(j)
    BY <1>7
  <2> HIDE DEF on
  <2>3. on(i) < on(j) <=> q[on(i)].of <= q[on(j)].of
    BY <1>9, <2>1 DEF Above
  <2>4. QED BY <2>1, <2>2, <2>3
<1>10. Above(r) <=> Above(q)
  BY <1>8, <1>9 DEF Above
<1>11. QED BY <1>10 DEF r, q

TurnsSoFar == \A x \in ToSet(Pipeline) : x.kind \in OfATurn => x.of \in 0 .. turn

\* The invariant: the provider's events in the order it said them, and the
\* compactions among the events of their turns, none of a turn to come.
PlacesInv == Typed /\ SaidInPlace /\ Above(Pipeline) /\ TurnsSoFar

LEMMA PlacesAside ==
    ASSUME Above(Pipeline), TurnsSoFar, PutAside, UNCHANGED turn
    PROVE  (Above(Pipeline) /\ TurnsSoFar)'
<1>1. PICK a \in Seq(Elem), b \in Seq(Elem), c \in Seq(Aside) :
        \/ Pipeline = Cat(a, b) /\ Pipeline' = Cat(a, Cat(c, b))
        \/ Pipeline = Cat(a, Cat(c, b)) /\ Pipeline' = Cat(a, b)
  BY DEF PutAside
<1>2. Above(Pipeline)'
  <2>1. Above(Pipeline')
    BY <1>1, AboveAside
  <2>2. QED BY <2>1 DEF Above
<1>3. \A x \in Aside : x.kind \notin OfATurn
  BY KindTells DEF Aside, OfATurn
<1>4. ToSet(c) \subseteq Aside
  BY ElementOfSeq, LenProperties DEF ToSet
<1>5. c \in Seq(Elem) /\ Cat(c, b) \in Seq(Elem)
  BY AsideType, CatType
<1>6. ToSet(Cat(a, b)) = ToSet(a) \union ToSet(b)
  BY AmongBoth DEF Cat
<1>7. ToSet(Cat(a, Cat(c, b))) = ToSet(a) \union (ToSet(c) \union ToSet(b))
  <2>1. ToSet(Cat(c, b)) = ToSet(c) \union ToSet(b)
    BY <1>5, AmongBoth DEF Cat
  <2> DEFINE d == Cat(c, b)
  <2>2. d \in Seq(Elem) /\ ToSet(d) = ToSet(c) \union ToSet(b)
    BY <1>5, <2>1
  <2> HIDE DEF d
  <2>3. ToSet(Cat(a, d)) = ToSet(a) \union ToSet(d)
    BY <2>2, AmongBoth DEF Cat
  <2>4. QED BY <2>2, <2>3 DEF d
<1>8. \A x \in ToSet(Pipeline') : x.kind \in OfATurn => x \in ToSet(Pipeline)
  BY <1>1, <1>3, <1>4, <1>6, <1>7
<1>9. TurnsSoFar'
  <2>1. \A x \in ToSet(Pipeline') : x.kind \in OfATurn => x.of \in 0 .. turn
    BY <1>8 DEF TurnsSoFar
  <2>2. ToSet(Pipeline)' = ToSet(Pipeline')
    BY DEF ToSet
  <2>3. QED BY <2>1, <2>2 DEF TurnsSoFar
<1>10. QED BY <1>2, <1>9

(* An event more keeps the places if a compaction is of a turn to come and *)
(* a part of an answer of this one.                                        *)
LEMMA PlacesMore ==
    ASSUME Typed, Above(Pipeline), TurnsSoFar, NEW e \in Elem, Pipeline' = Append(Pipeline, e),
           turn' \in Nat, turn <= turn',
           e.kind \in OfATurn => e.of = turn',
           e.kind = "compaction" => turn < turn'
    PROVE  (Above(Pipeline) /\ TurnsSoFar)'
<1>1. Pipeline \in Seq(Elem) /\ turn \in Nat
  BY PipelineParts, NoticesAssumption DEF Typed, RestTyped
<1>2. \A x \in ToSet(Pipeline) : x.kind \in OfATurn => x.of \in 0 .. turn
  BY DEF TurnsSoFar
<1>3. \A x \in ToSet(Pipeline) : e.kind \in {"thought", "text"} /\ x.kind = "compaction" => x.of <= e.of
  BY <1>1, <1>2 DEF OfATurn
<1>4. \A x \in ToSet(Pipeline) : e.kind = "compaction" /\ x.kind \in {"thought", "text"} => ~(e.of <= x.of)
  BY <1>1, <1>2 DEF OfATurn
<1>5. Above(Append(Pipeline, e))
  BY <1>1, <1>3, <1>4, AboveMore
<1>6. ToSet(Pipeline') = ToSet(Pipeline) \union {e}
  BY <1>1, AmongMore
<1>7. \A x \in ToSet(Pipeline') : x.kind \in OfATurn => x.of \in 0 .. turn'
  BY <1>1, <1>2, <1>6
<1>8. Above(Pipeline)' /\ ToSet(Pipeline)' = ToSet(Pipeline')
  BY <1>5 DEF Above, ToSet
<1>9. QED BY <1>7, <1>8 DEF TurnsSoFar

LEMMA PlacesAmongProvider ==
    ASSUME Typed, Above(Pipeline), TurnsSoFar, Provider, UNCHANGED setup
    PROVE  (Above(Pipeline) /\ TurnsSoFar)'
<1>0. turn \in Nat /\ turn + 1 \in Nat
  BY NoticesAssumption DEF Typed, RestTyped
<1>1. CASE Pipeline' = Pipeline /\ UNCHANGED turn
  BY <1>1, SamePipeline, PlacesAside
<1>2. ASSUME NEW e \in Produced, Produce(e), UNCHANGED turn, e.kind \in OfATurn => e.of = turn
      PROVE  (Above(Pipeline) /\ TurnsSoFar)'
  <2>1. e \in Elem /\ e.kind # "compaction"
    BY KindTells DEF Elem, Inner
  <2>2. Pipeline' = Pipeline \/ Pipeline' = Append(Pipeline, e)
    BY <1>2, ProduceAdds
  <2>3. turn' \in Nat /\ turn <= turn' /\ (e.kind \in OfATurn => e.of = turn')
    BY <1>0, <1>2
  <2>4. QED BY <1>1, <1>2, <2>1, <2>2, <2>3, PlacesMore
<1>3. CASE Request
  <2>1. turn' = turn + 1 /\ (Pipeline' = Pipeline \/ Pipeline' = Append(Pipeline, Event("compaction", turn + 1)))
        /\ Event("compaction", turn + 1) \in Elem
    BY <1>3, RequestAdds DEF Elem, Inner
  <2> DEFINE e == Event("compaction", turn + 1)
  <2>2. e.of = turn + 1 /\ e \in Elem
    BY <2>1 DEF Event
  <2> HIDE DEF e
  <2>3. CASE Pipeline' = Append(Pipeline, e)
    BY <1>0, <2>1, <2>2, <2>3, PlacesMore
  <2>4. CASE Pipeline' = Pipeline
    <3>1. Above(Pipeline)' /\ ToSet(Pipeline)' = ToSet(Pipeline)
      BY <2>4 DEF Above, ToSet
    <3>2. 0 .. turn \subseteq 0 .. turn'
      BY <1>0, <2>1
    <3>3. QED BY <3>1, <3>2 DEF TurnsSoFar
  <2>5. QED BY <2>1, <2>3, <2>4 DEF e
<1>4. CASE Exhaust
  <2>1. Nothing \in Elem /\ Nothing.kind \notin OfATurn
    BY KindTells DEF Elem, Inner, OfATurn
  <2>2. Pipeline' = Append(Pipeline, Nothing) /\ turn' = turn
    BY <1>4, ExhaustAdds
  <2>3. QED BY <1>0, <2>1, <2>2, PlacesMore DEF OfATurn
<1>5. CASE Think \/ Reply \/ Finish
  <2>1. PICK k \in {"thought", "text", "finish"} : Produce(Event(k, turn)) /\ UNCHANGED turn
    BY <1>5 DEF Think, Reply, Finish
  <2>2. Event(k, turn) \in Produced /\ Event(k, turn).of = turn
    BY ProducedType DEF Event
  <2>3. QED BY <1>2, <2>1, <2>2
<1>6. CASE RunCalls \/ NextTurn
  BY <1>1, <1>6, RestIdles
<1>7. CASE \E t \in Tools : StartCall(t) \/ Report(t)
  <2>1. PICK k \in {"start", "result"}, t \in Tools : Produce(Event(k, t)) /\ UNCHANGED turn
    BY <1>7 DEF StartCall, Report
  <2>2. Event(k, t) \in Produced /\ Event(k, t).kind \notin OfATurn
    BY ProducedType DEF Event, OfATurn
  <2>3. QED BY <1>2, <2>1, <2>2
<1>8. QED BY <1>3, <1>4, <1>5, <1>6, <1>7 DEF Provider

LEMMA PlacesKept == PlacesInv /\ [Next]_vars => PlacesInv'
<1> SUFFICES ASSUME PlacesInv, [Next]_vars PROVE (Above(Pipeline) /\ TurnsSoFar)'
  BY TypedKept, SaidKept DEF PlacesInv
<1>0. Typed /\ Above(Pipeline) /\ TurnsSoFar
  BY DEF PlacesInv
<1>1. UNCHANGED setup
  BY DEF Next, vars
<1>2. CASE Stages
  <2>1. UNCHANGED turn
    BY <1>2 DEF Stages, Pull, Ask, Copy, Clear, Deliver, Ended, provider
  <2>2. QED BY <1>0, <1>2, <2>1, StagesPutAside, PlacesAside
<1>3. CASE Provider
  BY <1>0, <1>1, <1>3, PlacesAmongProvider
<1>4. CASE Leave \/ (\E t \in Tools : Publish(t) \/ Return(t)) \/ UNCHANGED vars
  BY <1>0, <1>4, RestIdles, SamePipeline, PlacesAside
<1>5. QED BY <1>2, <1>3, <1>4 DEF Next, Over

LEMMA PlacesStart == Init => PlacesInv
<1> SUFFICES ASSUME Init PROVE PlacesInv
  OBVIOUS
<1>1. out = <<>> /\ outer = <<>> /\ inner = <<>> /\ compactions = <<>> /\ said = <<>>
  BY DEF Init
<1>2. Pipeline = <<>>
  <2>1. <<>> \in Seq(Elem)
    BY EmptySeq
  <2>2. QED BY <1>1, <2>1, CatNothing DEF Pipeline
<1>3. SaidInPlace
  BY <1>1, <1>2, SiftNone DEF SaidInPlace
<1>4. Above(Pipeline) /\ TurnsSoFar
  <2>1. DOMAIN Pipeline = {} /\ ToSet(Pipeline) = {}
    BY <1>2, AmongNone
  <2>2. QED BY <2>1 DEF Above, TurnsSoFar
<1>5. QED BY <1>3, <1>4, TypedStart DEF PlacesInv

LEMMA PlacesMean == PlacesInv => NoticesInPlace
<1> SUFFICES ASSUME PlacesInv PROVE NoticesInPlace
  OBVIOUS
<1>1. /\ out \in Seq(Elem) /\ outer \in Seq(Elem) /\ inner \in Seq(Elem) /\ compactions \in Seq(Elem)
  BY PipelineParts DEF PlacesInv
<1>2. Pipeline = Cat(out, Cat(outer, Cat(inner, compactions))) /\ Cat(outer, Cat(inner, compactions)) \in Seq(Elem)
  BY <1>1, CatType, CatAssociates DEF Pipeline
<1>3. Above(out)
  BY <1>1, <1>2, AboveFirst DEF PlacesInv
<1>4. CompactionAboveItsTurn
  BY <1>3 DEF Above, CompactionAboveItsTurn
<1>5. QED BY <1>4, TypedIsTypeOK, SaidMeans DEF PlacesInv, NoticesInPlace

(* NoticesInPlace: what a run says of its own stands where it belongs,     *)
(* whatever the threads of the tools do.  The client has the provider's    *)
(* events as they were produced, none skipped, repeated or moved, its      *)
(* thoughts if they are forwarded, and each compaction after all of the    *)
(* turns before and ahead of the turn it shortened the history for.        *)
THEOREM NoticesStandInPlace == MCSpec => []NoticesInPlace
<1>1. MCInit => PlacesInv
  BY PlacesStart DEF MCInit
<1>2. PlacesInv /\ [MCNext]_<<part, vars, activityVars, contextVars>> => PlacesInv'
  <2>1. [MCNext]_<<part, vars, activityVars, contextVars>> => [Next]_vars
    BY DEF MCNext
  <2>2. QED BY <2>1, PlacesKept
<1>3. QED BY <1>1, <1>2, PlacesMean, PTL DEF MCSpec

-----------------------------------------------------------------------------
(* Charts and suggestions.                                                 *)

Numbers == {1, 2, 99}
Keys == {"kind", "labels", "title"}

Specs == [labels : Nat, series : Seq(Seq(Numbers)), title : BOOLEAN, metadata : SUBSET Keys]

\* What may be under way.
Snapshots == {[event |-> "snapshot", content |-> Charts!AsContent(spec)] :
                 spec \in {s \in Drawn : Charts!Valid(s)}}
Deltas == {[event |-> "delta", index |-> m.index, points |-> m.points] : m \in Moved}
Chips == {[event |-> "suggestions", prompts |-> Charts!Stripped(p)] :
             p \in {q \in SeqOf(Prompts, 3) : Charts!Fitting(q)}}
Pushes == Snapshots \union Deltas \union Chips

LEMMA SeriesAre ==
      /\ <<>> \in Seq(Numbers) /\ <<1>> \in Seq(Numbers) /\ <<2>> \in Seq(Numbers) /\ <<99>> \in Seq(Numbers)
      /\ <<2, 1>> \in Seq(Numbers) /\ <<1, 2>> \in Seq(Numbers) /\ <<1, 1>> \in Seq(Numbers)
      /\ <<2, 2>> \in Seq(Numbers) /\ <<1, 1, 1>> \in Seq(Numbers)
<1>1. 1 \in Numbers /\ 2 \in Numbers /\ 99 \in Numbers
  BY DEF Numbers
<1>2. \A a, b, c \in Numbers : <<a>> \in Seq(Numbers) /\ <<a, b>> \in Seq(Numbers) /\ <<a, b, c>> \in Seq(Numbers)
  OBVIOUS
<1>3. <<>> \in Seq(Numbers)
  BY EmptySeq
<1>4. QED BY <1>1, <1>2, <1>3

LEMMA DrawnAreSpecs == Drawn \subseteq Specs
<1>1. /\ <<>> \in Seq(Numbers) /\ <<1>> \in Seq(Numbers) /\ <<2>> \in Seq(Numbers) /\ <<99>> \in Seq(Numbers)
      /\ <<2, 1>> \in Seq(Numbers) /\ <<1, 2>> \in Seq(Numbers) /\ <<1, 1>> \in Seq(Numbers)
      /\ <<2, 2>> \in Seq(Numbers) /\ <<1, 1, 1>> \in Seq(Numbers)
  BY SeriesAre
<1> DEFINE Sq == Seq(Numbers)
<1>2. /\ <<<<1>>>> \in Seq(Sq) /\ <<<<2, 1>>>> \in Seq(Sq) /\ <<<<1>>, <<2>>>> \in Seq(Sq)
      /\ <<<<>>>> \in Seq(Sq) /\ <<>> \in Seq(Sq) /\ <<<<1, 1, 1>>>> \in Seq(Sq)
      /\ <<<<1, 1>>, <<2, 2>>>> \in Seq(Sq) /\ <<<<1, 2>>, <<1>>>> \in Seq(Sq) /\ <<<<99>>>> \in Seq(Sq)
  <2>1. \A t, u \in Sq : <<t>> \in Seq(Sq) /\ <<t, u>> \in Seq(Sq)
    OBVIOUS
  <2>2. /\ <<>> \in Sq /\ <<1>> \in Sq /\ <<2>> \in Sq /\ <<99>> \in Sq
        /\ <<2, 1>> \in Sq /\ <<1, 2>> \in Sq /\ <<1, 1>> \in Sq
        /\ <<2, 2>> \in Sq /\ <<1, 1, 1>> \in Sq
    BY <1>1
  <2> HIDE DEF Sq
  <2>3. <<>> \in Seq(Sq)
    BY EmptySeq
  <2>4. QED BY <2>1, <2>2, <2>3
<1> HIDE DEF Sq
<1>3. \A l \in Nat, ss \in Seq(Sq) : Shape(l, ss) \in [labels : Nat, series : Seq(Sq), title : BOOLEAN, metadata : SUBSET Keys]
  BY DEF Shape
<1>4. \A s \in [labels : Nat, series : Seq(Sq), title : BOOLEAN, metadata : SUBSET Keys] :
         /\ [s EXCEPT !.title = TRUE] \in [labels : Nat, series : Seq(Sq), title : BOOLEAN, metadata : SUBSET Keys]
         /\ \A m \in SUBSET Keys : [s EXCEPT !.metadata = m] \in [labels : Nat, series : Seq(Sq), title : BOOLEAN, metadata : SUBSET Keys]
  OBVIOUS
<1> DEFINE R == [labels : Nat, series : Seq(Sq), title : BOOLEAN, metadata : SUBSET Keys]
<1>5. /\ Shape(1, <<<<1>>>>) \in R /\ Shape(2, <<<<2, 1>>>>) \in R /\ Shape(1, <<<<1>>, <<2>>>>) \in R
      /\ Shape(0, <<<<>>>>) \in R /\ Shape(1, <<>>) \in R /\ Shape(3, <<<<1, 1, 1>>>>) \in R
      /\ Shape(2, <<<<1, 1>>, <<2, 2>>>>) \in R /\ Shape(2, <<<<1, 2>>, <<1>>>>) \in R
      /\ Shape(1, <<<<99>>>>) \in R
  BY <1>2, <1>3
<1>6. /\ [Shape(1, <<<<1>>>>) EXCEPT !.title = TRUE] \in R
      /\ [Shape(2, <<<<2, 1>>>>) EXCEPT !.metadata = {"kind", "labels", "title"}] \in R
  <2> DEFINE a == Shape(1, <<<<1>>>>)
             b == Shape(2, <<<<2, 1>>>>)
  <2>1. a \in R /\ b \in R
    BY <1>5
  <2> HIDE DEF a, b, R
  <2>2. \A s \in R : [s EXCEPT !.title = TRUE] \in R
    BY <1>4 DEF R
  <2>3. \A s \in R : [s EXCEPT !.metadata = {"kind", "labels", "title"}] \in R
    <3>1. {"kind", "labels", "title"} \in SUBSET Keys
      BY DEF Keys
    <3>2. QED BY <1>4, <3>1 DEF R
  <2>4. [a EXCEPT !.title = TRUE] \in R /\ [b EXCEPT !.metadata = {"kind", "labels", "title"}] \in R
    BY <2>1, <2>2, <2>3
  <2>5. QED BY <2>4 DEF a, b
<1> HIDE DEF R
<1>7. Drawn \subseteq R
  BY <1>5, <1>6 DEF Drawn
<1>8. QED BY <1>7 DEF Specs, Sq, R

(* The module's own copies of two operators are these.                     *)
LEMMA ChartsUse ==
    /\ \A s : Charts!ToSet(s) = ToSet(s)
    /\ \A s : Charts!FlattenSeq(s) = FlattenSeq(s)
<1>1. \A s : Charts!ToSet(s) = ToSet(s)
  BY DEF Charts!ToSet, ToSet
<1>2. \A s : Charts!FlattenSeq(s) = FlattenSeq(s)
  BY DEF Charts!FlattenSeq, FlattenSeq
<1>3. QED BY <1>1, <1>2

LEMMA MovedAre == \A m \in Moved : m.index \in Nat /\ m.points \in Seq(Numbers)
<1> SUFFICES ASSUME NEW m \in Moved PROVE m.index \in Nat /\ m.points \in Seq(Numbers)
  OBVIOUS
<1> DEFINE P == {<<>>, <<1>>, <<2>>, <<1, 2>>, <<99>>}
<1>1. m.index \in 0 .. 3 /\ m.points \in P
  BY DEF Moved
<1>2. P \subseteq Seq(Numbers)
  BY SeriesAre
<1> HIDE DEF P
<1>3. QED BY <1>1, <1>2

\* A spec that every check has let through.
Sound(spec) ==
    /\ spec \in Specs
    /\ spec.labels \in 1 .. 2
    /\ spec.series \in Seq(Seq({1, 2})) /\ spec.series # <<>>
    /\ spec.labels * Len(spec.series) <= 3
    /\ \A s \in ToSet(spec.series) : Len(s) = spec.labels

\* A chart a client may hold is the one of a spec.
Shows(chart, spec) ==
    /\ {"labels", "series", "kind"} \subseteq DOMAIN chart
    /\ chart.labels = spec.labels /\ chart.series = spec.series
    /\ chart.kind = "ours"
    /\ "title" \in DOMAIN chart <=> spec.title

LEMMA ValidIsSound ==
    ASSUME NEW spec \in Drawn, Charts!Valid(spec)
    PROVE  Sound(spec) /\ Shows(Charts!AsContent(spec), spec)
<1>1. spec \in Specs
  BY DrawnAreSpecs
<1> DEFINE ss == spec.series
<1>2. /\ ss \in Seq(Seq(Numbers)) /\ ss # <<>> /\ spec.labels \in 1 .. 2
      /\ spec.labels * Len(ss) <= 3
      /\ \A t \in ToSet(ss) : Len(t) = spec.labels /\ 99 \notin ToSet(t)
  BY <1>1, ChartsUse DEF Specs, Charts!Valid, Charts!ValidPoints
<1>3. ss \in Seq(Seq({1, 2}))
  <2> HIDE DEF ss
  <2>1. \A i \in 1 .. Len(ss) : ss[i] \in Seq(Numbers) /\ ss[i] \in ToSet(ss)
    BY <1>2, ElementOfSeq, LenProperties DEF ToSet
  <2>2. ASSUME NEW t \in Seq(Numbers), 99 \notin ToSet(t) PROVE t \in Seq({1, 2})
    <3>1. \A i \in 1 .. Len(t) : t[i] \in Numbers /\ t[i] # 99
      BY <2>2, ElementOfSeq, LenProperties DEF ToSet
    <3>2. \A i \in 1 .. Len(t) : t[i] \in {1, 2}
      BY <3>1 DEF Numbers
    <3>3. QED BY <3>2
  <2>3. \A i \in 1 .. Len(ss) : ss[i] \in Seq({1, 2})
    BY <1>2, <2>1, <2>2
  <2>4. QED BY <1>2, <2>3
<1>31. Sound(spec)
  BY <1>1, <1>2, <1>3 DEF Sound
<1>4. Shows(Charts!AsContent(spec), spec)
  BY <1>1 DEF Shows, Charts!AsContent, Charts!OwnKeys, Charts!Ours, Specs
<1>5. QED BY <1>31, <1>4

LEMMA SoundIsDrawable ==
    ASSUME NEW spec, Sound(spec), NEW chart, Shows(chart, spec)
    PROVE  Charts!Drawable(chart)
<1>1. chart # Charts!Nothing
  BY DEF Shows, Charts!Nothing
<1> DEFINE n == Len(spec.series)
           k == spec.labels
<1>2. n \in Nat \ {0} /\ k \in {1, 2} /\ k * n <= 3
  BY EmptySeq DEF Sound
<1>3. Len(FlattenSeq(spec.series)) = k * n
  BY <1>2, FlattenEven DEF Sound
<1> HIDE DEF n, k
<1>4. k * n \in 1 .. 3
  BY <1>2
<1>5. Len(FlattenSeq(chart.series)) \in 1 .. 3
  BY <1>3, <1>4 DEF Shows
<1>6. /\ chart.labels \in 1 .. 2 /\ chart.series \in Seq(Seq({1, 2}))
      /\ \A s \in ToSet(chart.series) : Len(s) = chart.labels
  BY DEF Sound, Shows
<1>7. QED BY <1>1, <1>5, <1>6, ChartsUse DEF Charts!Drawable

\* What a client that holds a chart holds once one event more has arrived.
After(chart, e) ==
    IF e.event = "snapshot" THEN e.content
    ELSE IF e.event = "delta" /\ chart # <<>> /\ e.index \in DOMAIN chart.series
    THEN [chart EXCEPT !.series[e.index] = e.points]
    ELSE chart

\* The charts it will hold in turn, while all that is under way arrives.
Replay(h, chart, s) ==
    /\ h[0] = chart
    /\ \A i \in 1 .. Len(s) : h[i] = After(h[i - 1], s[i])

IsSuggestions(e) == e.event = "suggestions"

\* The prompts it will show when all has arrived.
WillOffer ==
    /\ \A i \in DOMAIN pending :
          IsSuggestions(pending[i]) =>
             \/ pending[i].prompts = offered
             \/ \E j \in DOMAIN pending : i < j /\ IsSuggestions(pending[j])
    /\ (\A i \in DOMAIN pending : ~IsSuggestions(pending[i])) => chips = offered

\* When all has arrived, the client holds the numbers the project has.
WillShow ==
    \E h : /\ Replay(h, content, pending)
           /\ declared /\ numbers # <<>> => Shows(h[Len(pending)], numbers)

PushTyped ==
    /\ declared \in BOOLEAN
    /\ pending \in Seq(Pushes) /\ Len(pending) <= 2
    /\ chips \in Seq(Nat) /\ Len(chips) <= 2
    /\ numbers # <<>> => Sound(numbers)
    /\ drawn # <<>> => Charts!Drawable(drawn)
    /\ Charts!Drawable(content) => drawn = content

PushInv == PushTyped /\ WillShow /\ WillOffer

LEMMA PushesAre ==
    /\ \A e \in Snapshots : e.event = "snapshot" /\ Charts!Drawable(e.content)
    /\ \A e \in Deltas : e.event = "delta"
    /\ \A e \in Chips : e.event = "suggestions"
<1>1. ASSUME NEW e \in Snapshots PROVE e.event = "snapshot" /\ Charts!Drawable(e.content)
  <2>1. PICK spec \in Drawn : Charts!Valid(spec) /\ e = [event |-> "snapshot", content |-> Charts!AsContent(spec)]
    BY DEF Snapshots
  <2>2. QED BY <2>1, ValidIsSound, SoundIsDrawable
<1>2. QED BY <1>1 DEF Deltas, Chips

\* Prompts that fit arrive as they were sent.
LEMMA ChipsFit ==
    ASSUME NEW e \in Chips
    PROVE  /\ e.prompts \in Seq(Nat) /\ Len(e.prompts) \in 1 .. 2
           /\ [i \in 1 .. Charts!Min({2, Len(e.prompts)}) |-> Charts!Min({2, e.prompts[i]})] = e.prompts
<1>1. PICK q \in SeqOf(Prompts, 3) : Charts!Fitting(q) /\ e = [event |-> "suggestions", prompts |-> Charts!Stripped(q)]
  BY DEF Chips
<1>2. PICK k \in 0 .. 3 : q \in [1 .. k -> Prompts]
  <2>1. q \in UNION {[1 .. m -> Prompts] : m \in 0 .. 3}
    BY DEF SeqOf
  <2>2. QED BY <2>1
<1> DEFINE p == e.prompts
<1>3. p = [i \in 1 .. k |-> q[i].stripped] /\ Len(q) = k /\ k \in 1 .. 2
  BY <1>1, <1>2 DEF Charts!Stripped, Charts!Fitting
<1>4. \A x \in Prompts : x.stripped \in 0 .. 2 /\ x.raw \in Nat /\ x.stripped <= x.raw
  BY DEF Prompts
<1>5. \A i \in 1 .. k : q[i] \in Prompts /\ q[i] \in ToSet(q)
  BY <1>2 DEF ToSet
<1>6. \A i \in 1 .. k : p[i] \in 1 .. 2
  BY <1>1, <1>3, <1>4, <1>5, ChartsUse DEF Charts!Fitting
<1>7. p \in Seq(Nat) /\ Len(p) = k
  BY <1>3, <1>6
<1>8. \A x \in 0 .. 2 : Charts!Min({2, x}) = x
  BY DEF Charts!Min
<1> HIDE DEF p
<1>9. [i \in 1 .. Charts!Min({2, k}) |-> Charts!Min({2, p[i]})] = [i \in 1 .. k |-> p[i]]
  <2>1. k \in 0 .. 2
    BY <1>3
  <2>3. Charts!Min({2, k}) = k
    BY <1>8, <2>1
  <2>2. \A i \in 1 .. k : Charts!Min({2, p[i]}) = p[i]
    BY <1>6, <1>8
  <2>4. QED BY <2>2, <2>3
<1>10. p = [i \in 1 .. k |-> p[i]]
  BY <1>3
<1>11. QED BY <1>3, <1>7, <1>9, <1>10 DEF p

LEMMA Replays ==
    ASSUME NEW S, NEW h, NEW chart, NEW s \in Seq(S), NEW e \in S, Replay(h, chart, s)
    PROVE  \E g : /\ Replay(g, chart, Append(s, e))
                  /\ g[Len(Append(s, e))] = After(h[Len(s)], e)
<1> DEFINE n == Len(s)
           g == [i \in 0 .. n + 1 |-> IF i = n + 1 THEN After(h[n], e) ELSE h[i]]
           t == Append(s, e)
<1>1. n \in Nat /\ Len(t) = n + 1 /\ (\A i \in 1 .. n : t[i] = s[i]) /\ t[n + 1] = e
  BY AppendProperties
<1> HIDE DEF n, t
<1>2. g[0] = chart
  BY <1>1 DEF Replay
<1>3. g[n + 1] = After(h[n], e)
  BY <1>1
<1>4. ASSUME NEW i \in 1 .. n + 1 PROVE g[i] = After(g[i - 1], t[i])
  <2>1. g[i - 1] = h[i - 1]
    BY <1>1
  <2>2. CASE i = n + 1
    <3>1. i - 1 = n
      BY <1>1, <2>2
    <3>2. QED BY <1>1, <1>3, <2>1, <2>2, <3>1
  <2>3. CASE i \in 1 .. n
    <3>1. g[i] = h[i] /\ t[i] = s[i]
      BY <1>1, <2>3
    <3>2. h[i] = After(h[i - 1], s[i])
      BY <2>3 DEF Replay, n
    <3>3. QED BY <2>1, <3>1, <3>2
  <2>4. QED BY <1>1, <2>2, <2>3
<1> HIDE DEF g
<1>5. Replay(g, chart, t) /\ g[Len(t)] = After(h[Len(s)], e)
  BY <1>1, <1>2, <1>3, <1>4 DEF Replay, n
<1>6. QED BY <1>5 DEF t

LEMMA Replayed ==
    ASSUME NEW S, NEW h, NEW chart, NEW s \in Seq(S), s # <<>>, Replay(h, chart, s)
    PROVE  \E g : /\ Replay(g, After(chart, Head(s)), Tail(s))
                  /\ g[Len(Tail(s))] = h[Len(s)]
<1> DEFINE t == Tail(s)
           n == Len(t)
           g == [i \in 0 .. n |-> h[i + 1]]
<1>1. n \in Nat /\ Len(s) = n + 1 /\ (\A i \in 1 .. n : t[i] = s[i + 1]) /\ Head(s) = s[1]
  BY HeadTailProperties, EmptySeq
<1> HIDE DEF n, t
<1>2. g[0] = After(chart, Head(s))
  <2>1. h[1] = After(h[1 - 1], s[1]) /\ h[0] = chart
    BY <1>1 DEF Replay
  <2>2. g[0] = h[1]
    BY <1>1
  <2>3. QED BY <1>1, <2>1, <2>2
<1>3. g[n] = h[Len(s)]
  BY <1>1
<1>4. ASSUME NEW i \in 1 .. n PROVE g[i] = After(g[i - 1], t[i])
  <2>1. g[i] = h[i + 1] /\ g[i - 1] = h[i] /\ t[i] = s[i + 1] /\ i + 1 \in 1 .. Len(s) /\ (i + 1) - 1 = i
    BY <1>1
  <2>2. h[i + 1] = After(h[(i + 1) - 1], s[i + 1])
    BY <2>1 DEF Replay
  <2>3. QED BY <2>1, <2>2
<1> HIDE DEF g
<1>5. Replay(g, After(chart, Head(s)), t)
  BY <1>2, <1>4 DEF Replay, n
<1>6. QED BY <1>1, <1>3, <1>5 DEF t, n

\* Something is sent.
LEMMA Sent ==
    ASSUME PushInv, NEW e \in Pushes, Charts!Send(e), UNCHANGED <<content, chips>>
    PROVE  /\ pending' \in Seq(Pushes) /\ Len(pending') <= 2
           /\ (offered' = IF IsSuggestions(e) THEN e.prompts ELSE offered) => WillOffer'
           /\ \A h : Replay(h, content, pending) =>
                 \E g : Replay(g, content', pending') /\ g[Len(pending')] = After(h[Len(pending)], e)
<1> DEFINE n == Len(pending)
<1>1. /\ pending' = Append(pending, e) /\ n < 2 /\ pending \in Seq(Pushes)
      /\ n \in Nat /\ Len(pending') = n + 1 /\ pending' \in Seq(Pushes)
      /\ DOMAIN pending = 1 .. n /\ DOMAIN pending' = 1 .. n + 1
      /\ \A i \in 1 .. n : pending'[i] = pending[i]
      /\ pending'[n + 1] = e
  BY AppendProperties, LenProperties DEF Charts!Send, PushInv, PushTyped
<1>2. \A h : Replay(h, content, pending) =>
                 \E g : Replay(g, content', pending') /\ g[Len(pending')] = After(h[Len(pending)], e)
  BY <1>1, Replays
<1> HIDE DEF n
<1>3. ASSUME offered' = IF IsSuggestions(e) THEN e.prompts ELSE offered
      PROVE  WillOffer'
  <2>1. ASSUME NEW i \in 1 .. n + 1, IsSuggestions(pending'[i])
        PROVE  pending'[i].prompts = offered' \/ \E j \in 1 .. n + 1 : i < j /\ IsSuggestions(pending'[j])
    <3>1. CASE i = n + 1
      BY <1>1, <1>3, <2>1, <3>1
    <3>2. CASE i \in 1 .. n /\ IsSuggestions(e)
      BY <1>1, <3>2
    <3>3. CASE i \in 1 .. n /\ ~IsSuggestions(e)
      <4>1. pending'[i] = pending[i] /\ i \in DOMAIN pending /\ offered' = offered
        BY <1>1, <1>3, <3>3
      <4>2. pending[i].prompts = offered \/ \E j \in 1 .. n : i < j /\ IsSuggestions(pending[j])
        BY <1>1, <2>1, <4>1 DEF PushInv, WillOffer
      <4>3. \A j \in 1 .. n : j \in 1 .. n + 1 /\ pending'[j] = pending[j]
        BY <1>1
      <4>4. QED BY <4>1, <4>2, <4>3
    <3>4. QED BY <1>1, <3>1, <3>2, <3>3
  <2>2. ASSUME \A i \in 1 .. n + 1 : ~IsSuggestions(pending'[i]) PROVE chips' = offered'
    <3>1. ~IsSuggestions(e) /\ \A i \in 1 .. n : ~IsSuggestions(pending[i])
      BY <1>1, <2>2
    <3>2. QED BY <1>1, <1>3, <3>1 DEF PushInv, WillOffer
  <2>3. QED BY <1>1, <2>1, <2>2 DEF WillOffer, IsSuggestions
<1>4. QED BY <1>1, <1>2, <1>3

LEMMA DrawPushes == ASSUME PushInv, NEW spec \in Drawn, Charts!Draw(spec) PROVE PushInv'
<1> DEFINE e == [event |-> "snapshot", content |-> Charts!AsContent(spec)]
<1>1. /\ Charts!Valid(spec) /\ Charts!Send(e) /\ numbers' = spec /\ declared' = TRUE
      /\ UNCHANGED <<offered, content, drawn, chips>>
  BY DEF Charts!Draw
<1>2. e \in Pushes /\ ~IsSuggestions(e) /\ e.event = "snapshot" /\ e.content = Charts!AsContent(spec)
  BY <1>1 DEF Pushes, Snapshots, IsSuggestions
<1> HIDE DEF e
<1>3. Sound(spec) /\ Shows(Charts!AsContent(spec), spec)
  BY <1>1, ValidIsSound
<1>4. PICK h : Replay(h, content, pending)
  BY DEF PushInv, WillShow
<1>5. PICK g : Replay(g, content', pending') /\ g[Len(pending')] = After(h[Len(pending)], e)
  BY <1>1, <1>2, <1>4, Sent
<1>6. After(h[Len(pending)], e) = Charts!AsContent(spec)
  BY <1>2 DEF After
<1>7. WillShow'
  <2>1. Shows(g[Len(pending')], numbers')
    BY <1>1, <1>3, <1>5, <1>6
  <2>2. QED BY <1>5, <2>1 DEF WillShow, Replay, Shows
<1>8. WillOffer' /\ pending' \in Seq(Pushes) /\ Len(pending') <= 2
  BY <1>1, <1>2, Sent
<1>9. PushTyped'
  BY <1>1, <1>3, <1>8 DEF PushInv, PushTyped, Sound, Charts!Drawable
<1>10. QED BY <1>7, <1>8, <1>9 DEF PushInv

\* A delta within its spec leaves a sound spec, and a chart that shows the
\* one shows the other.
LEMMA PatchedIsSound ==
    ASSUME NEW spec, Sound(spec), NEW i \in DOMAIN spec.series, NEW p \in Seq({1, 2}), Len(p) = spec.labels
    PROVE  Sound([spec EXCEPT !.series[i] = p])
<1> DEFINE ss == spec.series
           tt == [ss EXCEPT ![i] = p]
           S == Seq({1, 2})
<1>1. /\ spec \in Specs /\ ss \in Seq(S) /\ ss # <<>> /\ spec.labels \in 1 .. 2
      /\ spec.labels * Len(ss) <= 3 /\ \A s \in ToSet(ss) : Len(s) = spec.labels
  BY DEF Sound
<1>2. /\ tt \in Seq(S) /\ Len(tt) = Len(ss) /\ DOMAIN tt = DOMAIN ss
      /\ \A j \in DOMAIN tt : tt[j] = IF j = i THEN p ELSE ss[j]
  <2> HIDE DEF ss, S
  <2>1. DOMAIN ss = 1 .. Len(ss) /\ p \in S /\ i \in DOMAIN ss
    BY <1>1, LenProperties DEF S, ss
  <2>2. tt \in [1 .. Len(ss) -> S]
    BY <1>1, <2>1, ElementOfSeq
  <2>3. QED BY <1>1, <2>1, <2>2, ExceptSeq
<1>3. \A s \in ToSet(tt) : Len(s) = spec.labels
  BY <1>1, <1>2 DEF ToSet
<1>4. [spec EXCEPT !.series[i] = p] = [spec EXCEPT !.series = tt]
  OBVIOUS
<1>5. tt # <<>>
  BY <1>1, <1>2, EmptySeq
<1>6. tt \in Seq(Seq(Numbers))
  <2>1. S \subseteq Seq(Numbers)
    BY SeqMonotonic DEF Numbers
  <2>2. QED BY <1>2, <2>1, SeqMonotonic
<1> HIDE DEF tt, S
<1> DEFINE new == [spec EXCEPT !.series = tt]
<1>7. new \in Specs /\ new.labels = spec.labels /\ new.series = tt
  BY <1>1, <1>6 DEF Specs
<1> HIDE DEF new
<1>8. Sound(new)
  BY <1>1, <1>2, <1>3, <1>5, <1>7 DEF Sound, S
<1>9. QED BY <1>4, <1>8 DEF new

LEMMA PatchedShows ==
    ASSUME NEW spec, Sound(spec), NEW chart, Shows(chart, spec), NEW i, NEW p
    PROVE  Shows([chart EXCEPT !.series[i] = p], [spec EXCEPT !.series[i] = p])
BY DEF Sound, Shows, Specs

LEMMA MoveDeclaredPushes ==
    ASSUME PushInv, NEW m \in Moved, Charts!MoveDeclared(m.index, m.points) PROVE PushInv'
<1> DEFINE i == m.index
           p == m.points
           e == [event |-> "delta", index |-> i, points |-> p]
<1>1. /\ numbers # <<>> /\ Charts!Send(e) /\ i \in DOMAIN numbers.series
      /\ Len(p) = numbers.labels /\ 99 \notin ToSet(p)
      /\ numbers' = [numbers EXCEPT !.series[i] = p]
      /\ UNCHANGED <<declared, offered, content, drawn, chips>>
  BY ChartsUse DEF Charts!MoveDeclared, Charts!Nothing, Charts!FitsSpec, Charts!Sendable,
     Charts!ValidPoints, Charts!Patched
<1>2. e \in Pushes /\ ~IsSuggestions(e) /\ e.event = "delta" /\ e.index = i /\ e.points = p
  BY DEF Pushes, Deltas, IsSuggestions
<1>3. p \in Seq({1, 2})
  <2>1. p \in Seq(Numbers)
    BY MovedAre
  <2> HIDE DEF p
  <2>2. \A j \in 1 .. Len(p) : p[j] \in {1, 2}
    BY <1>1, <2>1, ElementOfSeq, LenProperties DEF Numbers, ToSet
  <2>3. QED BY <2>1, <2>2
<1>4. Sound(numbers) /\ Sound(numbers')
  BY <1>1, <1>3, PatchedIsSound DEF PushInv, PushTyped
<1> HIDE DEF e, i, p
<1>5. PICK h : Replay(h, content, pending) /\ (declared => Shows(h[Len(pending)], numbers))
  BY <1>1 DEF PushInv, WillShow
<1>6. PICK g : Replay(g, content', pending') /\ g[Len(pending')] = After(h[Len(pending)], e)
  BY <1>1, <1>2, <1>5, Sent
<1>7. ASSUME declared PROVE Shows(g[Len(pending')], numbers')
  <2> DEFINE c == h[Len(pending)]
  <2>1. Shows(c, numbers)
    BY <1>5, <1>7
  <2> HIDE DEF c
  <2>2. c # <<>> /\ i \in DOMAIN c.series
    BY <1>1, <2>1 DEF Shows
  <2>3. After(c, e) = [c EXCEPT !.series[i] = p]
    BY <1>2, <2>2 DEF After
  <2>4. Shows(After(c, e), numbers')
    <3>1. Shows([c EXCEPT !.series[i] = p], [numbers EXCEPT !.series[i] = p])
      BY <1>4, <2>1, PatchedShows
    <3>2. QED BY <1>1, <2>3, <3>1
  <2>5. QED BY <1>6, <2>4 DEF c
<1>8. WillShow'
  BY <1>1, <1>6, <1>7 DEF WillShow, Replay, Shows
<1>9. WillOffer' /\ pending' \in Seq(Pushes) /\ Len(pending') <= 2
  BY <1>1, <1>2, Sent
<1>10. PushTyped'
  BY <1>1, <1>4, <1>9 DEF PushInv, PushTyped, Sound, Charts!Drawable
<1>11. QED BY <1>8, <1>9, <1>10 DEF PushInv

LEMMA MovePushes ==
    ASSUME PushInv, NEW m \in Moved, Charts!Move(m.index, m.points) PROVE PushInv'
<1> DEFINE e == [event |-> "delta", index |-> m.index, points |-> m.points]
<1>1. Charts!Send(e) /\ declared' = FALSE /\ UNCHANGED <<numbers, offered, content, drawn, chips>>
  BY DEF Charts!Move
<1>2. e \in Pushes /\ ~IsSuggestions(e)
  BY DEF Pushes, Deltas, IsSuggestions
<1> HIDE DEF e
<1>3. PICK h : Replay(h, content, pending)
  BY DEF PushInv, WillShow
<1>4. \E g : Replay(g, content', pending')
  BY <1>1, <1>2, <1>3, Sent
<1>5. WillShow'
  BY <1>1, <1>4 DEF WillShow, Replay
<1>6. WillOffer' /\ pending' \in Seq(Pushes) /\ Len(pending') <= 2
  BY <1>1, <1>2, Sent
<1>7. PushTyped'
  BY <1>1, <1>6 DEF PushInv, PushTyped, Sound, Charts!Drawable
<1>8. QED BY <1>5, <1>6, <1>7 DEF PushInv

LEMMA SuggestPushes ==
    ASSUME PushInv, NEW q \in SeqOf(Prompts, 3), Charts!Suggest(q) PROVE PushInv'
<1> DEFINE e == [event |-> "suggestions", prompts |-> Charts!Stripped(q)]
<1>1. /\ Charts!Fitting(q) /\ Charts!Send(e) /\ offered' = Charts!Stripped(q)
      /\ UNCHANGED <<numbers, declared, content, drawn, chips>>
  BY DEF Charts!Suggest
<1>2. e \in Pushes /\ IsSuggestions(e) /\ e.event = "suggestions" /\ offered' = e.prompts
  BY <1>1 DEF Pushes, Chips, IsSuggestions
<1> HIDE DEF e
<1>3. PICK h : Replay(h, content, pending) /\ (declared /\ numbers # <<>> => Shows(h[Len(pending)], numbers))
  BY DEF PushInv, WillShow
<1>4. PICK g : Replay(g, content', pending') /\ g[Len(pending')] = After(h[Len(pending)], e)
  BY <1>1, <1>2, <1>3, Sent
<1>5. After(h[Len(pending)], e) = h[Len(pending)]
  BY <1>2 DEF After
<1>6. WillShow'
  <2>1. declared' /\ numbers' # <<>> => Shows(g[Len(pending')], numbers')
    BY <1>1, <1>3, <1>4, <1>5
  <2>2. QED BY <1>4, <2>1 DEF WillShow, Replay, Shows
<1>7. WillOffer' /\ pending' \in Seq(Pushes) /\ Len(pending') <= 2
  BY <1>1, <1>2, Sent
<1>8. PushTyped'
  BY <1>1, <1>7 DEF PushInv, PushTyped, Sound, Charts!Drawable
<1>9. QED BY <1>6, <1>7, <1>8 DEF PushInv

\* The client's actions: what arrives is what was to.
LEMMA DeliverPushes == ASSUME PushInv, Charts!Deliver PROVE PushInv'
<1> DEFINE e == Head(pending)
           n == Len(pending')
<1>1. /\ pending # <<>> /\ pending' = Tail(pending) /\ UNCHANGED <<numbers, declared, offered>>
      /\ Charts!DeliverSnapshot \/ Charts!DeliverDelta \/ Charts!DeliverSuggestions
  BY DEF Charts!Deliver
<1>2. /\ e \in Pushes /\ n \in Nat /\ Len(pending) = n + 1 /\ n + 1 <= 2 /\ pending' \in Seq(Pushes)
      /\ DOMAIN pending = 1 .. n + 1 /\ DOMAIN pending' = 1 .. n
      /\ \A i \in 1 .. n : pending'[i] = pending[i + 1]
      /\ pending[1] = e /\ pending \in Seq(Pushes)
  BY <1>1, HeadTailProperties, LenProperties, EmptySeq DEF PushInv, PushTyped
<1>3. /\ e.event = "snapshot" => e \in Snapshots
      /\ e.event = "delta" => e \in Deltas
      /\ e.event = "suggestions" => e \in Chips
  BY <1>2, PushesAre DEF Pushes
<1> HIDE DEF n
<1>4. content' = After(content, e) /\ (Charts!Drawable(content') => drawn' = content')
      /\ (drawn' # <<>> => Charts!Drawable(drawn'))
  <2>1. CASE Charts!DeliverSnapshot
    BY <2>1 DEF Charts!DeliverSnapshot, Charts!Hold, After, PushInv, PushTyped
  <2>2. CASE Charts!DeliverDelta
    BY <2>2 DEF Charts!DeliverDelta, Charts!Hold, Charts!Patched, Charts!Nothing, After, PushInv, PushTyped
  <2>3. CASE Charts!DeliverSuggestions
    BY <2>3 DEF Charts!DeliverSuggestions, After, PushInv, PushTyped
  <2>4. QED BY <1>1, <2>1, <2>2, <2>3
<1>5. WillShow'
  <2>1. PICK h : Replay(h, content, pending) /\ (declared /\ numbers # <<>> => Shows(h[Len(pending)], numbers))
    BY DEF PushInv, WillShow
  <2>2. PICK g : Replay(g, content', pending') /\ g[Len(pending')] = h[Len(pending)]
    BY <1>1, <1>2, <1>4, <2>1, Replayed
  <2>3. declared' /\ numbers' # <<>> => Shows(g[Len(pending')], numbers')
    BY <1>1, <2>1, <2>2
  <2>4. QED BY <2>2, <2>3 DEF WillShow, Replay, Shows
<1>6. IF IsSuggestions(e) THEN chips' = e.prompts /\ e \in Chips ELSE chips' = chips
  <2>1. CASE Charts!DeliverSnapshot \/ Charts!DeliverDelta
    BY <2>1 DEF Charts!DeliverSnapshot, Charts!DeliverDelta, IsSuggestions
  <2>2. CASE Charts!DeliverSuggestions
    BY <1>3, <2>2, ChipsFit DEF Charts!DeliverSuggestions, IsSuggestions
  <2>3. QED BY <1>1, <2>1, <2>2
<1>7. chips' \in Seq(Nat) /\ Len(chips') <= 2
  <2>1. ASSUME IsSuggestions(e) PROVE e.prompts \in Seq(Nat) /\ Len(e.prompts) <= 2
    <3> HIDE DEF e
    <3>1. e \in Chips
      BY <1>6, <2>1
    <3>2. Len(e.prompts) \in 1 .. 2 /\ e.prompts \in Seq(Nat)
      BY <3>1, ChipsFit
    <3> DEFINE k == Len(e.prompts)
    <3> HIDE DEF k
    <3>3. k \in 1 .. 2
      BY <3>2 DEF k
    <3>4. k <= 2
      BY <3>3
    <3>5. QED BY <3>2, <3>4 DEF k
  <2>2. chips \in Seq(Nat) /\ Len(chips) <= 2
    BY DEF PushInv, PushTyped
  <2> HIDE DEF e
  <2>3. QED BY <1>6, <2>1, <2>2
<1>8. WillOffer'
  <2>1. ASSUME NEW i \in 1 .. n, IsSuggestions(pending'[i])
        PROVE  pending'[i].prompts = offered \/ \E j \in 1 .. n : i < j /\ IsSuggestions(pending'[j])
    <3>1. i + 1 \in DOMAIN pending /\ pending'[i] = pending[i + 1]
      BY <1>2
    <3>2. pending[i + 1].prompts = offered \/ \E j \in 1 .. n + 1 : i + 1 < j /\ IsSuggestions(pending[j])
      BY <1>2, <2>1, <3>1 DEF PushInv, WillOffer
    <3>3. ASSUME NEW j \in 1 .. n + 1, i + 1 < j, IsSuggestions(pending[j])
          PROVE  \E k \in 1 .. n : i < k /\ IsSuggestions(pending'[k])
      <4>1. j - 1 \in 1 .. n /\ i < j - 1 /\ (j - 1) + 1 = j
        BY <1>2, <3>3
      <4>2. pending'[j - 1] = pending[j]
        BY <1>2, <4>1
      <4>3. QED BY <3>3, <4>1, <4>2
    <3>4. QED BY <3>1, <3>2, <3>3
  <2>2. ASSUME \A i \in 1 .. n : ~IsSuggestions(pending'[i]) PROVE chips' = offered
    <3>1. ASSUME NEW i \in 1 .. n + 1, IsSuggestions(pending[i]) PROVE i = 1
      <4> SUFFICES ASSUME i # 1 PROVE FALSE
        OBVIOUS
      <4>1. i - 1 \in 1 .. n /\ (i - 1) + 1 = i
        BY <1>2
      <4>2. pending'[i - 1] = pending[i]
        BY <1>2, <4>1
      <4>3. QED BY <2>2, <3>1, <4>1, <4>2
    <3>2. CASE IsSuggestions(e)
      <4>1. 1 \in DOMAIN pending /\ IsSuggestions(pending[1])
        BY <1>2, <3>2
      <4>2. \A j \in DOMAIN pending : ~(1 < j /\ IsSuggestions(pending[j]))
        BY <1>2, <3>1
      <4>3. e.prompts = offered
        BY <1>2, <4>1, <4>2 DEF PushInv, WillOffer
      <4>4. QED BY <1>6, <3>2, <4>3
    <3>3. CASE ~IsSuggestions(e)
      <4>1. \A i \in DOMAIN pending : ~IsSuggestions(pending[i])
        BY <1>2, <3>1, <3>3
      <4>2. QED BY <1>6, <3>3, <4>1 DEF PushInv, WillOffer
    <3>4. QED BY <3>2, <3>3
  <2>3. QED BY <1>1, <1>2, <2>1, <2>2 DEF WillOffer, IsSuggestions
<1>9. PushTyped'
  BY <1>1, <1>2, <1>4, <1>7 DEF PushInv, PushTyped, Sound, Charts!Drawable
<1>10. QED BY <1>5, <1>8, <1>9 DEF PushInv

LEMMA ReloadPushes == ASSUME PushInv, Charts!Reload PROVE PushInv'
<1>1. /\ drawn' = IF Charts!Drawable(content) THEN content ELSE <<>>
      /\ UNCHANGED <<numbers, declared, offered, pending, content, chips>>
  BY DEF Charts!Reload, Charts!Nothing
<1>2. WillShow' /\ WillOffer'
  BY <1>1 DEF PushInv, WillShow, WillOffer, Replay, Shows, IsSuggestions
<1>3. PushTyped'
  BY <1>1 DEF PushInv, PushTyped, Sound, Charts!Drawable
<1>4. QED BY <1>2, <1>3 DEF PushInv

LEMMA LeavePushes == ASSUME PushInv, Charts!Leave PROVE PushInv'
<1>1. /\ pending' = <<>> /\ declared' = FALSE /\ offered' = chips
      /\ UNCHANGED <<numbers, content, drawn, chips>>
  BY DEF Charts!Leave
<1>2. <<>> \in Seq(Pushes) /\ Len(<<>>) = 0 /\ DOMAIN <<>> = {}
  BY EmptySeq
<1>3. WillShow'
  <2>1. Replay([i \in {0} |-> content], content, <<>>)
    BY DEF Replay
  <2>2. \E h : Replay(h, content', pending')
    BY <1>1, <2>1
  <2>3. QED BY <1>1, <2>2 DEF WillShow, Replay
<1>4. WillOffer'
  BY <1>1, <1>2 DEF WillOffer
<1>5. PushTyped'
  <2>1. pending' \in Seq(Pushes)
    BY <1>1, <1>2
  <2>3. Len(pending') = 0
    BY <1>1
  <2>4. Len(pending') <= 2
    BY <2>3
  <2>5. declared' \in BOOLEAN
    BY <1>1
  <2>6. QED BY <1>1, <2>1, <2>4, <2>5 DEF PushInv, PushTyped, Sound, Charts!Drawable
<1>6. QED BY <1>3, <1>4, <1>5 DEF PushInv

LEMMA PushStill == ASSUME PushInv, UNCHANGED activityVars PROVE PushInv'
BY DEF activityVars, PushInv, PushTyped, WillShow, WillOffer, Replay, Shows, IsSuggestions, Sound, Charts!Drawable

LEMMA PushKept == PushInv /\ [Charts!Next]_activityVars => PushInv'
<1> SUFFICES ASSUME PushInv, Charts!Next PROVE PushInv'
  BY PushStill
<1>1. QED
  BY DrawPushes, MoveDeclaredPushes, MovePushes, SuggestPushes, DeliverPushes, ReloadPushes, LeavePushes
     DEF Charts!Next

LEMMA PushStart == Charts!Init => PushInv
<1> SUFFICES ASSUME Charts!Init PROVE PushInv
  OBVIOUS
<1>1. /\ numbers = <<>> /\ declared = TRUE /\ offered = <<>> /\ pending = <<>>
      /\ content = <<>> /\ drawn = <<>> /\ chips = <<>>
  BY DEF Charts!Init, Charts!Nothing
<1>2. <<>> \in Seq(Pushes) /\ <<>> \in Seq(Nat) /\ Len(<<>>) = 0 /\ DOMAIN <<>> = {}
  BY EmptySeq
<1>3. WillShow
  <2>1. Replay([i \in {0} |-> content], content, <<>>)
    BY DEF Replay
  <2>2. QED BY <1>1, <2>1 DEF WillShow
<1>4. WillOffer /\ PushTyped
  BY <1>1, <1>2 DEF WillOffer, PushTyped
<1>5. QED BY <1>3, <1>4 DEF PushInv

LEMMA PushMeans == PushInv => DrawsWhatIsPushed
<1> SUFFICES ASSUME PushInv PROVE DrawsWhatIsPushed
  OBVIOUS
<1>1. Charts!TypeOK
  BY DEF PushInv, PushTyped, Charts!TypeOK, Charts!Nothing
<1>2. Charts!ShowsTheNumbers
  <2> SUFFICES ASSUME pending = <<>>, declared, numbers # <<>>
               PROVE  /\ Charts!Drawable(content) /\ drawn = content
                      /\ content.labels = numbers.labels /\ content.series = numbers.series
                      /\ content.kind = "ours"
                      /\ "title" \in DOMAIN content <=> numbers.title
    BY DEF Charts!ShowsTheNumbers, Charts!Nothing
  <2>1. PICK h : h[0] = content /\ Shows(h[Len(pending)], numbers)
    BY DEF PushInv, WillShow, Replay
  <2>2. Shows(content, numbers) /\ Sound(numbers)
    BY <2>1 DEF PushInv, PushTyped
  <2>3. Charts!Drawable(content)
    BY <2>2, SoundIsDrawable
  <2>4. QED BY <2>2, <2>3 DEF Shows, PushInv, PushTyped
<1>3. Charts!SnapshotsMend
  <2>1. \A i \in DOMAIN pending : pending[i] \in Pushes
    BY ElementOfSeq, LenProperties DEF PushInv, PushTyped
  <2>2. QED BY <2>1, PushesAre DEF Charts!SnapshotsMend, Pushes
<1>4. Charts!OffersEveryPrompt
  BY DEF Charts!OffersEveryPrompt, PushInv, WillOffer, IsSuggestions
<1>5. QED BY <1>1, <1>2, <1>3, <1>4 DEF DrawsWhatIsPushed

(* DrawsWhatIsPushed: the page draws what the project pushed, with no one  *)
(* to tell it otherwise, because chart_activity, chart_points_delta and    *)
(* suggestions_activity refuse whatever it would refuse: whatever has been *)
(* sent of the deltas that declared their spec, the client shows the       *)
(* project's own numbers as soon as all of it has arrived, and again after *)
(* a reload; a snapshot under way always mends a spoilt chart; and every   *)
(* prompt that was accepted is offered as it was.                          *)
THEOREM WhatIsPushedIsDrawn == MCSpec => []DrawsWhatIsPushed
<1>1. MCInit => PushInv
  BY PushStart DEF MCInit
<1>2. PushInv /\ [MCNext]_<<part, vars, activityVars, contextVars>> => PushInv'
  <2>1. [MCNext]_<<part, vars, activityVars, contextVars>> => [Charts!Next]_activityVars
    BY DEF MCNext
  <2>2. QED BY <2>1, PushKept
<1>3. QED BY <1>1, <1>2, PushMeans, PTL DEF MCSpec

-----------------------------------------------------------------------------
(* What the client says: its texts.                                        *)

Tokens == {"word", "space", "newline", "marker", "hint", "f1", "f2", "junk"}
Lines  == [label : Seq(Tokens), value : Seq(Tokens)]

LEMMA ContextUses ==
    /\ \A s : Context!ToSet(s) = ToSet(s)
    /\ \A s : Context!FlattenSeq(s) = FlattenSeq(s)
    /\ \A s, T : Context!Sift(s, T) = Sift(s, T)
    /\ \A s : Context!Firsts(s) = Firsts(s)
    /\ \A s, e : Context!Contains(s, e) <=> \E i \in 1 .. Len(s) : s[i] = e
<1>1. \A s : Context!FlattenSeq(s) = FlattenSeq(s)
  BY DEF Context!FlattenSeq, FlattenSeq
<1>2. \A s : Context!ToSet(s) = ToSet(s)
  BY DEF Context!ToSet, ToSet
<1>3. \A s, T : Context!Sift(s, T) = Sift(s, T)
  BY <1>1 DEF Context!Sift, Sift
<1>4. \A s : Context!Firsts(s) = Firsts(s)
  BY <1>1 DEF Context!Firsts, Firsts
<1>5. \A s, e : Context!Contains(s, e) <=> \E i \in 1 .. Len(s) : s[i] = e
  BY DEF Context!Contains
<1>6. QED BY <1>1, <1>2, <1>3, <1>4, <1>5

\* The first n of a text.
FirstOfText(s, n) == SubSeq(s, 1, IF n <= Len(s) THEN n ELSE Len(s))

LEMMA CutIs ==
    ASSUME NEW S, NEW s \in Seq(S), NEW n \in Nat
    PROVE  Context!Cut(s, n) = FirstOfText(s, n)
<1> DEFINE k == Len(s)
           T == {n, k}
           m == IF n <= k THEN n ELSE k
<1>1. k \in Nat
  BY LenProperties
<1> HIDE DEF k
<1>2. m \in T /\ \A y \in T : m <= y
  BY <1>1
<1>3. \A x \in T : (\A y \in T : x <= y) => x = m
  BY <1>1
<1> HIDE DEF T, m
<1>4. Context!Min(T) = m
  BY <1>2, <1>3 DEF Context!Min
<1>5. QED BY <1>4 DEF Context!Cut, FirstOfText, T, m, k

LEMMA CutGives ==
    ASSUME NEW S, NEW s \in Seq(S), NEW n \in Nat
    PROVE  /\ FirstOfText(s, n) \in Seq(S)
           /\ Len(FirstOfText(s, n)) = IF n <= Len(s) THEN n ELSE Len(s)
           /\ \A i \in 1 .. Len(FirstOfText(s, n)) : FirstOfText(s, n)[i] = s[i]
<1> DEFINE k == Len(s)
           m == IF n <= k THEN n ELSE k
           f == SubSeq(s, 1, m)
<1>1. k \in Nat /\ \A i \in 1 .. k : s[i] \in S
  BY LenProperties, ElementOfSeq
<1> HIDE DEF k
<1>2. m \in Nat /\ \A i \in 1 .. m : i \in 1 .. k
  BY <1>1
<1> HIDE DEF m
<1>3. 1 \in Int /\ m \in Int /\ \A i \in 1 .. m : s[i] \in S
  BY <1>1, <1>2
<1>4. /\ f \in Seq(S)
      /\ Len(f) = IF 1 <= m THEN m - 1 + 1 ELSE 0
      /\ \A i \in 1 .. m - 1 + 1 : f[i] = s[1 + i - 1]
  BY <1>3, SubSeqProperties
<1> HIDE DEF f
<1>5. f \in Seq(S) /\ Len(f) = m /\ \A i \in 1 .. m : f[i] = s[i]
  BY <1>2, <1>4
<1>6. FirstOfText(s, n) = f
  BY DEF FirstOfText, f, m, k
<1>7. QED BY <1>5, <1>6 DEF m, k

LEMMA CutHas ==
    ASSUME NEW S, NEW s \in Seq(S), NEW n \in Nat
    PROVE  ToSet(FirstOfText(s, n)) \subseteq ToSet(s)
<1> DEFINE f == FirstOfText(s, n)
           k == Len(s)
<1>1. /\ f \in Seq(S) /\ Len(f) = (IF n <= k THEN n ELSE k) /\ k \in Nat
      /\ \A i \in 1 .. Len(f) : f[i] = s[i]
  BY CutGives, LenProperties
<1>2. DOMAIN f = 1 .. Len(f) /\ DOMAIN s = 1 .. k
  BY <1>1, LenProperties
<1> HIDE DEF f, k
<1>3. \A i \in DOMAIN f : i \in DOMAIN s /\ f[i] = s[i]
  BY <1>1, <1>2
<1>4. QED BY <1>3 DEF ToSet, f

LEMMA CutAll ==
    ASSUME NEW S, NEW s \in Seq(S), NEW n \in Nat, Len(s) <= n
    PROVE  FirstOfText(s, n) = s
<1> DEFINE f == FirstOfText(s, n)
           k == Len(s)
<1>1. /\ f \in Seq(S) /\ Len(f) = (IF n <= k THEN n ELSE k) /\ k \in Nat
      /\ \A i \in 1 .. Len(f) : f[i] = s[i]
  BY CutGives, LenProperties
<1> HIDE DEF f
<1>2. Len(f) = k
  <2>1. k <= n
    OBVIOUS
  <2> HIDE DEF k
  <2>2. QED BY <1>1, <2>1
<1>3. f = s
  BY <1>1, <1>2, SeqEqual
<1>4. QED BY <1>3 DEF f

(* What is cut before the end of a text is cut the same of a longer one,   *)
LEMMA CutShort ==
    ASSUME NEW S, NEW s \in Seq(S), NEW t \in Seq(S), NEW n \in Nat, n <= Len(s)
    PROVE  FirstOfText(Cat(s, t), n) = FirstOfText(s, n)
<1> DEFINE c == Cat(s, t)
           f == FirstOfText(s, n)
           g == FirstOfText(c, n)
           k == Len(s)
           l == Len(t)
<1>1. /\ c \in Seq(S) /\ Len(c) = k + l /\ k \in Nat /\ l \in Nat
      /\ \A i \in 1 .. k + l : c[i] = IF i <= k THEN s[i] ELSE t[i - k]
  BY ConcatProperties, LenProperties DEF Cat
<1> HIDE DEF c
<1>2. /\ f \in Seq(S) /\ Len(f) = (IF n <= k THEN n ELSE k)
      /\ \A i \in 1 .. Len(f) : f[i] = s[i]
  BY CutGives
<1>3. /\ g \in Seq(S) /\ Len(g) = (IF n <= Len(c) THEN n ELSE Len(c))
      /\ \A i \in 1 .. Len(g) : g[i] = c[i]
  BY <1>1, CutGives
<1>4. n <= k
  OBVIOUS
<1> HIDE DEF f, g, k, l
<1>5. Len(f) = n /\ Len(g) = n
  BY <1>1, <1>2, <1>3, <1>4
<1>6. \A i \in 1 .. n : f[i] = g[i]
  BY <1>1, <1>2, <1>3, <1>4, <1>5
<1>7. f = g
  BY <1>2, <1>3, <1>5, <1>6, SeqEqual
<1>8. QED BY <1>7 DEF f, g, c

(* and what is cut behind it is all of it and some of what follows.        *)
LEMMA CutLong ==
    ASSUME NEW S, NEW s \in Seq(S), NEW t \in Seq(S), NEW n \in Nat, Len(s) <= n
    PROVE  /\ FirstOfText(Cat(s, t), n) = Cat(s, FirstOfText(t, n - Len(s)))
           /\ n - Len(s) \in Nat
<1> DEFINE c == Cat(s, t)
           k == Len(s)
           l == Len(t)
           m == n - k
           f == FirstOfText(t, m)
           g == FirstOfText(c, n)
           d == Cat(s, f)
<1>1. /\ c \in Seq(S) /\ Len(c) = k + l /\ k \in Nat /\ l \in Nat
      /\ \A i \in 1 .. k + l : c[i] = IF i <= k THEN s[i] ELSE t[i - k]
  BY ConcatProperties, LenProperties DEF Cat
<1>2. k <= n
  OBVIOUS
<1> HIDE DEF c, k, l
<1>3. m \in Nat
  BY <1>1, <1>2
<1> HIDE DEF m
<1>4. /\ f \in Seq(S) /\ Len(f) = (IF m <= l THEN m ELSE l)
      /\ \A i \in 1 .. Len(f) : f[i] = t[i]
  BY <1>3, CutGives DEF l
<1>5. /\ g \in Seq(S) /\ Len(g) = (IF n <= Len(c) THEN n ELSE Len(c))
      /\ \A i \in 1 .. Len(g) : g[i] = c[i]
  BY <1>1, CutGives
<1> HIDE DEF f, g
<1>6. /\ d \in Seq(S) /\ Len(d) = k + Len(f)
      /\ \A i \in 1 .. k + Len(f) : d[i] = IF i <= k THEN s[i] ELSE f[i - k]
  BY <1>4, ConcatProperties DEF Cat, k
<1> HIDE DEF d
<1>7. Len(d) = Len(g)
  BY <1>1, <1>2, <1>4, <1>5, <1>6 DEF m
<1>8. ASSUME NEW i \in 1 .. Len(g) PROVE d[i] = g[i]
  <2>1. i \in 1 .. k + Len(f) /\ i \in 1 .. k + l /\ Len(f) \in Nat
    BY <1>1, <1>4, <1>5, <1>6, <1>7
  <2>2. CASE i <= k
    BY <1>1, <1>5, <1>6, <2>1, <2>2
  <2>3. CASE ~(i <= k)
    <3>1. i - k \in 1 .. Len(f)
      BY <1>1, <2>1, <2>3
    <3>2. QED BY <1>1, <1>4, <1>5, <1>6, <2>1, <2>3, <3>1
  <2>4. QED BY <2>2, <2>3
<1>9. d = g
  BY <1>5, <1>6, <1>7, <1>8, SeqEqual
<1>10. QED BY <1>3, <1>9 DEF c, d, f, g, m, k

(* Stripping leaves only what was there.                                   *)
LEMMA StripGives ==
    ASSUME NEW s \in Seq(Tokens)
    PROVE  Context!Strip(s) \in Seq(Tokens) /\ ToSet(Context!Strip(s)) \subseteq ToSet(s)
<1> DEFINE kept == {i \in DOMAIN s : s[i] \notin Context!Blank}
           n == Len(s)
<1>1. DOMAIN s = 1 .. n /\ n \in Nat /\ \A i \in 1 .. n : s[i] \in Tokens
  BY LenProperties, ElementOfSeq
<1>2. kept \in SUBSET (1 .. n) /\ kept \in SUBSET Nat
  BY <1>1
<1>3. Context!Strip(s) = IF kept = {} THEN <<>> ELSE SubSeq(s, Context!Min(kept), Context!Max(kept))
  BY DEF Context!Strip
<1> HIDE DEF kept, n
<1>4. CASE kept = {}
  BY <1>3, <1>4, EmptySeq, AmongNone
<1>5. CASE kept # {}
  <2> DEFINE a == Context!Min(kept)
             b == Context!Max(kept)
             f == SubSeq(s, a, b)
  <2>1. PICK x \in kept : \A y \in kept : ~(y < x)
    BY <1>2, <1>5, Least
  <2>2. PICK z \in kept : \A y \in kept : z >= y
    BY <1>1, <1>2, <1>5, Greatest
  <2>3. \A y \in kept : x <= y
    BY <1>2, <2>1
  <2>4. a \in kept /\ b \in kept
    BY <2>2, <2>3 DEF Context!Min, Context!Max
  <2> HIDE DEF a, b
  <2>5. a \in 1 .. n /\ b \in 1 .. n /\ a \in Int /\ b \in Int
    BY <1>1, <1>2, <2>4
  <2>6. \A i \in a .. b : i \in 1 .. n
    BY <1>1, <2>5
  <2>7. \A i \in a .. b : s[i] \in Tokens
    BY <1>1, <2>6
  <2>8. /\ f \in Seq(Tokens)
        /\ Len(f) = IF a <= b THEN b - a + 1 ELSE 0
        /\ \A i \in 1 .. b - a + 1 : f[i] = s[a + i - 1]
    BY <2>5, <2>7, SubSeqProperties
  <2> HIDE DEF f
  <2>9. \A i \in DOMAIN f : f[i] \in ToSet(s)
    <3> SUFFICES ASSUME NEW i \in DOMAIN f PROVE f[i] \in ToSet(s)
      OBVIOUS
    <3>1. i \in 1 .. Len(f)
      BY <2>8, LenProperties
    <3>2. i \in 1 .. b - a + 1 /\ a + i - 1 \in 1 .. n
      BY <1>1, <2>5, <2>8, <3>1
    <3>3. QED BY <1>1, <2>8, <3>2 DEF ToSet
  <2>10. QED BY <1>3, <1>5, <2>8, <2>9 DEF ToSet, a, b, f
<1>6. QED BY <1>4, <1>5

LEMMA NeutraliseGives ==
    ASSUME NEW s \in Seq(Tokens)
    PROVE  /\ Context!Neutralise(s) \in Seq(Tokens) /\ Len(Context!Neutralise(s)) = Len(s)
           /\ "marker" \notin ToSet(Context!Neutralise(s))
           /\ "newline" \notin ToSet(s) => "newline" \notin ToSet(Context!Neutralise(s))
<1> DEFINE f == Context!Neutralise(s)
<1>1. DOMAIN s = 1 .. Len(s) /\ Len(s) \in Nat /\ \A i \in 1 .. Len(s) : s[i] \in Tokens
  BY LenProperties, ElementOfSeq
<1>2. f = [i \in 1 .. Len(s) |-> IF s[i] = "marker" THEN "word" ELSE s[i]]
  BY <1>1 DEF Context!Neutralise
<1>3. "word" \in Tokens
  BY DEF Tokens
<1>4. f \in [1 .. Len(s) -> Tokens]
  BY <1>1, <1>2, <1>3
<1>5. f \in Seq(Tokens) /\ Len(f) = Len(s)
  BY <1>1, <1>4, SeqDef, LenProperties
<1>6. \A i \in DOMAIN f : f[i] # "marker" /\ (f[i] = "word" \/ f[i] = s[i]) /\ i \in DOMAIN s
  BY <1>1, <1>2
<1> HIDE DEF f
<1>7. "marker" \notin ToSet(f)
  BY <1>6 DEF ToSet
<1>8. "newline" \notin ToSet(s) => "newline" \notin ToSet(f)
  BY <1>6 DEF ToSet
<1>9. QED BY <1>5, <1>7, <1>8 DEF f

LEMMA CollapseGives ==
    ASSUME NEW s \in Seq(Tokens)
    PROVE  Context!Collapse(s) \in Seq(Tokens) /\ "newline" \notin ToSet(Context!Collapse(s))
<1> DEFINE T == Tokens \ {"newline"}
           p == [i \in DOMAIN s |->
                   IF s[i] \notin Context!Blank THEN <<s[i]>>
                   ELSE IF i > 1 /\ s[i - 1] \in Context!Blank THEN <<>> ELSE <<"space">>]
<1>1. DOMAIN s = 1 .. Len(s) /\ Len(s) \in Nat /\ \A i \in 1 .. Len(s) : s[i] \in Tokens
  BY LenProperties, ElementOfSeq
<1>2. \A x \in Tokens : x \notin Context!Blank => x \in T
  BY DEF Context!Blank
<1>3. "space" \in T
  BY DEF Tokens
<1> HIDE DEF T
<1>4. \A x \in T : <<x>> \in Seq(T) /\ <<>> \in Seq(T)
  BY EmptySeq
<1>5. p \in [1 .. Len(s) -> Seq(T)]
  BY <1>1, <1>2, <1>3, <1>4
<1>6. p \in Seq(Seq(T))
  BY <1>1, <1>5, SeqDef
<1>7. Context!Collapse(s) = FlattenSeq(p)
  BY ContextUses DEF Context!Collapse
<1> HIDE DEF p
<1> DEFINE f == FlattenSeq(p)
<1>8. f \in Seq(T)
  BY <1>6, FlattenType
<1> HIDE DEF f
<1>9. \A i \in DOMAIN f : f[i] \in T
  BY <1>8, LenProperties, ElementOfSeq
<1>10. f \in Seq(Tokens)
  <2>1. f \in [1 .. Len(f) -> T] /\ Len(f) \in Nat
    BY <1>8, LenProperties
  <2>2. f \in [1 .. Len(f) -> Tokens]
    BY <2>1 DEF T
  <2>3. QED BY <2>1, <2>2, SeqDef
<1>11. "newline" \notin ToSet(f)
  BY <1>9 DEF ToSet, T
<1>12. QED BY <1>7, <1>10, <1>11 DEF f

LEMMA LabelGives ==
    ASSUME NEW s \in Seq(Tokens)
    PROVE  /\ Context!Label(s) \in Seq(Tokens) /\ Len(Context!Label(s)) <= 3
           /\ "marker" \notin ToSet(Context!Label(s)) /\ "newline" \notin ToSet(Context!Label(s))
<1> DEFINE c == Context!Collapse(s)
           d == Context!Strip(c)
           e == Context!Neutralise(d)
           f == FirstOfText(e, 3)
<1>1. c \in Seq(Tokens) /\ "newline" \notin ToSet(c)
  BY CollapseGives
<1> HIDE DEF c
<1>2. d \in Seq(Tokens) /\ "newline" \notin ToSet(d)
  BY <1>1, StripGives
<1> HIDE DEF d
<1>3. e \in Seq(Tokens) /\ "newline" \notin ToSet(e) /\ "marker" \notin ToSet(e)
  BY <1>2, NeutraliseGives
<1> HIDE DEF e
<1>4. f \in Seq(Tokens) /\ ToSet(f) \subseteq ToSet(e) /\ Context!Cut(e, 3) = f
  BY <1>3, CutGives, CutHas, CutIs
<1>5. Len(f) = (IF 3 <= Len(e) THEN 3 ELSE Len(e)) /\ Len(e) \in Nat
  BY <1>3, CutGives, LenProperties
<1> HIDE DEF f
<1>6. Len(f) <= 3
  BY <1>5
<1>7. Context!Label(s) = f
  BY <1>4 DEF Context!Label, c, d, e
<1>8. QED BY <1>3, <1>4, <1>6, <1>7


-----------------------------------------------------------------------------
(* The items.                                                              *)

Carrying == [there : BOOLEAN, refs : Seq(Tokens)]
Speech == [role : {"user", "assistant"}, metadata : Carrying, top : Carrying]
MayPost == [context : Seq(Lines), messages : Seq(Speech)]
MayConfigure ==
    [clientContext : BOOLEAN, manifest : BOOLEAN, maxChars : Nat,
     delivery : {"instructions", "tool"}, operator : BOOLEAN]

LEMMA SeqOfIsSeq ==
    ASSUME NEW S, NEW n \in Nat, NEW s \in SeqOf(S, n)
    PROVE  s \in Seq(S)
BY SeqDef DEF SeqOf

LEMMA PostedAre == Posted \subseteq MayPost
<1>1. ASSUME NEW T, NEW n \in Nat, NEW s \in [1 .. n -> T] PROVE s \in Seq(T)
  BY <1>1, SeqDef
<1>2. \A x \in Tokens, y \in Tokens, z \in Tokens, u \in Tokens, v \in Tokens :
        /\ <<>> \in Seq(Tokens) /\ <<x>> \in Seq(Tokens) /\ <<x, y>> \in Seq(Tokens)
        /\ <<x, y, z, u>> \in Seq(Tokens) /\ <<x, y, z, u, v>> \in Seq(Tokens)
  OBVIOUS
<1>3. {"word", "space", "newline", "marker", "f1", "f2", "junk"} \subseteq Tokens
  BY DEF Tokens
<1>4. Entries \subseteq Lines
  <2>1. /\ <<>> \in Seq(Tokens) /\ <<"space", "newline">> \in Seq(Tokens)
        /\ <<"space", "marker", "word", "marker">> \in Seq(Tokens)
    BY <1>3
  <2>2. <<"newline", "marker", "newline", "space", "marker">> \in Seq(Tokens)
    BY <1>3
  <2>3. <<"word">> \in Seq(Tokens)
    BY <1>2, <1>3
  <2> DEFINE A == {<<>>, <<"space", "newline">>, <<"space", "marker", "word", "marker">>}
             B == {<<"word">>, <<"newline", "marker", "newline", "space", "marker">>}
             w == <<"word">>
             T == Seq(Tokens)
  <2>4. Entries = {[label |-> w, value |-> v] : v \in A} \union {[label |-> l, value |-> w] : l \in B}
    BY DEF Entries, Entry
  <2>5. Lines = [label : T, value : T]
    BY DEF Lines
  <2>6. A \subseteq T /\ B \subseteq T /\ w \in T
    BY <2>1, <2>2, <2>3
  <2> HIDE DEF A, B, w, T
  <2>7. QED BY <2>4, <2>5, <2>6
<1>5. Carriers \subseteq Carrying
  BY <1>2, <1>3 DEF Carriers, Carrying, NoRefs, Refs
<1>6. Messages \subseteq Speech
  BY <1>5 DEF Messages, Speech
<1>7. ASSUME NEW s \in SeqOf(Entries, 3) PROVE s \in Seq(Lines)
  BY <1>4, SeqOfIsSeq, SeqMonotonic
<1>8. ASSUME NEW s \in SeqOf(Messages, 2) PROVE s \in Seq(Speech)
  BY <1>6, SeqOfIsSeq, SeqMonotonic
<1>9. <<[role |-> "user", metadata |-> Refs(<<"f1">>), top |-> NoRefs]>> \in Seq(Speech)
  <2>1. Refs(<<"f1">>) \in Carrying /\ NoRefs \in Carrying
    BY <1>5 DEF Carriers
  <2> DEFINE m == [role |-> "user", metadata |-> Refs(<<"f1">>), top |-> NoRefs]
  <2>2. m \in Speech
    BY <2>1 DEF Speech
  <2> HIDE DEF m
  <2>3. <<m>> \in Seq(Speech)
    BY <2>2
  <2>4. QED BY <2>3 DEF m
<1>10. <<>> \in Seq(Speech) /\ <<>> \in Seq(Lines)
  BY EmptySeq
<1>11. QED BY <1>7, <1>8, <1>9, <1>10 DEF Posted, MayPost

LEMMA ConfiguredAre == Configured \subseteq MayConfigure
<1>1. {0, 1, 3, 4, 5} \subseteq Nat
  OBVIOUS
<1>2. QED BY <1>1 DEF Configured, MayConfigure

(* What the messages name, and what the i-th of them mentions.             *)
LEMMA MentionsAre ==
    ASSUME NEW m \in Speech
    PROVE  /\ Context!Mentions(m) \in Seq(Tokens)
           /\ ToSet(Context!Mentions(m)) =
                IF m.role = "user"
                THEN ToSet((IF m.metadata.there THEN m.metadata ELSE m.top).refs) \ {"junk"}
                ELSE {}
<1> DEFINE r == Context!Refs(m)
           T == ToSet(r) \ {"junk"}
<1>1. r \in Seq(Tokens)
  BY DEF Context!Refs, Speech, Carrying
<1>2. r = (IF m.metadata.there THEN m.metadata ELSE m.top).refs
  BY DEF Context!Refs
<1>3. Context!Mentions(m) = IF m.role = "user" THEN Sift(r, T) ELSE <<>>
  BY ContextUses DEF Context!Mentions, Context!Junk
<1> HIDE DEF r
<1>4. Sift(r, T) \in Seq(Tokens) /\ ToSet(Sift(r, T)) = ToSet(r) \intersect T
  BY <1>1, SiftType, SiftHas
<1>5. <<>> \in Seq(Tokens) /\ ToSet(<<>>) = {}
  BY EmptySeq, AmongNone
<1>6. QED BY <1>2, <1>3, <1>4, <1>5

MentionParts == [i \in DOMAIN post.messages |-> Context!Mentions(post.messages[i])]

LEMMA PartsAre ==
    ASSUME post \in MayPost
    PROVE  /\ MentionParts \in Seq(Seq(Tokens)) /\ DOMAIN MentionParts = DOMAIN post.messages
           /\ \A i \in DOMAIN post.messages : ToSet(MentionParts[i]) = Context!Named(i)
           /\ Context!Manifest = Firsts(FlattenSeq(MentionParts))
<1> DEFINE ms == post.messages
           n == Len(ms)
<1>1. ms \in Seq(Speech)
  BY DEF MayPost
<1>2. n \in Nat /\ DOMAIN ms = 1 .. n /\ \A i \in 1 .. n : ms[i] \in Speech
  BY <1>1, LenProperties, ElementOfSeq
<1>3. MentionParts = [i \in DOMAIN ms |-> Context!Mentions(ms[i])]
  BY DEF MentionParts
<1>4. Context!Manifest = Firsts(FlattenSeq(MentionParts))
  BY ContextUses DEF Context!Manifest, MentionParts
<1>5. \A i \in DOMAIN ms : Context!Named(i) =
        IF ms[i].role = "user"
        THEN ToSet((IF ms[i].metadata.there THEN ms[i].metadata ELSE ms[i].top).refs) \ {"junk"}
        ELSE {}
  BY ContextUses DEF Context!Named, Context!Junk
<1> HIDE DEF ms, n
<1>6. MentionParts \in [1 .. n -> Seq(Tokens)]
  BY <1>2, <1>3, MentionsAre
<1>7. MentionParts \in Seq(Seq(Tokens))
  BY <1>2, <1>6, SeqDef
<1>8. \A i \in DOMAIN ms : ToSet(MentionParts[i]) = Context!Named(i)
  BY <1>2, <1>3, <1>5, MentionsAre
<1>9. QED BY <1>3, <1>4, <1>7, <1>8 DEF ms

LEMMA ItemsAre ==
    ASSUME post \in MayPost, config \in MayConfigure
    PROVE  Context!Items \in Seq(Lines)
<1> DEFINE f == Context!Manifest
           g == Append(f, "hint")
           l == [label |-> <<"word">>, value |-> g]
           a == IF config.clientContext THEN post.context ELSE <<>>
           b == IF config.manifest THEN Context!AttachmentItems ELSE <<>>
<1>1. f \in Seq(Tokens)
  BY PartsAre, FlattenType, FirstsType
<1>2. "hint" \in Tokens /\ "word" \in Tokens
  BY DEF Tokens
<1>3. Context!AttachmentItems = IF f = <<>> THEN <<>> ELSE <<l>>
  BY DEF Context!AttachmentItems
<1> HIDE DEF f
<1>4. g \in Seq(Tokens) /\ <<"word">> \in Seq(Tokens)
  BY <1>1, <1>2, AppendProperties
<1> HIDE DEF g
<1>5. l \in Lines
  BY <1>4 DEF Lines
<1> HIDE DEF l
<1>6. <<l>> \in Seq(Lines) /\ <<>> \in Seq(Lines)
  BY <1>5, EmptySeq
<1>7. a \in Seq(Lines)
  BY <1>6 DEF MayPost
<1>8. b \in Seq(Lines)
  BY <1>3, <1>6
<1>9. Context!Items = Cat(a, b)
  BY DEF Context!Items, Cat
<1> HIDE DEF a, b
<1>10. QED BY <1>7, <1>8, <1>9, CatType

LEMMA ManifestIsInOrder ==
    ASSUME post \in MayPost
    PROVE  Context!ManifestIsTheUsers
<1> DEFINE P == MentionParts
           s == FlattenSeq(P)
           f == Firsts(s)
           D == DOMAIN post.messages
           N(i) == Context!Named(i)
           where(id) == {i \in D : id \in N(i)}
           first(id) == Context!Min(where(id))
<1>1. /\ P \in Seq(Seq(Tokens)) /\ DOMAIN P = D
      /\ \A i \in D : ToSet(P[i]) = N(i)
      /\ Context!Manifest = f
  BY PartsAre
<1>2. D \subseteq Nat
  BY LenProperties DEF MayPost
<1>3. Context!ManifestIsTheUsers <=>
        /\ ToSet(Context!Manifest) = UNION {N(i) : i \in D}
        /\ \A i \in DOMAIN Context!Manifest, j \in DOMAIN Context!Manifest :
             i < j => Context!Manifest[i] # Context!Manifest[j]
                      /\ first(Context!Manifest[i]) <= first(Context!Manifest[j])
  BY ContextUses DEF Context!ManifestIsTheUsers
<1> HIDE DEF P, D, N
<1>4. s \in Seq(Tokens) /\ ToSet(s) = UNION {ToSet(t) : t \in ToSet(P)}
  BY <1>1, FlattenType, FlattenHas
<1> HIDE DEF s
<1>5. f \in Seq(Tokens) /\ ToSet(f) = ToSet(s) /\ Distinct(f) /\ FirstsAhead(s)
  BY <1>4, FirstsType, FirstsHave, FirstsOrdered
<1>6. ToSet(s) = UNION {N(i) : i \in D}
  <2>1. ToSet(P) = {P[i] : i \in D}
    BY <1>1 DEF ToSet
  <2>2. QED BY <1>1, <1>4, <2>1
<1>7. \A i \in DOMAIN f, j \in DOMAIN f : i < j => Ahead(s, f[i], f[j])
  BY <1>5 DEF FirstsAhead
<1> HIDE DEF f
<1>8. DOMAIN f \subseteq Nat /\ \A i \in DOMAIN f : f[i] \in ToSet(s)
  <2>1. DOMAIN f \subseteq Nat
    BY <1>5, LenProperties
  <2>2. \A i \in DOMAIN f : f[i] \in ToSet(f)
    BY DEF ToSet
  <2>3. QED BY <1>5, <2>1, <2>2
<1>9. ASSUME NEW id \in ToSet(s)
      PROVE  first(id) \in where(id) /\ \A k \in where(id) : first(id) <= k
  <2>1. where(id) # {} /\ where(id) \in SUBSET Nat
    BY <1>2, <1>6
  <2> HIDE DEF where
  <2>2. PICK x \in where(id) : \A y \in where(id) : ~(y < x)
    BY <2>1, Least
  <2>3. x \in where(id) /\ \A y \in where(id) : x <= y
    BY <2>1, <2>2
  <2>4. QED BY <2>3 DEF Context!Min
<1>10. ASSUME NEW i \in DOMAIN f, NEW j \in DOMAIN f, i < j
       PROVE  f[i] # f[j] /\ first(f[i]) <= first(f[j])
  <2>1. f[i] # f[j]
    BY <1>5, <1>8, <1>10 DEF Distinct
  <2>2. AheadInParts(P, f[i], f[j])
    BY <1>1, <1>7, <1>10, PartsAhead DEF s
  <2>3. f[i] \in ToSet(s) /\ f[j] \in ToSet(s)
    BY <1>8
  <2> DEFINE k == first(f[j])
             x == first(f[i])
  <2>4. k \in where(f[j]) /\ x \in where(f[i]) /\ \A m \in where(f[i]) : x <= m
    BY <1>9, <2>3
  <2> HIDE DEF first, k, x
  <2>5. k \in D /\ f[j] \in ToSet(P[k])
    BY <1>1, <2>4
  <2>6. PICK m \in 1 .. k : f[i] \in ToSet(P[m])
    BY <1>1, <2>2, <2>5 DEF AheadInParts
  <2>7. m \in DOMAIN P
    <3>1. DOMAIN P = 1 .. Len(P) /\ Len(P) \in Nat
      BY <1>1, LenProperties
    <3>2. QED BY <1>1, <2>5, <2>6, <3>1
  <2>8. m \in where(f[i])
    BY <1>1, <2>6, <2>7
  <2>9. x <= m /\ x \in Nat /\ k \in Nat
    BY <1>2, <2>4, <2>8
  <2>10. x <= k
    BY <2>6, <2>9
  <2>11. QED BY <2>1, <2>10 DEF k, x
<1>11. QED BY <1>1, <1>3, <1>5, <1>6, <1>10

-----------------------------------------------------------------------------
(* The walk.                                                               *)

\* An item's value as it may be passed on, those of the first n items, and
\* what the sections hold.
Spelled(item) == Context!Neutralise(Context!Strip(item.value))
Prefix(items, n) == FlattenSeq([i \in 1 .. n |-> Spelled(items[i])])
Values(parts) == FlattenSeq([i \in DOMAIN parts |-> parts[i].value])

LEMMA SpelledIs ==
    ASSUME NEW item \in Lines
    PROVE  Spelled(item) \in Seq(Tokens) /\ "marker" \notin ToSet(Spelled(item))
<1>1. item.value \in Seq(Tokens)
  BY DEF Lines
<1>2. Context!Strip(item.value) \in Seq(Tokens)
  BY <1>1, StripGives
<1>3. QED BY <1>2, NeutraliseGives DEF Spelled

LEMMA PrefixType ==
    ASSUME NEW items \in Seq(Lines), NEW n \in 0 .. Len(items)
    PROVE  /\ [i \in 1 .. n |-> Spelled(items[i])] \in Seq(Seq(Tokens))
           /\ Prefix(items, n) \in Seq(Tokens)
           /\ Len(Prefix(items, n)) \in Nat
<1> DEFINE p == [i \in 1 .. n |-> Spelled(items[i])]
<1>1. Len(items) \in Nat /\ \A i \in 1 .. Len(items) : items[i] \in Lines
  BY LenProperties, ElementOfSeq
<1>2. n \in Nat /\ \A i \in 1 .. n : i \in 1 .. Len(items)
  BY <1>1
<1>3. p \in [1 .. n -> Seq(Tokens)]
  BY <1>1, <1>2, SpelledIs
<1>4. p \in Seq(Seq(Tokens))
  BY <1>2, <1>3, SeqDef
<1> HIDE DEF p
<1>5. FlattenSeq(p) \in Seq(Tokens)
  BY <1>4, FlattenType
<1>6. QED BY <1>4, <1>5, LenProperties DEF Prefix, p

LEMMA PrefixNone == ASSUME NEW items PROVE Prefix(items, 0) = <<>>
<1>1. [i \in 1 .. 0 |-> Spelled(items[i])] = <<>>
  OBVIOUS
<1>2. QED BY <1>1, FlattenNone DEF Prefix

LEMMA PrefixMore ==
    ASSUME NEW items \in Seq(Lines), NEW n \in 1 .. Len(items)
    PROVE  Prefix(items, n) = Cat(Prefix(items, n - 1), Spelled(items[n]))
<1> DEFINE p == [i \in 1 .. n - 1 |-> Spelled(items[i])]
           q == [i \in 1 .. n |-> Spelled(items[i])]
           v == Spelled(items[n])
           r == Append(p, v)
<1>1. Len(items) \in Nat /\ items[n] \in Lines /\ n \in Nat /\ n - 1 \in 0 .. Len(items) /\ n \in 0 .. Len(items)
  BY LenProperties, ElementOfSeq
<1>2. v \in Seq(Tokens)
  BY <1>1, SpelledIs
<1>3. p \in Seq(Seq(Tokens)) /\ q \in Seq(Seq(Tokens))
  BY <1>1, PrefixType
<1>4. DOMAIN p = 1 .. n - 1 /\ \A i \in 1 .. n - 1 : p[i] = Spelled(items[i])
  OBVIOUS
<1>5. DOMAIN q = 1 .. n /\ \A i \in 1 .. n : q[i] = Spelled(items[i])
  OBVIOUS
<1>6. q[n] = v
  BY <1>1, <1>5
<1> HIDE DEF p, q, v
<1>7. Len(p) = n - 1 /\ Len(q) = n
  BY <1>1, <1>3, <1>4, <1>5, LenProperties
<1>8. r \in Seq(Seq(Tokens)) /\ Len(r) = n /\ r[n] = v /\ \A i \in 1 .. n - 1 : r[i] = p[i]
  <2>1. r \in Seq(Seq(Tokens)) /\ Len(r) = n - 1 + 1 /\ r[n - 1 + 1] = v /\ \A i \in 1 .. n - 1 : r[i] = p[i]
    BY <1>2, <1>3, <1>7, AppendProperties
  <2>2. n - 1 + 1 = n
    BY <1>1
  <2>3. QED BY <2>1, <2>2
<1> HIDE DEF r
<1>9. \A i \in 1 .. n : r[i] = q[i]
  <2>1. \A i \in 1 .. n : i = n \/ i \in 1 .. n - 1
    BY <1>1
  <2>2. QED BY <1>4, <1>5, <1>6, <1>8, <2>1
<1>10. r = q
  BY <1>3, <1>7, <1>8, <1>9, SeqEqual
<1>11. FlattenSeq(r) = FlattenSeq(p) \o v
  BY <1>2, <1>3, FlattenMore DEF r
<1>12. QED BY <1>10, <1>11 DEF Prefix, Cat, p, q, v

(* Of a longer walk, a shorter one is the beginning.                       *)
LEMMA PrefixGrows ==
    ASSUME NEW items \in Seq(Lines), NEW n \in 0 .. Len(items)
    PROVE  \E t \in Seq(Tokens) : Prefix(items, Len(items)) = Cat(Prefix(items, n), t)
<1> DEFINE l == Len(items)
           P(k) == Prefix(items, k)
           Q == {d \in Nat : n + d <= l => \E t \in Seq(Tokens) : P(n + d) = Cat(P(n), t)}
<1>1. l \in Nat /\ n \in Nat /\ n <= l /\ n \in 0 .. l
  BY LenProperties
<1>2. \A k \in 0 .. l : P(k) \in Seq(Tokens)
  BY PrefixType
<1>3. \A k \in 1 .. l : P(k) = Cat(P(k - 1), Spelled(items[k])) /\ Spelled(items[k]) \in Seq(Tokens)
  BY PrefixMore, SpelledIs, ElementOfSeq
<1> HIDE DEF l, P
<1>4. 0 \in Q
  <2>1. P(n) = Cat(P(n), <<>>) /\ <<>> \in Seq(Tokens)
    BY <1>1, <1>2, CatNothing
  <2>2. n + 0 = n
    BY <1>1
  <2>3. QED BY <2>1, <2>2
<1>5. ASSUME NEW d \in Q PROVE d + 1 \in Q
  <2>1. SUFFICES ASSUME n + (d + 1) <= l PROVE \E t \in Seq(Tokens) : P(n + (d + 1)) = Cat(P(n), t)
    OBVIOUS
  <2>2. d \in Nat /\ n + d <= l /\ n + (d + 1) \in 1 .. l /\ n + (d + 1) - 1 = n + d
    BY <1>1, <2>1
  <2>3. PICK t \in Seq(Tokens) : P(n + d) = Cat(P(n), t)
    BY <2>2
  <2> DEFINE v == Spelled(items[n + (d + 1)])
  <2>4. P(n + (d + 1)) = Cat(P(n + d), v) /\ v \in Seq(Tokens)
    BY <1>3, <2>2
  <2> HIDE DEF v
  <2>5. P(n) \in Seq(Tokens)
    BY <1>1, <1>2
  <2>6. Cat(Cat(P(n), t), v) = Cat(P(n), Cat(t, v)) /\ Cat(t, v) \in Seq(Tokens)
    BY <2>4, <2>5, CatAssociates, CatType
  <2>7. QED BY <2>3, <2>4, <2>6
<1>6. Q = Nat
  <2>1. Q \in SUBSET Nat
    OBVIOUS
  <2> HIDE DEF Q
  <2>2. QED BY <1>4, <1>5, <2>1, SetInduction
<1>7. l - n \in Nat /\ n + (l - n) = l
  BY <1>1
<1>8. \A d \in Nat : n + d <= l => \E t \in Seq(Tokens) : P(n + d) = Cat(P(n), t)
  BY <1>6
<1> HIDE DEF Q
<1>9. \E t \in Seq(Tokens) : P(l) = Cat(P(n), t)
  <2> DEFINE d == l - n
  <2>1. d \in Nat /\ n + d = l /\ n + d <= l
    BY <1>1, <1>7
  <2> HIDE DEF d
  <2>2. \E t \in Seq(Tokens) : P(n + d) = Cat(P(n), t)
    BY <1>8, <2>1
  <2>3. QED BY <2>1, <2>2
<1>10. QED BY <1>9 DEF P, l

LEMMA ValuesMore ==
    ASSUME NEW parts \in Seq(Lines), NEW e \in Lines
    PROVE  /\ Values(parts) \in Seq(Tokens)
           /\ Values(Append(parts, e)) = Cat(Values(parts), e.value)
<1> DEFINE n == Len(parts)
           r == Append(parts, e)
           p == [i \in DOMAIN parts |-> parts[i].value]
           q == [i \in DOMAIN r |-> r[i].value]
           v == e.value
           u == Append(p, v)
<1>1. /\ n \in Nat /\ DOMAIN parts = 1 .. n /\ DOMAIN r = 1 .. n + 1
      /\ \A i \in 1 .. n : r[i] = parts[i] /\ parts[i] \in Lines
      /\ r[n + 1] = e
  BY AppendProperties, LenProperties, ElementOfSeq
<1>2. v \in Seq(Tokens) /\ \A i \in 1 .. n : parts[i].value \in Seq(Tokens)
  BY <1>1 DEF Lines
<1> HIDE DEF n, r
<1>3. p \in [1 .. n -> Seq(Tokens)] /\ \A i \in 1 .. n : p[i] = parts[i].value
  BY <1>1, <1>2
<1>4. p \in Seq(Seq(Tokens)) /\ Len(p) = n
  BY <1>1, <1>3, SeqDef, LenProperties
<1>5. DOMAIN q = 1 .. n + 1 /\ \A i \in 1 .. n + 1 : q[i] = r[i].value
  BY <1>1
<1>6. q[n + 1] = v /\ \A i \in 1 .. n : q[i] = p[i]
  <2>1. \A i \in 1 .. n : i \in 1 .. n + 1
    BY <1>1
  <2>2. n + 1 \in 1 .. n + 1
    BY <1>1
  <2>3. QED BY <1>1, <1>3, <1>5, <2>1, <2>2
<1>7. q \in Seq(Seq(Tokens))
  <2>1. q \in [1 .. n + 1 -> Seq(Tokens)]
    <3>1. \A i \in 1 .. n + 1 : i \in 1 .. n \/ i = n + 1
      BY <1>1
    <3>2. \A i \in 1 .. n + 1 : q[i] \in Seq(Tokens)
      BY <1>2, <1>3, <1>6, <3>1
    <3>3. QED BY <1>1, <1>5, <3>2
  <2>2. n + 1 \in Nat
    BY <1>1
  <2>3. QED BY <2>1, <2>2, SeqDef
<1> HIDE DEF p, q, v
<1>8. Len(q) = n + 1
  BY <1>1, <1>5, <1>7, LenProperties
<1>9. u \in Seq(Seq(Tokens)) /\ Len(u) = n + 1 /\ u[n + 1] = v /\ \A i \in 1 .. n : u[i] = p[i]
  BY <1>2, <1>4, AppendProperties
<1> HIDE DEF u
<1>10. u = q
  <2>1. \A i \in 1 .. n + 1 : i \in 1 .. n \/ i = n + 1
    BY <1>1
  <2>2. \A i \in 1 .. n + 1 : u[i] = q[i]
    BY <1>6, <1>9, <2>1
  <2>3. QED BY <1>7, <1>8, <1>9, <2>2, SeqEqual
<1>11. FlattenSeq(p) \in Seq(Tokens) /\ FlattenSeq(u) = FlattenSeq(p) \o v
  BY <1>2, <1>4, FlattenType, FlattenMore DEF u
<1>12. QED BY <1>10, <1>11 DEF Values, Cat, p, q, r, v

LEMMA ValuesNone == Values(<<>>) = <<>>
<1>1. [i \in DOMAIN <<>> |-> <<>>[i].value] = <<>>
  OBVIOUS
<1>2. QED BY <1>1, FlattenNone DEF Values

(* No section closes the fence, or opens one.                              *)
InFence(piece) ==
    /\ "marker" \notin ToSet(piece.label) \union ToSet(piece.value)
    /\ "newline" \notin ToSet(piece.label) /\ Len(piece.label) <= 3

(* Where the walk is: it has passed on the first max characters of the     *)
(* items behind it, has what is left of max for the rest, and knows of a   *)
(* cut if there was one.                                                   *)
WalkTyped(items, w, parts, r, t) ==
    /\ w \in 1 .. Len(items) + 1 /\ parts \in Seq(Lines) /\ r \in Nat /\ t \in BOOLEAN
    /\ \A k \in DOMAIN parts : InFence(parts[k])

WalkCut(items, max, w, parts) == Values(parts) = FirstOfText(Prefix(items, w - 1), max)
WalkLeft(max, parts, r) == r = max - Len(Values(parts))
WalkTold(items, max, w, t) == t <=> Len(Prefix(items, w - 1)) > max

WalkGood(items, max, w, parts, r, t) ==
    /\ WalkTyped(items, w, parts, r, t)
    /\ WalkCut(items, max, w, parts)
    /\ WalkLeft(max, parts, r)
    /\ WalkTold(items, max, w, t)

LEMMA WalkStarts ==
    ASSUME NEW items \in Seq(Lines), NEW max \in Nat
    PROVE  WalkGood(items, max, 1, <<>>, max, FALSE)
<1>1. Len(items) \in Nat
  BY LenProperties
<1>2. Prefix(items, 1 - 1) = <<>> /\ Values(<<>>) = <<>>
  BY PrefixNone, ValuesNone
<1>3. FirstOfText(<<>>, max) = <<>>
  <2>1. <<>> \in Seq(Tokens) /\ Len(<<>>) <= max
    BY EmptySeq
  <2>2. QED BY <2>1, CutAll
<1>4. <<>> \in Seq(Lines) /\ DOMAIN <<>> = {} /\ Len(<<>>) = 0
  BY EmptySeq
<1>5. 1 \in 1 .. Len(items) + 1
  BY <1>1
<1>6. WalkTyped(items, 1, <<>>, max, FALSE)
  BY <1>4, <1>5 DEF WalkTyped
<1>7. WalkLeft(max, <<>>, max)
  BY <1>2, <1>4 DEF WalkLeft
<1>8. WalkTold(items, max, 1, FALSE)
  BY <1>2, <1>4 DEF WalkTold
<1>9. QED BY <1>2, <1>3, <1>6, <1>7, <1>8 DEF WalkGood, WalkCut

(* What the walk knows of the next item.                                   *)
LEMMA WalkNext ==
    ASSUME NEW items \in Seq(Lines), NEW w \in 1 .. Len(items)
    PROVE  /\ w - 1 \in 0 .. Len(items) /\ w \in 0 .. Len(items) /\ w + 1 \in 1 .. Len(items) + 1
           /\ w + 1 - 1 = w /\ Len(items) + 1 - 1 = Len(items) /\ Len(items) + 1 \in 1 .. Len(items) + 1
           /\ items[w] \in Lines
           /\ Prefix(items, w - 1) \in Seq(Tokens) /\ Len(Prefix(items, w - 1)) \in Nat
           /\ Spelled(items[w]) \in Seq(Tokens) /\ Len(Spelled(items[w])) \in Nat
           /\ "marker" \notin ToSet(Spelled(items[w]))
           /\ Prefix(items, w) = Cat(Prefix(items, w - 1), Spelled(items[w]))
<1>1. Len(items) \in Nat /\ items[w] \in Lines
  BY LenProperties, ElementOfSeq
<1>2. /\ w - 1 \in 0 .. Len(items) /\ w \in 0 .. Len(items) /\ w + 1 \in 1 .. Len(items) + 1
      /\ w + 1 - 1 = w /\ Len(items) + 1 - 1 = Len(items) /\ Len(items) + 1 \in 1 .. Len(items) + 1
  BY <1>1
<1>3. Spelled(items[w]) \in Seq(Tokens) /\ "marker" \notin ToSet(Spelled(items[w]))
  BY <1>1, SpelledIs
<1>4. QED BY <1>1, <1>2, <1>3, PrefixType, PrefixMore, LenProperties

LEMMA WalkSkips ==
    ASSUME NEW items \in Seq(Lines), NEW max \in Nat, NEW w, NEW parts, NEW r, NEW t,
           WalkGood(items, max, w, parts, r, t), w \in 1 .. Len(items), Spelled(items[w]) = <<>>
    PROVE  WalkGood(items, max, w + 1, parts, r, t)
<1>1. Prefix(items, w) = Prefix(items, w - 1)
  BY WalkNext, CatNothing
<1>2. w + 1 - 1 = w /\ w + 1 \in 1 .. Len(items) + 1
  BY WalkNext
<1>3. QED BY <1>1, <1>2 DEF WalkGood, WalkTyped, WalkCut, WalkLeft, WalkTold

Tells(u, t, n, r) == u <=> t \/ n > r

LEMMA WalkTakes ==
    ASSUME NEW items \in Seq(Lines), NEW max \in Nat, NEW w, NEW parts, NEW r, NEW t,
           WalkGood(items, max, w, parts, r, t), w \in 1 .. Len(items), r > 0,
           NEW piece \in Lines, InFence(piece), piece.value = FirstOfText(Spelled(items[w]), r),
           NEW u \in BOOLEAN, Tells(u, t, Len(Spelled(items[w])), r)
    PROVE  WalkGood(items, max, w + 1, Append(parts, piece), r - Len(piece.value), u)
<1> DEFINE P == Prefix(items, w - 1)
           v == Spelled(items[w])
           c == piece.value
           p == Len(P)
           l == Len(v)
           all == Append(parts, piece)
           left == r - Len(c)
<1>1. /\ w + 1 - 1 = w /\ w + 1 \in 1 .. Len(items) + 1
      /\ P \in Seq(Tokens) /\ p \in Nat /\ v \in Seq(Tokens) /\ l \in Nat
      /\ Prefix(items, w) = Cat(P, v)
  BY WalkNext
<1>2. parts \in Seq(Lines) /\ r \in Nat /\ Values(parts) = FirstOfText(P, max) /\ r = max - Len(Values(parts))
      /\ (t <=> p > max)
  BY DEF WalkGood, WalkTyped, WalkCut, WalkLeft, WalkTold
<1>3. c = FirstOfText(v, r)
  OBVIOUS
<1>4. u <=> t \/ l > r
  BY DEF Tells
<1> HIDE DEF P, v, c
<1>5. Len(FirstOfText(P, max)) = IF max <= p THEN max ELSE p
  BY <1>1, CutGives
<1>6. c \in Seq(Tokens) /\ Len(c) = (IF r <= l THEN r ELSE l)
  BY <1>1, <1>2, <1>3, CutGives
<1> HIDE DEF p, l
<1>7. p < max /\ r = max - p
  BY <1>1, <1>2, <1>5
<1>8. FirstOfText(P, max) = P
  <2>1. Len(P) <= max
    BY <1>1, <1>7 DEF p
  <2>2. QED BY <1>1, <2>1, CutAll
<1>9. FirstOfText(Cat(P, v), max) = Cat(P, c)
  <2>1. Len(P) <= max /\ max - Len(P) = r
    BY <1>1, <1>7 DEF p
  <2>2. QED BY <1>1, <1>3, <2>1, CutLong
<1>10. Values(all) = Cat(P, c)
  <2>1. Values(all) = Cat(Values(parts), c)
    BY <1>2, ValuesMore DEF c
  <2>2. QED BY <1>2, <1>8, <2>1
<1>11. Len(Cat(P, c)) = p + Len(c) /\ Len(Cat(P, v)) = p + l
  BY <1>1, <1>6, ConcatProperties DEF Cat, p, l
<1>12. /\ all \in Seq(Lines) /\ DOMAIN parts = 1 .. Len(parts) /\ DOMAIN all = 1 .. Len(parts) + 1
       /\ all[Len(parts) + 1] = piece /\ \A k \in 1 .. Len(parts) : all[k] = parts[k]
       /\ Len(parts) \in Nat
  BY <1>2, AppendProperties, LenProperties
<1>13. \A k \in DOMAIN all : InFence(all[k])
  <2>1. \A k \in 1 .. Len(parts) + 1 : k \in 1 .. Len(parts) \/ k = Len(parts) + 1
    BY <1>12
  <2>2. \A k \in DOMAIN parts : InFence(parts[k])
    BY DEF WalkGood, WalkTyped
  <2> HIDE DEF all
  <2>3. QED BY <1>12, <2>1, <2>2
<1> HIDE DEF all
<1>14. left \in Nat
  BY <1>1, <1>2, <1>6
<1>15. WalkTyped(items, w + 1, all, left, u)
  BY <1>1, <1>12, <1>13, <1>14 DEF WalkTyped
<1>16. WalkCut(items, max, w + 1, all)
  BY <1>1, <1>9, <1>10 DEF WalkCut
<1>17. left = max - (p + Len(c))
  <2> DEFINE k == Len(c)
  <2>1. k \in Nat /\ p \in Nat /\ r = max - p
    BY <1>1, <1>2, <1>6, <1>7
  <2> HIDE DEF k
  <2>2. r - k = max - (p + k)
    BY <2>1
  <2>3. QED BY <2>2 DEF k
<1>18. WalkLeft(max, all, left)
  BY <1>10, <1>11, <1>17 DEF WalkLeft
<1>19. u <=> p + l > max
  <2>1. ~t
    BY <1>1, <1>2, <1>7
  <2>2. l > r <=> p + l > max
    BY <1>1, <1>7
  <2>3. QED BY <1>4, <2>1, <2>2
<1>20. WalkTold(items, max, w + 1, u)
  BY <1>1, <1>11, <1>19 DEF WalkTold
<1>21. QED BY <1>15, <1>16, <1>18, <1>20 DEF WalkGood, all, left, c

LEMMA WalkBreaksOff ==
    ASSUME NEW items \in Seq(Lines), NEW max \in Nat, NEW w, NEW parts, NEW r, NEW t,
           WalkGood(items, max, w, parts, r, t), w \in 1 .. Len(items), r = 0,
           Spelled(items[w]) # <<>>
    PROVE  WalkGood(items, max, Len(items) + 1, parts, r, TRUE)
<1> DEFINE P == Prefix(items, w - 1)
           v == Spelled(items[w])
           all == Prefix(items, Len(items))
           n == Len(items)
<1>1. /\ w \in 0 .. n /\ n + 1 - 1 = n /\ n + 1 \in 1 .. n + 1
      /\ P \in Seq(Tokens) /\ Len(P) \in Nat /\ v \in Seq(Tokens) /\ Len(v) \in Nat
      /\ Prefix(items, w) = Cat(P, v)
  BY WalkNext
<1>2. parts \in Seq(Lines) /\ r \in Nat /\ Values(parts) = FirstOfText(P, max) /\ r = max - Len(Values(parts))
  BY DEF WalkGood, WalkTyped, WalkCut, WalkLeft
<1>3. v # <<>>
  OBVIOUS
<1>4. PICK x \in Seq(Tokens) : all = Cat(Prefix(items, w), x)
  BY <1>1, PrefixGrows
<1> HIDE DEF P, v, all, n
<1>5. Len(FirstOfText(P, max)) = IF max <= Len(P) THEN max ELSE Len(P)
  BY <1>1, CutGives
<1>6. max <= Len(P)
  <2> DEFINE k == Len(P)
             m == Len(FirstOfText(P, max))
  <2>1. k \in Nat /\ m = (IF max <= k THEN max ELSE k) /\ 0 = max - m
    BY <1>1, <1>2, <1>5
  <2> HIDE DEF k, m
  <2>2. max <= k
    BY <2>1
  <2>3. QED BY <2>2 DEF k
<1>7. Len(v) > 0
  BY <1>1, <1>3, EmptySeq
<1> DEFINE c == Cat(v, x)
<1>8. all = Cat(P, c) /\ c \in Seq(Tokens) /\ Len(c) = Len(v) + Len(x) /\ Len(x) \in Nat
  BY <1>1, <1>4, CatAssociates, CatType, ConcatProperties, LenProperties DEF Cat
<1> HIDE DEF c
<1>9. FirstOfText(all, max) = FirstOfText(P, max)
  BY <1>1, <1>6, <1>8, CutShort
<1>10. Len(all) = Len(P) + Len(c)
  BY <1>1, <1>8, ConcatProperties DEF Cat
<1>11. Len(all) > max
  <2> DEFINE k == Len(P)
             l == Len(v)
             m == Len(x)
             j == Len(all)
  <2>1. k \in Nat /\ l \in Nat /\ m \in Nat /\ l > 0 /\ max <= k /\ j = k + (l + m)
    BY <1>1, <1>6, <1>7, <1>8, <1>10
  <2> HIDE DEF k, l, m, j
  <2>2. j > max
    BY <2>1
  <2>3. QED BY <2>2 DEF j
<1>12. WalkTyped(items, n + 1, parts, r, TRUE)
  BY <1>1, <1>2 DEF WalkGood, WalkTyped, n
<1>13. WalkCut(items, max, n + 1, parts)
  BY <1>1, <1>2, <1>9 DEF WalkCut, all, n
<1>14. WalkTold(items, max, n + 1, TRUE)
  BY <1>1, <1>11 DEF WalkTold, all, n
<1>15. QED BY <1>12, <1>13, <1>14 DEF WalkGood, n

ContextInv ==
    /\ post \in MayPost /\ config \in MayConfigure
    /\ WalkGood(Context!Items, config.maxChars, walked, sections, remaining, truncated)

LEMMA ContextStart == (Context!Init \/ ContextAtRest) => ContextInv
<1>1. post \in MayPost /\ config \in MayConfigure /\ walked = 1 /\ sections = <<>> /\ truncated = FALSE
      /\ remaining = config.maxChars => ContextInv
  <2> SUFFICES ASSUME post \in MayPost, config \in MayConfigure PROVE
        WalkGood(Context!Items, config.maxChars, 1, <<>>, config.maxChars, FALSE)
    BY DEF ContextInv
  <2>1. Context!Items \in Seq(Lines) /\ config.maxChars \in Nat
    BY ItemsAre DEF MayConfigure
  <2>2. QED BY <2>1, WalkStarts
<1>2. ASSUME Context!Init PROVE ContextInv
  BY <1>1, <1>2, PostedAre, ConfiguredAre DEF Context!Init
<1>3. ASSUME ContextAtRest PROVE ContextInv
  <2>1. [context |-> <<>>, messages |-> <<>>] \in MayPost
    BY EmptySeq DEF MayPost
  <2> DEFINE c == [clientContext |-> TRUE, manifest |-> TRUE, maxChars |-> 0,
                   delivery |-> "tool", operator |-> TRUE]
  <2>2. c \in Configured /\ c.maxChars = 0
    BY DEF Configured
  <2> HIDE DEF c
  <2>3. config \in Configured /\ config.maxChars = 0
    BY <1>3, <2>2 DEF ContextAtRest
  <2>4. QED BY <1>1, <1>3, <2>1, <2>3, ConfiguredAre DEF ContextAtRest
<1>4. QED BY <1>2, <1>3

LEMMA ContextKept == ContextInv /\ [Context!Next]_contextVars => ContextInv'
<1> SUFFICES ASSUME ContextInv, [Context!Next]_contextVars PROVE ContextInv'
  OBVIOUS
<1> DEFINE items == Context!Items
           max == config.maxChars
<1>1. /\ post \in MayPost /\ config \in MayConfigure
      /\ WalkGood(items, max, walked, sections, remaining, truncated)
      /\ items \in Seq(Lines) /\ max \in Nat
  BY ItemsAre DEF ContextInv, MayConfigure
<1>2. UNCHANGED <<post, config>>
  BY DEF Context!Next, Context!SkipBlank, Context!Take, Context!BreakOff, Context!Over, Context!vars, contextVars
<1>3. items' = items /\ max' = max
  BY <1>2 DEF Context!Items, Context!AttachmentItems, Context!Manifest, Context!Mentions, Context!Refs
<1>4. SUFFICES WalkGood(items, max, walked', sections', remaining', truncated')
  BY <1>1, <1>2, <1>3 DEF ContextInv
<1>5. /\ DOMAIN items = 1 .. Len(items)
      /\ remaining \in Nat /\ truncated \in BOOLEAN
  BY <1>1, LenProperties DEF WalkGood, WalkTyped
<1>6. Context!Value = Spelled(items[walked])
  BY DEF Context!Value, Spelled
<1>7. CASE Context!SkipBlank
  <2>1. walked \in 1 .. Len(items) /\ Spelled(items[walked]) = <<>>
        /\ walked' = walked + 1 /\ UNCHANGED <<sections, remaining, truncated>>
    BY <1>5, <1>6, <1>7 DEF Context!SkipBlank
  <2> HIDE DEF items, max
  <2>2. QED BY <1>1, <2>1, WalkSkips
<1>8. CASE Context!Take
  <2> DEFINE c == Context!Cut(Context!Value, remaining)
             piece == [label |-> Context!Label(items[walked].label), value |-> c]
             v == Spelled(items[walked])
  <2>1. /\ walked \in 1 .. Len(items) /\ remaining > 0
        /\ sections' = Append(sections, piece) /\ remaining' = remaining - Len(c)
        /\ truncated' = (truncated \/ Len(Context!Value) > remaining)
        /\ walked' = walked + 1
    BY <1>5, <1>8 DEF Context!Take
  <2> HIDE DEF items, max
  <2>2. /\ items[walked] \in Lines /\ v \in Seq(Tokens) /\ "marker" \notin ToSet(v)
    BY <1>1, <2>1, WalkNext
  <2>3. c = FirstOfText(v, remaining)
    <3>1. Context!Cut(v, remaining) = FirstOfText(v, remaining)
      BY <1>5, <2>2, CutIs
    <3>2. QED BY <1>6, <3>1
  <2>4. c \in Seq(Tokens) /\ ToSet(c) \subseteq ToSet(v)
    BY <1>5, <2>2, <2>3, CutGives, CutHas
  <2> DEFINE lab == Context!Label(items[walked].label)
  <2>5. items[walked].label \in Seq(Tokens)
    BY <2>2 DEF Lines
  <2>6. /\ lab \in Seq(Tokens) /\ Len(lab) <= 3
        /\ "marker" \notin ToSet(lab) /\ "newline" \notin ToSet(lab)
    BY <2>5, LabelGives
  <2> HIDE DEF c, lab
  <2>7. piece \in Lines /\ InFence(piece) /\ piece.value = c
    BY <2>2, <2>4, <2>6 DEF Lines, InFence, lab
  <2>8. truncated' \in BOOLEAN /\ Tells(truncated', truncated, Len(v), remaining)
    BY <1>5, <1>6, <2>1 DEF Tells
  <2> HIDE DEF piece, v
  <2>9. WalkGood(items, max, walked + 1, Append(sections, piece), remaining - Len(piece.value), truncated')
    BY <1>1, <2>1, <2>3, <2>7, <2>8, WalkTakes DEF v
  <2>10. QED BY <2>1, <2>7, <2>9
<1>9. CASE Context!BreakOff
  <2>1. walked \in 1 .. Len(items) /\ Spelled(items[walked]) # <<>> /\ remaining = 0
        /\ walked' = Len(items) + 1 /\ truncated' = TRUE /\ UNCHANGED <<sections, remaining>>
    BY <1>5, <1>6, <1>9 DEF Context!BreakOff
  <2> HIDE DEF items, max
  <2>2. QED BY <1>1, <2>1, WalkBreaksOff
<1>10. CASE Context!Over \/ UNCHANGED contextVars
  BY <1>1, <1>10 DEF Context!Over, Context!vars, contextVars
<1>11. QED BY <1>7, <1>8, <1>9, <1>10 DEF Context!Next

LEMMA ContextMeans == ContextInv => ContextIsFenced
<1> SUFFICES ASSUME ContextInv PROVE ContextIsFenced
  OBVIOUS
<1> DEFINE items == Context!Items
           max == config.maxChars
           P == Prefix(items, walked - 1)
<1>1. /\ post \in MayPost /\ config \in MayConfigure
      /\ WalkGood(items, max, walked, sections, remaining, truncated)
      /\ items \in Seq(Lines) /\ max \in Nat
  BY ItemsAre DEF ContextInv, MayConfigure
<1>2. /\ walked \in 1 .. Len(items) + 1 /\ sections \in Seq(Lines)
      /\ remaining \in Nat /\ truncated \in BOOLEAN
      /\ \A k \in DOMAIN sections : InFence(sections[k])
      /\ Values(sections) = FirstOfText(P, max)
      /\ remaining = max - Len(Values(sections))
      /\ (truncated <=> Len(P) > max)
      /\ Len(items) \in Nat
  BY <1>1, LenProperties DEF WalkGood, WalkTyped, WalkCut, WalkLeft, WalkTold
<1>3. P \in Seq(Tokens)
  <2>1. walked - 1 \in 0 .. Len(items)
    BY <1>2
  <2> HIDE DEF items
  <2>2. QED BY <1>1, <2>1, PrefixType
<1>4. Context!TypeOK
  <2>1. Len(Values(sections)) \in Nat
    BY <1>1, <1>2, <1>3, CutGives, LenProperties
  <2> DEFINE k == Len(Values(sections))
  <2>2. k \in Nat /\ remaining = max - k
    BY <1>2, <2>1
  <2> HIDE DEF k, max
  <2>3. remaining \in 0 .. max
    BY <1>1, <1>2, <2>2
  <2>4. QED BY <1>2, <2>3 DEF Context!TypeOK, max
<1>5. Context!BlockIsAPrefix
  <2> SUFFICES ASSUME Context!Walked
               PROVE  /\ Context!Passed = Context!Cut(Context!Said, max)
                      /\ truncated <=> Len(Context!Said) > max
    BY DEF Context!BlockIsAPrefix
  <2>1. walked - 1 = Len(items)
    BY <1>2 DEF Context!Walked
  <2>2. Context!Passed = Values(sections)
    BY ContextUses DEF Context!Passed, Values
  <2>3. Context!Said = P
    <3>1. DOMAIN items = 1 .. Len(items)
      BY <1>1, LenProperties
    <3>2. Context!Said = FlattenSeq([i \in DOMAIN items |-> Spelled(items[i])])
      BY ContextUses DEF Context!Said, Spelled
    <3>3. QED BY <2>1, <3>1, <3>2 DEF Prefix
  <2> HIDE DEF P, max
  <2>4. Context!Cut(P, max) = FirstOfText(P, max)
    BY <1>1, <1>3, CutIs
  <2>5. QED BY <1>2, <2>2, <2>3, <2>4
<1>6. Context!FenceHolds
  <2>1. \A s \in Context!ToSet(sections) : InFence(s)
    BY <1>2, ContextUses DEF ToSet
  <2>2. QED BY <2>1, ContextUses DEF Context!FenceHolds, InFence
<1>7. Context!OneChannel
  <2> DEFINE rules == IF config.operator THEN <<"operator">> ELSE <<>>
             goes == config.delivery = "instructions" /\ Context!Block
             data == IF goes THEN <<"client">> ELSE <<>>
             run == Context!RunInstructions
  <2>1. run = rules \o data
    BY DEF Context!RunInstructions
  <2>2. Context!OffersContextTool <=> config.delivery = "tool" /\ Context!Block
    BY DEF Context!OffersContextTool
  <2>3. config.delivery \in {"instructions", "tool"}
    BY <1>1 DEF MayConfigure
  <2>4. Context!Contains(run, "client") <=> goes
    <3>1. Context!Contains(run, "client") <=> \E i \in 1 .. Len(run) : run[i] = "client"
      BY ContextUses
    <3> HIDE DEF run, goes
    <3>2. CASE config.operator /\ goes
      <4>1. rules = <<"operator">> /\ data = <<"client">>
        BY <3>2
      <4>2. run = <<"operator">> \o <<"client">>
        BY <2>1, <4>1
      <4>3. Len(run) = 2 /\ run[2] = "client"
        BY <4>2
      <4>4. QED BY <3>1, <3>2, <4>3
    <3>3. CASE config.operator /\ ~goes
      <4>1. run = <<"operator">>
        BY <2>1, <3>3
      <4>2. \A i \in 1 .. Len(run) : run[i] # "client"
        BY <4>1
      <4>3. QED BY <3>1, <3>3, <4>2
    <3>4. CASE ~config.operator /\ goes
      <4>1. run = <<"client">>
        BY <2>1, <3>4
      <4>2. 1 \in 1 .. Len(run) /\ run[1] = "client"
        BY <4>1
      <4>3. QED BY <3>1, <3>4, <4>2
    <3>5. CASE ~config.operator /\ ~goes
      <4>1. run = <<>>
        BY <2>1, <3>5
      <4>2. \A i \in 1 .. Len(run) : run[i] # "client"
        BY <4>1
      <4>3. QED BY <3>1, <3>5, <4>2
    <3>6. QED BY <3>2, <3>3, <3>4, <3>5
  <2>5. ASSUME config.operator PROVE run # <<>> /\ Head(run) = "operator"
    <3> HIDE DEF run, goes
    <3>1. CASE goes
      BY <2>1, <2>5, <3>1
    <3>2. CASE ~goes
      BY <2>1, <2>5, <3>2
    <3>3. QED BY <3>1, <3>2
  <2> DEFINE says == Context!Contains(run, "client")
             offers == Context!OffersContextTool
             block == Context!Block
  <2>6. /\ block <=> (says \/ offers)
        /\ ~(says /\ offers)
    <3>1. (says <=> config.delivery = "instructions" /\ block) /\ (offers <=> config.delivery = "tool" /\ block)
      BY <2>2, <2>4
    <3> HIDE DEF says, offers, block
    <3>2. QED BY <2>3, <3>1
  <2>7. QED BY <2>5, <2>6 DEF Context!OneChannel
<1>8. QED BY <1>1, <1>4, <1>5, <1>6, <1>7, ManifestIsInOrder DEF ContextIsFenced

(* ContextIsFenced: whatever a client posts of its entries and attachment  *)
(* ids, and whatever the budget, render_untrusted_context passes on the    *)
(* first max_chars of it and says so exactly when that is not all, with    *)
(* nothing in it that closes the fence; the manifest names what the user's *)
(* messages name, once, in the order of their first mentions; and the      *)
(* block goes by one channel, behind the operator's own rules.             *)
THEOREM ContextIsAlwaysFenced == MCSpec => []ContextIsFenced
<1>1. MCInit => ContextInv
  BY ContextStart DEF MCInit
<1>2. ContextInv /\ [MCNext]_<<part, vars, activityVars, contextVars>> => ContextInv'
  <2>1. [MCNext]_<<part, vars, activityVars, contextVars>> => [Context!Next]_contextVars
    BY DEF MCNext
  <2>2. QED BY <2>1, ContextKept
<1>3. QED BY <1>1, <1>2, ContextMeans, PTL DEF MCSpec
=============================================================================
