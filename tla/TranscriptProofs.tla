--------------------------- MODULE TranscriptProofs ---------------------------
(***************************************************************************)
(* What is proved of a run's transcript, for any setup of a run: that what *)
(* is stored of a run cut short is what the client saw of it, that a       *)
(* stored result says of its call what the stream said, and that an id     *)
(* lent to a dumped message is that of the words the client has under it.  *)
(*                                                                         *)
(* Good relates the transcript to the wire, each kept record to the events *)
(* it was made of; Fits relates both to the response under way, which has  *)
(* its draft last and its pending call under it.  Together they are Inv,   *)
(* and each event the run can stream keeps them.  The properties are then  *)
(* read off Inv, but for the outcomes, which wait in the run until its     *)
(* round is dumped: Tells follows them there.                              *)
(***************************************************************************)
EXTENDS MCMessages, SequenceLemmas

-----------------------------------------------------------------------------
(* What a run of a setup u streams and keeps.                              *)

Key(u) == Nat \union u.calls
Words(u) == Seq(u.texts)
Outcomes(u) == {"none"} \union u.outcomes
Kinds(u) == u.types \union {Provider}
Inside(u) == u.contents \union {Nothing}

Opening == [event : {"text_start"}, id : Nat]
Speaking(u) == [event : {"text"}, id : Nat, text : Words(u) \ {<<>>}]
Starting(u) == [event : {"call_start"}, call : u.calls, parent : Nat]
Ending(u) == [event : {"call_end"}, call : u.calls]
Resulting(u) == [event : {"result"}, id : Nat, call : u.calls, outcome : Outcomes(u)]
Reasoning == [event : {"reasoning_start"}, id : Nat]
Thinking(u) == [event : {"reasoning"}, id : Nat, text : Words(u) \ {<<>>}]
Snapping(u) == [event : {"snapshot"}, id : Nat, type : Kinds(u), content : u.contents,
                replace : BOOLEAN]
Changing(u) == [event : {"delta"}, id : Nat, type : Kinds(u), content : {Nothing},
                replace : {TRUE}]

Events(u) ==
    UNION {Opening, Speaking(u), Starting(u), Ending(u), Resulting(u), Reasoning, Thinking(u),
           Snapping(u), Changing(u)}

Drafts(u) == [kind : {"draft"}, id : Key(u), text : Words(u), calls : Seq(u.calls)]
Tools(u) == [kind : {"tool"}, id : Nat, call : u.calls, outcome : Outcomes(u)]
Items(u) == Drafts(u) \union Tools(u)

Parents(u) == u.calls \X Nat
Thought(u) == [id : Nat, text : Words(u)]
Activity(u) == [id : Nat, type : Kinds(u), content : Inside(u)]

\* A function from some of the calls to their parents.
Pending(u) == {f \in UNION {[D -> Nat] : D \in SUBSET u.calls} : TRUE}

Trs(u) == [items : Seq(Items(u)), pending : Pending(u), parents : Seq(Parents(u)),
           reasoning : Seq(Thought(u)), activities : Seq(Activity(u))]

LEMMA SetupIs ==
    ASSUME NEW u \in Setups
    PROVE  u.calls \intersect Nat = {} /\ <<>> \notin u.contents
BY TranscriptAssumption

LEMMA ItemIs ==
    ASSUME NEW u, NEW x \in Items(u)
    PROVE  IsDraft(x) <=> x \in Drafts(u)
BY DEF Items, Drafts, Tools, IsDraft

LEMMA AmongType ==
    ASSUME NEW S, NEW s \in Seq(S)
    PROVE  \A x \in ToSet(s) : x \in S
BY LenProperties, ElementOfSeq DEF ToSet

-----------------------------------------------------------------------------
(* What each event does to a transcript.                                   *)

LEMMA AddOpening ==
    ASSUME NEW u \in Setups, NEW t \in Trs(u), NEW e \in Opening
    PROVE  Add(t, e) = [t EXCEPT !.items = DraftFor(@, e.id)]
BY DEF Opening, Add

LEMMA AddSpeaking ==
    ASSUME NEW u \in Setups, NEW t \in Trs(u), NEW e \in Speaking(u)
    PROVE  Add(t, e) = [t EXCEPT !.items = Extend(@, e.id, e.text, <<>>)]
BY DEF Speaking, Add

LEMMA AddStarting ==
    ASSUME NEW u \in Setups, NEW t \in Trs(u), NEW e \in Starting(u)
    PROVE  Add(t, e) = [t EXCEPT !.pending = [c \in DOMAIN @ \union {e.call} |->
                                                   IF c = e.call THEN e.parent ELSE @[c]],
                                 !.parents = Append(@, <<e.call, e.parent>>)]
BY DEF Starting, Add

LEMMA AddEnding ==
    ASSUME NEW u \in Setups, NEW t \in Trs(u), NEW e \in Ending(u)
    PROVE  Add(t, e) =
             [t EXCEPT !.items = Extend(@, IF t.pending[e.call] = NoId THEN e.call ELSE t.pending[e.call],
                                        Nothing, <<e.call>>),
                       !.pending = [c \in DOMAIN @ \ {e.call} |-> @[c]]]
BY DEF Ending, Add, EndCall

LEMMA AddResulting ==
    ASSUME NEW u \in Setups, NEW t \in Trs(u), NEW e \in Resulting(u)
    PROVE  Add(t, e) = [t EXCEPT !.items = Append(@, [kind |-> "tool", id |-> e.id, call |-> e.call,
                                                      outcome |-> e.outcome])]
BY DEF Resulting, Add

LEMMA AddReasoning ==
    ASSUME NEW u \in Setups, NEW t \in Trs(u), NEW e \in Reasoning
    PROVE  Add(t, e) = [t EXCEPT !.reasoning = SetDefault(@, [id |-> e.id, text |-> Nothing])]
BY DEF Reasoning, Add

LEMMA AddThinking ==
    ASSUME NEW u \in Setups, NEW t \in Trs(u), NEW e \in Thinking(u)
    PROVE  Add(t, e) = [t EXCEPT !.reasoning = GoneOn(@, e)]
BY DEF Thinking, Add

LEMMA AddSnapping ==
    ASSUME NEW u \in Setups, NEW t \in Trs(u), NEW e \in Snapping(u)
    PROVE  Add(t, e) = [t EXCEPT !.activities = Snapshot(@, e)]
BY DEF Snapping, Add

LEMMA AddChanging ==
    ASSUME NEW u \in Setups, NEW t \in Trs(u), NEW e \in Changing(u)
    PROVE  Add(t, e) = [t EXCEPT !.activities = Delta(@, e)]
BY DEF Changing, Add

-----------------------------------------------------------------------------
(* Drafts.                                                                 *)

DraftId(u) == [x \in Drafts(u) |-> x.id]
DraftOf(items, id) == \E x \in ToSet(items) : IsDraft(x) /\ x.id = id

Told(x, text, calls) == [x EXCEPT !.text = Cat(@, text), !.calls = Cat(@, calls)]

LEMMA ToldIs ==
    ASSUME NEW u, NEW x \in Drafts(u), NEW text \in Words(u), NEW calls \in Seq(u.calls)
    PROVE  /\ Told(x, text, calls) \in Drafts(u)
           /\ Told(x, text, calls).id = x.id
           /\ Told(x, text, calls).text = Cat(x.text, text)
           /\ Told(x, text, calls).calls = Cat(x.calls, calls)
<1>1. Cat(x.text, text) \in Words(u) /\ Cat(x.calls, calls) \in Seq(u.calls)
  BY CatType DEF Drafts, Words
<1>2. QED BY <1>1 DEF Drafts, Told

LEMMA DraftIs ==
    ASSUME NEW u, NEW id \in Key(u)
    PROVE  Draft(id) \in Drafts(u) /\ Draft(id).id = id /\ Draft(id).text = <<>> /\ Draft(id).calls = <<>>
BY EmptySeq DEF Draft, Drafts, Words, Nothing

LEMMA DraftForIs ==
    ASSUME NEW u, NEW items \in Seq(Items(u)), NEW id \in Key(u)
    PROVE  DraftFor(items, id) = IF DraftOf(items, id) THEN items ELSE Append(items, Draft(id))
<1>1. (\E i \in IndexOfId(items, id) : IsDraft(items[i])) <=> DraftOf(items, id)
  BY DEF IndexOfId, DraftOf, ToSet
<1>2. QED BY <1>1 DEF DraftFor

\* What Extend makes of each of the items there are.
Extended(items, id, text, calls) ==
    [i \in DOMAIN items |-> IF IsDraft(items[i]) /\ items[i].id = id THEN Told(items[i], text, calls)
                                                                     ELSE items[i]]

LEMMA ExtendMaps ==
    ASSUME NEW u, NEW items \in Seq(Items(u)), NEW id \in Key(u), NEW text \in Words(u),
           NEW calls \in Seq(u.calls)
    PROVE  Extend(items, id, text, calls) = Extended(DraftFor(items, id), id, text, calls)
BY DEF Extend, Extended, Told, Cat

LEMMA ExtendedNone ==
    ASSUME NEW u, NEW items \in Seq(Items(u)), NEW id \in Key(u), NEW text \in Words(u),
           NEW calls \in Seq(u.calls), ~DraftOf(items, id)
    PROVE  Extended(items, id, text, calls) = items
<1>1. \A i \in DOMAIN items : ~(IsDraft(items[i]) /\ items[i].id = id)
  BY DEF DraftOf, ToSet
<1>2. Extended(items, id, text, calls) = [i \in DOMAIN items |-> items[i]]
  BY <1>1 DEF Extended
<1>3. items = [i \in DOMAIN items |-> items[i]]
  BY LenProperties
<1>4. QED BY <1>2, <1>3

(* With a draft by that id it replaces that one,                           *)
LEMMA ExtendOld ==
    ASSUME NEW u, NEW items \in Seq(Items(u)), Apart(items, DraftId(u)), NEW id \in Key(u),
           NEW text \in Words(u), NEW calls \in Seq(u.calls),
           NEW k \in DOMAIN items, items[k] \in Drafts(u), items[k].id = id
    PROVE  Extend(items, id, text, calls) = Replaced(items, k, Told(items[k], text, calls))
<1>1. DraftOf(items, id)
  BY ItemIs DEF DraftOf, ToSet, Items
<1>2. Extend(items, id, text, calls) = Extended(items, id, text, calls)
  BY <1>1, ExtendMaps, DraftForIs
<1>3. \A i \in DOMAIN items : items[i] \in Items(u)
  BY LenProperties, ElementOfSeq
<1>4. \A i \in DOMAIN items : IsDraft(items[i]) /\ items[i].id = id => i = k
  <2> SUFFICES ASSUME NEW i \in DOMAIN items, IsDraft(items[i]), items[i].id = id PROVE i = k
    OBVIOUS
  <2>1. items[i] \in Drafts(u)
    BY <1>3, ItemIs
  <2>2. QED BY <2>1 DEF Apart, DraftId
<1>5. IsDraft(items[k])
  BY <1>3, ItemIs
<1> DEFINE x == Told(items[k], text, calls)
<1> HIDE DEF x
<1>6. Extended(items, id, text, calls) = [i \in DOMAIN items |-> IF i = k THEN x ELSE items[i]]
  BY <1>4, <1>5 DEF Extended, x
<1>7. Replaced(items, k, x) = [i \in DOMAIN items |-> IF i = k THEN x ELSE items[i]]
  <2>1. items = [i \in DOMAIN items |-> items[i]]
    BY LenProperties
  <2>2. QED BY <2>1 DEF Replaced
<1>8. QED BY <1>2, <1>6, <1>7 DEF x

(* without one it appends one.                                             *)
LEMMA ExtendNew ==
    ASSUME NEW u, NEW items \in Seq(Items(u)), NEW id \in Key(u),
           NEW text \in Words(u), NEW calls \in Seq(u.calls), ~DraftOf(items, id)
    PROVE  Extend(items, id, text, calls) = Append(items, Told(Draft(id), text, calls))
<1> DEFINE d == Draft(id)
           s == Append(items, d)
           x == Told(d, text, calls)
<1>1. Extend(items, id, text, calls) = Extended(s, id, text, calls)
  BY ExtendMaps, DraftForIs
<1>2. d \in Drafts(u) /\ d.id = id /\ d \in Items(u) /\ IsDraft(d)
  <2>1. d \in Drafts(u) /\ d.id = id
    BY DraftIs
  <2>2. d \in Items(u)
    BY <2>1 DEF Items
  <2>3. QED BY <2>1, <2>2, ItemIs
<1>3. /\ s \in Seq(Items(u)) /\ Len(items) \in Nat
      /\ DOMAIN items = 1 .. Len(items) /\ DOMAIN s = 1 .. Len(items) + 1
      /\ \A i \in 1 .. Len(items) : s[i] = items[i]
      /\ s[Len(items) + 1] = d
  <2> HIDE DEF d
  <2>1. QED BY <1>2, AppendProperties, LenProperties
<1>4. x \in Items(u)
  BY <1>2, ToldIs DEF Items
<1> HIDE DEF d, s, x
<1> DEFINE q == Append(items, x)
           n == Len(items)
<1>5. /\ q \in Seq(Items(u)) /\ DOMAIN q = 1 .. n + 1
      /\ \A i \in 1 .. n : q[i] = items[i]
      /\ q[n + 1] = x
  BY <1>4, AppendProperties, LenProperties
<1> HIDE DEF q
<1>6. \A i \in 1 .. n : ~(IsDraft(items[i]) /\ items[i].id = id)
  BY <1>3 DEF DraftOf, ToSet
<1> DEFINE p == Extended(s, id, text, calls)
<1>7. p = [i \in 1 .. n + 1 |-> IF IsDraft(s[i]) /\ s[i].id = id THEN Told(s[i], text, calls) ELSE s[i]]
  BY <1>3 DEF Extended
<1> HIDE DEF p, n
<1>8. \A i \in 1 .. n + 1 : p[i] = q[i]
  <2> SUFFICES ASSUME NEW i \in 1 .. n + 1 PROVE p[i] = q[i]
    OBVIOUS
  <2>1. CASE i = n + 1
    <3>1. s[i] = d /\ q[i] = x
      BY <1>3, <1>5, <2>1 DEF n
    <3>2. p[i] = Told(s[i], text, calls)
      BY <1>2, <1>7, <3>1
    <3>3. QED BY <3>1, <3>2 DEF x
  <2>2. CASE i # n + 1
    <3>1. i \in 1 .. n
      BY <1>3, <2>2 DEF n
    <3>2. s[i] = items[i] /\ q[i] = items[i]
      BY <1>3, <1>5, <3>1 DEF n
    <3>3. p[i] = s[i]
      BY <1>6, <1>7, <3>1, <3>2
    <3>4. QED BY <3>2, <3>3
  <2>3. QED BY <2>1, <2>2
<1>9. q = [i \in 1 .. n + 1 |-> q[i]]
  BY <1>5, LenProperties DEF n
<1>10. p = [i \in 1 .. n + 1 |-> p[i]]
  BY <1>7
<1>11. p = q
  BY <1>8, <1>9, <1>10
<1>12. QED BY <1>1, <1>11 DEF p, q, x, d

-----------------------------------------------------------------------------
(* What has been streamed, read off the events.                            *)

Speaker(u, type, id) ==
    [e \in Events(u) |-> IF e.event = type /\ e.id = id THEN e.text ELSE <<>>]
Caller(u) == [e \in Events(u) |-> IF e.event = "call_end" THEN <<e.call>> ELSE <<>>]
Holder(u) == [x \in Items(u) |-> IF IsDraft(x) THEN x.calls ELSE <<>>]

Said(u, w, type, id) == Spread(w, Speaker(u, type, id))
CallsMade(u, w) == Spread(w, Caller(u))
CallsHeld(u, items) == Spread(items, Holder(u))

LEMMA EventIs ==
    ASSUME NEW u, NEW e \in Events(u)
    PROVE  /\ e.event = "text_start" => e \in Opening
           /\ e.event = "text" => e \in Speaking(u)
           /\ e.event = "call_start" => e \in Starting(u)
           /\ e.event = "call_end" => e \in Ending(u)
           /\ e.event = "result" => e \in Resulting(u)
           /\ e.event = "reasoning_start" => e \in Reasoning
           /\ e.event = "reasoning" => e \in Thinking(u)
           /\ e.event = "snapshot" => e \in Snapping(u)
           /\ e.event = "delta" => e \in Changing(u)
<1>1. \/ e \in Opening \/ e \in Speaking(u) \/ e \in Starting(u) \/ e \in Ending(u)
      \/ e \in Resulting(u) \/ e \in Reasoning \/ e \in Thinking(u) \/ e \in Snapping(u)
      \/ e \in Changing(u)
  BY DEF Events
<1>2. e \in Opening => e.event = "text_start"
  BY DEF Opening
<1>3. e \in Speaking(u) => e.event = "text"
  BY DEF Speaking
<1>4. e \in Starting(u) => e.event = "call_start"
  BY DEF Starting
<1>5. e \in Ending(u) => e.event = "call_end"
  BY DEF Ending
<1>6. e \in Resulting(u) => e.event = "result"
  BY DEF Resulting
<1>7. e \in Reasoning => e.event = "reasoning_start"
  BY DEF Reasoning
<1>8. e \in Thinking(u) => e.event = "reasoning"
  BY DEF Thinking
<1>9. e \in Snapping(u) => e.event = "snapshot"
  BY DEF Snapping
<1>10. e \in Changing(u) => e.event = "delta"
  BY DEF Changing
<1>11. QED BY <1>1, <1>2, <1>3, <1>4, <1>5, <1>6, <1>7, <1>8, <1>9, <1>10

LEMMA AloneIs ==
    ASSUME NEW S, NEW x \in S
    PROVE  <<x>> \in Seq(S)
OBVIOUS

LEMMA SpeakerMaps ==
    ASSUME NEW u, NEW type \in {"text", "reasoning"}, NEW id
    PROVE  Maps(Speaker(u, type, id), Events(u), Seq(u.texts))
<1>1. ASSUME NEW e \in Events(u), e.event = type PROVE e.text \in Seq(u.texts)
  <2>1. e \in Speaking(u) \/ e \in Thinking(u)
    BY <1>1, EventIs
  <2>2. QED BY <2>1 DEF Speaking, Thinking, Words
<1>2. QED BY <1>1, EmptySeq DEF Maps, Speaker

LEMMA CallerMaps ==
    ASSUME NEW u
    PROVE  Maps(Caller(u), Events(u), Seq(u.calls))
<1>1. ASSUME NEW e \in Events(u), e.event = "call_end" PROVE <<e.call>> \in Seq(u.calls)
  <2>1. e.call \in u.calls
    BY <1>1, EventIs DEF Ending
  <2>2. QED BY <2>1, AloneIs
<1>2. QED BY <1>1, EmptySeq DEF Maps, Caller

LEMMA HolderMaps ==
    ASSUME NEW u
    PROVE  Maps(Holder(u), Items(u), Seq(u.calls))
<1>1. ASSUME NEW x \in Items(u), IsDraft(x) PROVE x.calls \in Seq(u.calls)
  <2>1. x \in Drafts(u)
    BY <1>1, ItemIs
  <2>2. QED BY <2>1 DEF Drafts
<1>2. QED BY <1>1, EmptySeq DEF Maps, Holder

LEMMA SaidMore ==
    ASSUME NEW u, NEW w \in Seq(Events(u)), NEW e \in Events(u), NEW type \in {"text", "reasoning"}, NEW id
    PROVE  /\ Said(u, w, type, id) \in Words(u)
           /\ e.event = type /\ e.id = id =>
                Said(u, Append(w, e), type, id) = Cat(Said(u, w, type, id), e.text)
           /\ ~(e.event = type /\ e.id = id) =>
                Said(u, Append(w, e), type, id) = Said(u, w, type, id)
<1> DEFINE g == Speaker(u, type, id)
<1>1. Maps(g, Events(u), Seq(u.texts))
  BY SpeakerMaps
<1>2. g[e] = IF e.event = type /\ e.id = id THEN e.text ELSE <<>>
  BY DEF Speaker
<1> HIDE DEF g
<1>3. Spread(w, g) \in Seq(u.texts) /\ Spread(Append(w, e), g) = Cat(Spread(w, g), g[e])
  BY <1>1, SpreadType, SpreadMore
<1>4. Cat(Spread(w, g), <<>>) = Spread(w, g)
  BY <1>3, CatNothing
<1>5. QED BY <1>2, <1>3, <1>4 DEF Said, g, Words

(* Nobody who has not spoken has said anything.                            *)
LEMMA SaidNothing ==
    ASSUME NEW u, NEW w \in Seq(Events(u)), NEW type \in {"text", "reasoning"}, NEW id,
           \A e \in ToSet(w) : ~(e.event = type /\ e.id = id)
    PROVE  Said(u, w, type, id) = <<>>
<1> DEFINE g == Speaker(u, type, id)
<1>1. \A e \in ToSet(w) : g[e] = <<>>
  BY AmongType DEF Speaker
<1> HIDE DEF g
<1>2. Spread(w, g) = <<>>
  BY <1>1, SpreadNothing
<1>3. QED BY <1>2 DEF Said, g

LEMMA CallsMadeMore ==
    ASSUME NEW u, NEW w \in Seq(Events(u)), NEW e \in Events(u)
    PROVE  /\ CallsMade(u, w) \in Seq(u.calls)
           /\ e.event = "call_end" => CallsMade(u, Append(w, e)) = Cat(CallsMade(u, w), <<e.call>>)
           /\ e.event # "call_end" => CallsMade(u, Append(w, e)) = CallsMade(u, w)
<1> DEFINE g == Caller(u)
<1>1. Maps(g, Events(u), Seq(u.calls))
  BY CallerMaps
<1>2. g[e] = IF e.event = "call_end" THEN <<e.call>> ELSE <<>>
  BY DEF Caller
<1> HIDE DEF g
<1>3. Spread(w, g) \in Seq(u.calls) /\ Spread(Append(w, e), g) = Cat(Spread(w, g), g[e])
  BY <1>1, SpreadType, SpreadMore
<1>4. Cat(Spread(w, g), <<>>) = Spread(w, g)
  BY <1>3, CatNothing
<1>5. QED BY <1>2, <1>3, <1>4 DEF CallsMade, g

LEMMA CallsHeldMore ==
    ASSUME NEW u, NEW items \in Seq(Items(u)), NEW x \in Items(u)
    PROVE  /\ CallsHeld(u, items) \in Seq(u.calls)
           /\ IsDraft(x) => CallsHeld(u, Append(items, x)) = Cat(CallsHeld(u, items), x.calls)
           /\ ~IsDraft(x) => CallsHeld(u, Append(items, x)) = CallsHeld(u, items)
<1> DEFINE g == Holder(u)
<1>1. Maps(g, Items(u), Seq(u.calls))
  BY HolderMaps
<1>2. g[x] = IF IsDraft(x) THEN x.calls ELSE <<>>
  BY DEF Holder
<1> HIDE DEF g
<1>3. Spread(items, g) \in Seq(u.calls) /\ Spread(Append(items, x), g) = Cat(Spread(items, g), g[x])
  BY <1>1, SpreadType, SpreadMore
<1>4. Cat(Spread(items, g), <<>>) = Spread(items, g)
  BY <1>3, CatNothing
<1>5. QED BY <1>2, <1>3, <1>4 DEF CallsHeld, g

LEMMA TimesTogether ==
    ASSUME NEW S, NEW s \in Seq(S), NEW t \in Seq(S), NEW e
    PROVE  Times(e, Cat(s, t)) = Times(e, s) + Times(e, t) /\ Times(e, s) \in Nat
BY TimesCat, TimesNat DEF Cat

(* A draft that is told calls holds so many more.                          *)
LEMMA CallsHeldInstead ==
    ASSUME NEW u, NEW items \in Seq(Items(u)), NEW k \in DOMAIN items, items[k] \in Drafts(u),
           NEW text \in Words(u), NEW calls \in Seq(u.calls), NEW c
    PROVE  Times(c, CallsHeld(u, Replaced(items, k, Told(items[k], text, calls)))) =
             Times(c, CallsHeld(u, items)) + Times(c, calls)
<1> DEFINE x == items[k]
           y == Told(x, text, calls)
           g == Holder(u)
           S == Items(u)
           C == Seq(u.calls)
<1>1. x \in Drafts(u) /\ x \in S /\ IsDraft(x) /\ x.calls \in C
  <2>1. x \in S
    BY DEF Items
  <2>2. QED BY <2>1, ItemIs DEF Drafts
<1>2. y \in Drafts(u) /\ y \in S /\ IsDraft(y) /\ y.calls = Cat(x.calls, calls)
  <2>1. y \in Drafts(u) /\ y.calls = Cat(x.calls, calls)
    BY ToldIs
  <2> HIDE DEF y
  <2>2. y \in S
    BY <2>1 DEF Items
  <2>3. QED BY <2>1, <2>2, ItemIs
<1>3. Maps(g, S, C)
  BY HolderMaps
<1>4. g[x] = x.calls /\ g[y] = Cat(x.calls, calls)
  BY <1>1, <1>2 DEF Holder
<1> HIDE DEF y, g, S
<1>5. PICK f \in Seq(S), t \in Seq(S) : Parted(items, k, f, t, S)
  BY PartsAround DEF S
<1>6. Replaced(items, k, x) = items
  BY LenProperties DEF Replaced
<1>7. items = Cat(f, Cat(<<x>>, t)) /\ Replaced(items, k, y) = Cat(f, Cat(<<y>>, t))
  <2>1. \A z \in S : Replaced(items, k, z) = Cat(f, Cat(<<z>>, t))
    BY <1>5 DEF Parted
  <2>2. QED BY <1>1, <1>2, <1>6, <2>1
<1>8. ASSUME NEW z \in S
      PROVE  Times(c, Spread(Cat(f, Cat(<<z>>, t)), g)) =
               Times(c, Spread(f, g)) + (Times(c, g[z]) + Times(c, Spread(t, g)))
  <2> DEFINE v == <<z>>
             m == Cat(v, t)
  <2>1. v \in Seq(S)
    OBVIOUS
  <2>2. Spread(v, g) = g[z]
    BY <1>3, SpreadSingle
  <2> HIDE DEF v
  <2>3. m \in Seq(S) /\ Spread(m, g) = Cat(g[z], Spread(t, g))
    <3>1. m \in Seq(S)
      BY <2>1, CatType
    <3>2. Spread(Cat(v, t), g) = Cat(Spread(v, g), Spread(t, g))
      BY <1>3, <2>1, SpreadCat
    <3>3. QED BY <2>2, <3>1, <3>2
  <2> HIDE DEF m
  <2>4. Spread(Cat(f, m), g) = Cat(Spread(f, g), Spread(m, g))
    BY <1>3, <2>3, SpreadCat
  <2>5. g[z] \in C /\ Spread(t, g) \in C /\ Spread(f, g) \in C /\ Spread(m, g) \in C
    BY <1>3, <2>3, SpreadType DEF Maps
  <2>6. Times(c, Spread(Cat(f, m), g)) = Times(c, Spread(f, g)) + Times(c, Spread(m, g))
    BY <2>4, <2>5, TimesTogether
  <2>7. Times(c, Spread(m, g)) = Times(c, g[z]) + Times(c, Spread(t, g))
    BY <2>3, <2>5, TimesTogether
  <2>8. QED BY <2>6, <2>7 DEF m, v
<1>9. Times(c, g[y]) = Times(c, g[x]) + Times(c, calls) /\ Times(c, g[x]) \in Nat /\ Times(c, calls) \in Nat
  <2>1. Times(c, Cat(x.calls, calls)) = Times(c, x.calls) + Times(c, calls)
    BY <1>1, TimesTogether
  <2>2. Times(c, x.calls) \in Nat /\ Times(c, calls) \in Nat
    BY <1>1, TimesNat
  <2>3. QED BY <1>4, <2>1, <2>2
<1>10. Times(c, Spread(f, g)) \in Nat /\ Times(c, Spread(t, g)) \in Nat
  <2>1. Spread(f, g) \in C /\ Spread(t, g) \in C
    BY <1>3, SpreadType
  <2>2. QED BY <2>1, TimesNat
<1>11. Times(c, Spread(items, g)) = Times(c, Spread(f, g)) + (Times(c, g[x]) + Times(c, Spread(t, g)))
  BY <1>1, <1>7, <1>8
<1>12. Times(c, Spread(Replaced(items, k, y), g)) =
         Times(c, Spread(f, g)) + (Times(c, g[y]) + Times(c, Spread(t, g)))
  BY <1>2, <1>7, <1>8
<1>13. Times(c, Spread(Replaced(items, k, y), g)) = Times(c, Spread(items, g)) + Times(c, calls)
  BY <1>9, <1>10, <1>11, <1>12
<1>14. QED BY <1>13 DEF CallsHeld, y, g

-----------------------------------------------------------------------------
(* The items against the wire: each draft says what was said under its id  *)
(* and was opened there or holds a call, each text has its draft, each     *)
(* tool message its result, and the calls that ended are held, each as     *)
(* often as it was made.                                                   *)

Opened(w, id) == \E e \in ToSet(w) : e.event = "text_start" /\ e.id = id
Came(w, x) ==
    \E e \in ToSet(w) : e.event = "result" /\ e.id = x.id /\ e.call = x.call /\ e.outcome = x.outcome

DraftsSay(u, w, items) == \A x \in ToSet(items) : x \in Drafts(u) => x.text = Said(u, w, "text", x.id)
TextsHeard(u, w, items) ==
    \A e \in ToSet(w) : e.event = "text" =>
        \E x \in ToSet(items) : x \in Drafts(u) /\ x.id = e.id /\ x.text # <<>>
DraftsOpened(u, w, items) ==
    \A x \in ToSet(items) : x \in Drafts(u) =>
        IF x.id \in Nat THEN Opened(w, x.id) ELSE x.calls # <<>>
ResultsCame(u, w, items) == \A x \in ToSet(items) : x \in Tools(u) => Came(w, x)
CallsCounted(u, w, items) ==
    \A c \in u.calls : Times(c, CallsHeld(u, items)) = Times(c, CallsMade(u, w))

ItemsGood(u, w, items) ==
    /\ Apart(items, DraftId(u)) /\ DraftsSay(u, w, items) /\ TextsHeard(u, w, items)
    /\ DraftsOpened(u, w, items) /\ ResultsCame(u, w, items) /\ CallsCounted(u, w, items)

LEMMA WireMore ==
    ASSUME NEW u, NEW w \in Seq(Events(u)), NEW e \in Events(u)
    PROVE  /\ Append(w, e) \in Seq(Events(u))
           /\ ToSet(Append(w, e)) = ToSet(w) \union {e}
           /\ \A id : Opened(w, id) => Opened(Append(w, e), id)
           /\ \A x : Came(w, x) => Came(Append(w, e), x)
<1>1. Append(w, e) \in Seq(Events(u)) /\ ToSet(Append(w, e)) = ToSet(w) \union {e}
  BY AppendProperties, AmongMore
<1>2. QED BY <1>1 DEF Opened, Came

(* An event that is of no text, call or result leaves them as they are.    *)
LEMMA ItemsStand ==
    ASSUME NEW u, NEW w \in Seq(Events(u)), NEW e \in Events(u), NEW items \in Seq(Items(u)),
           ItemsGood(u, w, items), e.event \notin {"text", "call_end"}
    PROVE  ItemsGood(u, Append(w, e), items)
<1>1. \A id : Said(u, Append(w, e), "text", id) = Said(u, w, "text", id)
  BY SaidMore
<1>2. CallsMade(u, Append(w, e)) = CallsMade(u, w)
  BY CallsMadeMore
<1> DEFINE v == Append(w, e)
<1>3. /\ ToSet(v) = ToSet(w) \union {e}
      /\ \A id : Opened(w, id) => Opened(v, id)
      /\ \A x : Came(w, x) => Came(v, x)
  BY WireMore
<1> HIDE DEF v
<1>4. DraftsSay(u, v, items)
  BY <1>1 DEF ItemsGood, DraftsSay, v
<1>5. TextsHeard(u, v, items)
  BY <1>3 DEF ItemsGood, TextsHeard
<1>6. DraftsOpened(u, v, items)
  BY <1>3 DEF ItemsGood, DraftsOpened
<1>7. ResultsCame(u, v, items)
  BY <1>3 DEF ItemsGood, ResultsCame
<1>8. CallsCounted(u, v, items)
  BY <1>2 DEF ItemsGood, CallsCounted, v
<1>9. QED BY <1>4, <1>5, <1>6, <1>7, <1>8 DEF ItemsGood, v

\* One draft is new among the items, or stands for the one of its id.
Drafted(u, items, next, d) ==
    /\ next \in Seq(Items(u)) /\ Apart(next, DraftId(u))
    /\ d \in Drafts(u) /\ d \in ToSet(next)
    /\ \A y \in ToSet(next) : y = d \/ (y \in ToSet(items) /\ (y \in Drafts(u) => y.id # d.id))
    /\ \A x \in ToSet(items) : x \in ToSet(next) \/ (x \in Drafts(u) /\ x.id = d.id)

LEMMA DraftedNew ==
    ASSUME NEW u, NEW items \in Seq(Items(u)), Apart(items, DraftId(u)), NEW d \in Drafts(u),
           ~DraftOf(items, d.id)
    PROVE  Drafted(u, items, Append(items, d), d)
<1>1. d \in Items(u)
  BY DEF Items
<1>2. Append(items, d) \in Seq(Items(u)) /\ ToSet(Append(items, d)) = ToSet(items) \union {d}
  BY <1>1, AppendProperties, AmongMore
<1>3. \A x \in ToSet(items) : x \in Drafts(u) => x.id # d.id
  BY AmongType, ItemIs DEF DraftOf
<1>4. Apart(Append(items, d), DraftId(u))
  <2>1. \A x \in ToSet(items) : x \in DOMAIN DraftId(u) => DraftId(u)[x] # DraftId(u)[d]
    BY <1>3 DEF DraftId
  <2>2. QED BY <1>1, <2>1, ApartMore
<1> DEFINE next == Append(items, d)
<1> HIDE DEF next
<1>5. /\ next \in Seq(Items(u)) /\ ToSet(next) = ToSet(items) \union {d}
      /\ Apart(next, DraftId(u))
  BY <1>2, <1>4 DEF next
<1>6. Drafted(u, items, next, d)
  BY <1>3, <1>5 DEF Drafted
<1>7. QED BY <1>6 DEF next

LEMMA DraftedOld ==
    ASSUME NEW u, NEW items \in Seq(Items(u)), Apart(items, DraftId(u)), NEW d \in Drafts(u),
           NEW k \in DOMAIN items, items[k] \in Drafts(u), items[k].id = d.id
    PROVE  Drafted(u, items, Replaced(items, k, d), d)
<1> DEFINE next == Replaced(items, k, d)
<1>1. d \in Items(u)
  BY DEF Items
<1>2. next \in Seq(Items(u)) /\ Differ(next, items, k, d)
  BY <1>1, ReplacedIs
<1> HIDE DEF next
<1>3. DOMAIN next = DOMAIN items /\ next[k] = d /\ \A i \in DOMAIN items : i # k => next[i] = items[i]
  BY <1>2 DEF Differ
<1>4. \A i \in DOMAIN items : items[i] \in Drafts(u) /\ items[i].id = d.id => i = k
  BY DEF Apart, DraftId
<1>5. Apart(next, DraftId(u))
  <2> SUFFICES ASSUME NEW i \in DOMAIN items, NEW j \in DOMAIN items,
                      next[i] \in Drafts(u), next[j] \in Drafts(u), next[i].id = next[j].id
               PROVE  i = j
    BY <1>3 DEF Apart, DraftId
  <2>1. CASE i = k \/ j = k
    BY <1>3, <1>4, <2>1
  <2>2. CASE i # k /\ j # k
    <3>1. next[i] = items[i] /\ next[j] = items[j]
      BY <1>3, <2>2
    <3>2. QED BY <3>1 DEF Apart, DraftId
  <2>3. QED BY <2>1, <2>2
<1>6. d \in ToSet(next)
  BY <1>3 DEF ToSet
<1>7. \A y \in ToSet(next) : y = d \/ (y \in ToSet(items) /\ (y \in Drafts(u) => y.id # d.id))
  <2> SUFFICES ASSUME NEW i \in DOMAIN items
               PROVE  next[i] = d \/ (next[i] \in ToSet(items) /\ (next[i] \in Drafts(u) => next[i].id # d.id))
    BY <1>3 DEF ToSet
  <2>1. CASE i = k
    <3>1. next[i] = d
      BY <1>3, <2>1
    <3>2. QED BY <3>1
  <2>2. CASE i # k
    <3>1. next[i] = items[i] /\ items[i] \in ToSet(items)
      BY <1>3, <2>2 DEF ToSet
    <3>2. QED BY <1>4, <2>2, <3>1
  <2>3. QED BY <2>1, <2>2
<1>8. \A x \in ToSet(items) : x \in ToSet(next) \/ (x \in Drafts(u) /\ x.id = d.id)
  <2> SUFFICES ASSUME NEW i \in DOMAIN items
               PROVE  items[i] \in ToSet(next) \/ (items[i] \in Drafts(u) /\ items[i].id = d.id)
    BY DEF ToSet
  <2>1. CASE i = k
    BY <2>1
  <2>2. CASE i # k
    <3>1. next[i] = items[i] /\ i \in DOMAIN next
      BY <1>3, <2>2
    <3>2. next[i] \in ToSet(next)
      BY <3>1 DEF ToSet
    <3>3. QED BY <3>1, <3>2
  <2>3. QED BY <2>1, <2>2
<1>9. QED BY <1>2, <1>5, <1>6, <1>7, <1>8 DEF Drafted, next

\* The draft is as the event leaves it.
Suits(u, v, items, d) ==
    /\ d.text = Said(u, v, "text", d.id)
    /\ IF d.id \in Nat THEN Opened(v, d.id) ELSE d.calls # <<>>
    /\ \A x \in ToSet(items) : x \in Drafts(u) /\ x.id = d.id /\ x.text # <<>> => d.text # <<>>

LEMMA ItemsDrafted ==
    ASSUME NEW u, NEW w \in Seq(Events(u)), NEW e \in Events(u), NEW items \in Seq(Items(u)),
           ItemsGood(u, w, items), NEW next, NEW d, Drafted(u, items, next, d),
           Suits(u, Append(w, e), items, d),
           e.event = "text" => e.id = d.id /\ d.text # <<>>,
           CallsCounted(u, Append(w, e), next)
    PROVE  ItemsGood(u, Append(w, e), next)
<1> DEFINE v == Append(w, e)
<1>1. \A id : id # d.id => Said(u, v, "text", id) = Said(u, w, "text", id)
  BY SaidMore
<1>2. /\ ToSet(v) = ToSet(w) \union {e}
      /\ \A id : Opened(w, id) => Opened(v, id)
      /\ \A x : Came(w, x) => Came(v, x)
  BY WireMore
<1> HIDE DEF v
<1>3. Suits(u, v, items, d) /\ CallsCounted(u, v, next)
  BY DEF v
<1>4. DraftsSay(u, v, next)
  <2> SUFFICES ASSUME NEW y \in ToSet(next), y \in Drafts(u) PROVE y.text = Said(u, v, "text", y.id)
    BY DEF DraftsSay
  <2>1. CASE y = d
    BY <1>3, <2>1 DEF Suits
  <2>2. CASE y # d
    BY <1>1, <2>2 DEF Drafted, ItemsGood, DraftsSay
  <2>3. QED BY <2>1, <2>2
<1>5. TextsHeard(u, v, next)
  <2> SUFFICES ASSUME NEW f \in ToSet(v), f.event = "text"
               PROVE  \E y \in ToSet(next) : y \in Drafts(u) /\ y.id = f.id /\ y.text # <<>>
    BY DEF TextsHeard
  <2>1. CASE f = e
    BY <2>1 DEF Drafted
  <2>2. CASE f \in ToSet(w)
    <3>1. PICK x \in ToSet(items) : x \in Drafts(u) /\ x.id = f.id /\ x.text # <<>>
      BY <2>2 DEF ItemsGood, TextsHeard
    <3>2. CASE x \in ToSet(next)
      BY <3>1, <3>2
    <3>3. CASE x.id = d.id
      <4>1. d.text # <<>>
        BY <1>3, <3>1, <3>3 DEF Suits
      <4>2. QED BY <3>1, <3>3, <4>1 DEF Drafted
    <3>4. QED BY <3>2, <3>3 DEF Drafted
  <2>3. QED BY <1>2, <2>1, <2>2
<1>6. DraftsOpened(u, v, next)
  <2> SUFFICES ASSUME NEW y \in ToSet(next), y \in Drafts(u)
               PROVE  IF y.id \in Nat THEN Opened(v, y.id) ELSE y.calls # <<>>
    BY DEF DraftsOpened
  <2>1. CASE y = d
    BY <1>3, <2>1 DEF Suits
  <2>2. CASE y # d
    <3>1. IF y.id \in Nat THEN Opened(w, y.id) ELSE y.calls # <<>>
      BY <2>2 DEF Drafted, ItemsGood, DraftsOpened
    <3>2. QED BY <1>2, <3>1
  <2>3. QED BY <2>1, <2>2
<1>7. ResultsCame(u, v, next)
  <2> SUFFICES ASSUME NEW y \in ToSet(next), y \in Tools(u) PROVE Came(v, y)
    BY DEF ResultsCame
  <2>1. d \in Drafts(u)
    BY DEF Drafted
  <2>2. y # d
    BY <2>1 DEF Drafts, Tools
  <2>3. QED BY <1>2, <2>2 DEF Drafted, ItemsGood, ResultsCame
<1>8. QED BY <1>3, <1>4, <1>5, <1>6, <1>7 DEF ItemsGood, Drafted, v

LEMMA Unsaid ==
    ASSUME NEW u, NEW w \in Seq(Events(u)), NEW e \in Events(u), e.event # "text",
           NEW items \in Seq(Items(u)), ItemsGood(u, w, items), NEW id, ~DraftOf(items, id)
    PROVE  Said(u, Append(w, e), "text", id) = <<>>
<1>1. \A f \in ToSet(w) : ~(f.event = "text" /\ f.id = id)
  <2> SUFFICES ASSUME NEW f \in ToSet(w), f.event = "text", f.id = id PROVE FALSE
    OBVIOUS
  <2>1. PICK x \in ToSet(items) : x \in Drafts(u) /\ x.id = id
    BY DEF ItemsGood, TextsHeard
  <2>2. IsDraft(x)
    BY <2>1 DEF Drafts, IsDraft
  <2>3. QED BY <2>1, <2>2 DEF DraftOf
<1>2. Append(w, e) \in Seq(Events(u)) /\ ToSet(Append(w, e)) = ToSet(w) \union {e}
  BY WireMore
<1>3. \A f \in ToSet(Append(w, e)) : ~(f.event = "text" /\ f.id = id)
  BY <1>1, <1>2
<1>4. QED BY <1>2, <1>3, SaidNothing

LEMMA ItemsOpening ==
    ASSUME NEW u, NEW w \in Seq(Events(u)), NEW e \in Opening, NEW items \in Seq(Items(u)),
           ItemsGood(u, w, items), ~DraftOf(items, e.id)
    PROVE  /\ ItemsGood(u, Append(w, e), Append(items, Draft(e.id)))
           /\ Drafted(u, items, Append(items, Draft(e.id)), Draft(e.id))
<1> DEFINE d == Draft(e.id)
           v == Append(w, e)
           next == Append(items, d)
<1>1. /\ e.event = "text_start" /\ e.id \in Nat /\ e \in Events(u)
  BY DEF Opening, Events
<1>2. d \in Drafts(u) /\ d.id = e.id /\ d.text = <<>> /\ d.calls = <<>>
  BY <1>1, DraftIs DEF Key
<1> HIDE DEF d
<1>3. Drafted(u, items, next, d)
  BY <1>2, DraftedNew DEF ItemsGood
<1>4. d.text = Said(u, v, "text", d.id)
  BY <1>1, <1>2, Unsaid
<1>5. Opened(v, d.id)
  BY <1>1, <1>2, WireMore DEF Opened
<1>6. Suits(u, v, items, d)
  <2>1. \A x \in ToSet(items) : x \in Drafts(u) => x.id # d.id
    BY <1>2, ItemIs DEF DraftOf, Items
  <2>2. QED BY <1>1, <1>2, <1>4, <1>5, <2>1 DEF Suits
<1>7. CallsCounted(u, v, next)
  <2>1. IsDraft(d) /\ d \in Items(u)
    BY <1>2, ItemIs DEF Items
  <2>2. CallsHeld(u, next) = Cat(CallsHeld(u, items), <<>>) /\ CallsHeld(u, items) \in Seq(u.calls)
    BY <1>2, <2>1, CallsHeldMore
  <2>3. CallsHeld(u, next) = CallsHeld(u, items)
    BY <2>2, CatNothing
  <2>4. CallsMade(u, v) = CallsMade(u, w)
    BY <1>1, CallsMadeMore
  <2>5. QED BY <2>3, <2>4 DEF CallsCounted, ItemsGood
<1> HIDE DEF v, next
<1>8. ItemsGood(u, v, next)
  BY <1>1, <1>3, <1>6, <1>7, ItemsDrafted DEF v
<1>9. QED BY <1>3, <1>8 DEF v, next, d

LEMMA TimesNothing ==
    ASSUME NEW e
    PROVE  Times(e, <<>>) = 0
<1>1. {i \in DOMAIN <<>> : <<>>[i] = e} = {}
  OBVIOUS
<1>2. QED BY <1>1, FS_EmptySet DEF Times

LEMMA ItemsSpeaking ==
    ASSUME NEW u, NEW w \in Seq(Events(u)), NEW e \in Speaking(u), NEW items \in Seq(Items(u)),
           ItemsGood(u, w, items), NEW k \in DOMAIN items, items[k] \in Drafts(u), items[k].id = e.id
    PROVE  LET d == Told(items[k], e.text, <<>>)
           IN /\ Extend(items, e.id, e.text, <<>>) = Replaced(items, k, d)
              /\ Drafted(u, items, Replaced(items, k, d), d)
              /\ ItemsGood(u, Append(w, e), Replaced(items, k, d))
<1> DEFINE x == items[k]
           more == <<>>
           d == Told(x, e.text, more)
           v == Append(w, e)
           next == Replaced(items, k, d)
<1>1. /\ e.event = "text" /\ e.id \in Nat /\ e \in Events(u) /\ e.id \in Key(u)
      /\ e.text \in Words(u) /\ e.text # <<>>
  BY DEF Speaking, Events, Key
<1>2. more \in Seq(u.calls) /\ x.calls \in Seq(u.calls) /\ x.text \in Words(u) /\ x \in ToSet(items)
  BY EmptySeq, TimesNothing DEF Drafts, ToSet
<1>0. Cat(x.calls, more) = x.calls /\ \A c : Times(c, more) = 0
  BY <1>2, CatNothing, TimesNothing
<1> HIDE DEF more
<1>3. /\ d \in Drafts(u) /\ d.id = e.id /\ d.text = Cat(x.text, e.text) /\ d.calls = x.calls
  BY <1>0, <1>1, <1>2, ToldIs
<1>4. Apart(items, DraftId(u)) /\ x.text = Said(u, w, "text", e.id)
  BY <1>2 DEF ItemsGood, DraftsSay
<1>5. Extend(items, e.id, e.text, more) = next
  BY <1>1, <1>2, <1>4, ExtendOld
<1>6. CallsCounted(u, v, next)
  <2>1. ASSUME NEW c \in u.calls PROVE Times(c, CallsHeld(u, next)) = Times(c, CallsMade(u, v))
    <3>1. Times(c, CallsHeld(u, next)) = Times(c, CallsHeld(u, items)) + Times(c, more)
      BY <1>1, <1>2, CallsHeldInstead
    <3>2. Times(c, more) = 0
      BY <1>0
    <3>3. CallsHeld(u, items) \in Seq(u.calls)
      BY HolderMaps, SpreadType DEF CallsHeld
    <3>4. Times(c, CallsHeld(u, items)) \in Nat
      BY <3>3, TimesNat
    <3>5. CallsMade(u, v) = CallsMade(u, w)
      BY <1>1, CallsMadeMore
    <3>6. QED BY <3>1, <3>2, <3>4, <3>5 DEF ItemsGood, CallsCounted
  <2>2. QED BY <2>1 DEF CallsCounted
<1> HIDE DEF d
<1>7. Drafted(u, items, next, d)
  BY <1>3, <1>4, DraftedOld
<1>8. d.text # <<>>
  <2>1. Len(d.text) = Len(x.text) + Len(e.text) /\ Len(e.text) # 0 /\ Len(e.text) \in Nat /\ Len(x.text) \in Nat
    BY <1>1, <1>2, <1>3, ConcatProperties, LenProperties, EmptySeq DEF Words, Cat
  <2> DEFINE p == Len(d.text)
             q == Len(x.text)
             r == Len(e.text)
  <2>2. p # 0
    <3>1. p = q + r /\ r # 0 /\ r \in Nat /\ q \in Nat
      BY <2>1
    <3> HIDE DEF p, q, r
    <3>2. QED BY <3>1
  <2>3. QED BY <2>2, EmptySeq
<1>9. Suits(u, v, items, d)
  <2>1. Said(u, v, "text", e.id) = Cat(Said(u, w, "text", e.id), e.text)
    BY <1>1, SaidMore
  <2>2. Opened(v, d.id)
    <3>1. Opened(w, e.id)
      BY <1>1, <1>2 DEF ItemsGood, DraftsOpened
    <3>2. QED BY <1>1, <1>3, <3>1, WireMore
  <2> HIDE DEF v
  <2>3. QED BY <1>1, <1>3, <1>4, <1>8, <2>1, <2>2 DEF Suits
<1> HIDE DEF v, next
<1>10. ItemsGood(u, v, next)
  BY <1>1, <1>3, <1>6, <1>7, <1>8, <1>9, ItemsDrafted DEF v
<1>11. QED BY <1>5, <1>7, <1>10 DEF v, next, d, more

LEMMA ItemsEndingOld ==
    ASSUME NEW u, NEW w \in Seq(Events(u)), NEW e \in Ending(u), NEW items \in Seq(Items(u)),
           ItemsGood(u, w, items), NEW k \in DOMAIN items, items[k] \in Drafts(u)
    PROVE  LET d == Told(items[k], <<>>, <<e.call>>)
           IN /\ Extend(items, items[k].id, Nothing, <<e.call>>) = Replaced(items, k, d)
              /\ Drafted(u, items, Replaced(items, k, d), d)
              /\ ItemsGood(u, Append(w, e), Replaced(items, k, d))
<1> DEFINE x == items[k]
           more == <<e.call>>
           d == Told(x, <<>>, more)
           v == Append(w, e)
           next == Replaced(items, k, d)
<1>1. e.event = "call_end" /\ e.call \in u.calls /\ e \in Events(u)
  BY DEF Ending, Events
<1>2. /\ more \in Seq(u.calls) /\ <<>> \in Words(u) /\ x.id \in Key(u) /\ x.calls \in Seq(u.calls)
      /\ x.text \in Words(u) /\ x \in ToSet(items)
  BY <1>1, EmptySeq, AloneIs DEF Drafts, Words, ToSet
<1> HIDE DEF more
<1>3. /\ d \in Drafts(u) /\ d.id = x.id /\ d.text = x.text /\ d.calls = Cat(x.calls, more)
  <2>1. Cat(x.text, <<>>) = x.text
    BY <1>2, CatNothing DEF Words
  <2>2. QED BY <1>2, <2>1, ToldIs
<1>4. Apart(items, DraftId(u)) /\ x.text = Said(u, w, "text", x.id)
  BY <1>2 DEF ItemsGood, DraftsSay
<1>5. Extend(items, x.id, Nothing, more) = next
  BY <1>2, <1>4, ExtendOld DEF Nothing
<1>6. CallsCounted(u, v, next)
  <2>1. ASSUME NEW c \in u.calls PROVE Times(c, CallsHeld(u, next)) = Times(c, CallsMade(u, v))
    <3>1. Times(c, CallsHeld(u, next)) = Times(c, CallsHeld(u, items)) + Times(c, more)
      BY <1>2, CallsHeldInstead
    <3>2. CallsMade(u, v) = Cat(CallsMade(u, w), more) /\ CallsMade(u, w) \in Seq(u.calls)
      BY <1>1, CallsMadeMore DEF more
    <3>3. Times(c, CallsMade(u, v)) = Times(c, CallsMade(u, w)) + Times(c, more)
      BY <1>2, <3>2, TimesTogether
    <3>4. QED BY <3>1, <3>3 DEF ItemsGood, CallsCounted
  <2>2. QED BY <2>1 DEF CallsCounted
<1> HIDE DEF d
<1>7. Drafted(u, items, next, d)
  BY <1>3, <1>4, DraftedOld
<1>8. d.calls # <<>>
  <2>1. Len(more) = 1
    BY DEF more
  <2>2. Len(d.calls) = Len(x.calls) + Len(more) /\ Len(x.calls) \in Nat
    BY <1>2, <1>3, ConcatProperties, LenProperties DEF Cat
  <2>3. QED BY <2>1, <2>2, EmptySeq
<1>9. Suits(u, v, items, d)
  <2>1. Said(u, v, "text", x.id) = Said(u, w, "text", x.id)
    BY <1>1, SaidMore
  <2>2. d.id \in Nat => Opened(v, d.id)
    <3>1. x.id \in Nat => Opened(w, x.id)
      BY <1>2 DEF ItemsGood, DraftsOpened
    <3>2. QED BY <1>1, <1>3, <3>1, WireMore
  <2>3. \A y \in ToSet(items) : y \in Drafts(u) /\ y.id = d.id => y.text = d.text
    BY <1>3, <1>4 DEF ItemsGood, DraftsSay
  <2> HIDE DEF v
  <2>4. QED BY <1>3, <1>4, <1>8, <2>1, <2>2, <2>3 DEF Suits
<1> HIDE DEF v, next
<1>10. ItemsGood(u, v, next)
  BY <1>1, <1>3, <1>6, <1>7, <1>9, ItemsDrafted DEF v
<1>11. QED BY <1>5, <1>7, <1>10 DEF v, next, d, more

LEMMA ItemsEndingNew ==
    ASSUME NEW u \in Setups, NEW w \in Seq(Events(u)), NEW e \in Ending(u), NEW items \in Seq(Items(u)),
           ItemsGood(u, w, items), ~DraftOf(items, e.call)
    PROVE  LET d == Told(Draft(e.call), <<>>, <<e.call>>)
           IN /\ Extend(items, e.call, Nothing, <<e.call>>) = Append(items, d)
              /\ Drafted(u, items, Append(items, d), d)
              /\ ItemsGood(u, Append(w, e), Append(items, d))
              /\ d.calls = <<e.call>> /\ d.id = e.call
<1> DEFINE more == <<e.call>>
           d == Told(Draft(e.call), <<>>, more)
           v == Append(w, e)
           next == Append(items, d)
<1>1. e.event = "call_end" /\ e.call \in u.calls /\ e \in Events(u) /\ e.call \notin Nat /\ e.call \in Key(u)
  BY SetupIs DEF Ending, Events, Key
<1>2. more \in Seq(u.calls) /\ <<>> \in Words(u) /\ more # <<>>
  BY <1>1, EmptySeq, AloneIs DEF Words
<1> HIDE DEF more
<1>3. /\ d \in Drafts(u) /\ d.id = e.call /\ d.text = <<>> /\ d.calls = more
  <2>1. /\ Draft(e.call) \in Drafts(u) /\ Draft(e.call).id = e.call
        /\ Draft(e.call).text = <<>> /\ Draft(e.call).calls = <<>>
    BY <1>1, DraftIs
  <2>2. Cat(<<>>, <<>>) = <<>> /\ Cat(<<>>, more) = more
    BY <1>2, CatNothing DEF Words
  <2>3. QED BY <1>2, <2>1, <2>2, ToldIs
<1>4. Apart(items, DraftId(u))
  BY DEF ItemsGood
<1>5. Extend(items, e.call, Nothing, more) = next
  BY <1>1, <1>2, ExtendNew DEF Nothing
<1> HIDE DEF d
<1>6. CallsCounted(u, v, next)
  <2>1. ASSUME NEW c \in u.calls PROVE Times(c, CallsHeld(u, next)) = Times(c, CallsMade(u, v))
    <3>1. IsDraft(d) /\ d \in Items(u)
      BY <1>3, ItemIs DEF Items
    <3>2. CallsHeld(u, next) = Cat(CallsHeld(u, items), more) /\ CallsHeld(u, items) \in Seq(u.calls)
      BY <1>3, <3>1, CallsHeldMore
    <3>3. CallsMade(u, v) = Cat(CallsMade(u, w), more) /\ CallsMade(u, w) \in Seq(u.calls)
      BY <1>1, CallsMadeMore DEF more
    <3>4. Times(c, CallsMade(u, v)) = Times(c, CallsMade(u, w)) + Times(c, more)
      BY <1>2, <3>3, TimesTogether
    <3>5. Times(c, CallsHeld(u, next)) = Times(c, CallsHeld(u, items)) + Times(c, more)
      BY <1>2, <3>2, TimesTogether
    <3>6. QED BY <3>4, <3>5 DEF ItemsGood, CallsCounted
  <2>2. QED BY <2>1 DEF CallsCounted
<1>7. Drafted(u, items, next, d)
  BY <1>3, <1>4, DraftedNew
<1>8. Suits(u, v, items, d)
  <2>1. d.text = Said(u, v, "text", d.id)
    BY <1>1, <1>3, Unsaid
  <2>2. \A x \in ToSet(items) : x \in Drafts(u) => x.id # d.id
    BY <1>3, ItemIs DEF DraftOf, Items
  <2> HIDE DEF v
  <2>3. QED BY <1>1, <1>2, <1>3, <2>1, <2>2 DEF Suits
<1> HIDE DEF v, next
<1>9. ItemsGood(u, v, next)
  BY <1>1, <1>3, <1>6, <1>7, <1>8, ItemsDrafted DEF v
<1>10. QED BY <1>3, <1>5, <1>7, <1>9 DEF v, next, d, more

LEMMA ItemsResulting ==
    ASSUME NEW u, NEW w \in Seq(Events(u)), NEW e \in Resulting(u), NEW items \in Seq(Items(u)),
           ItemsGood(u, w, items)
    PROVE  LET x == [kind |-> "tool", id |-> e.id, call |-> e.call, outcome |-> e.outcome]
           IN x \in Tools(u) /\ ItemsGood(u, Append(w, e), Append(items, x))
<1> DEFINE x == [kind |-> "tool", id |-> e.id, call |-> e.call, outcome |-> e.outcome]
           v == Append(w, e)
           next == Append(items, x)
<1>1. e.event = "result" /\ e \in Events(u) /\ x \in Tools(u)
  BY DEF Resulting, Events, Tools
<1>2. x \in Items(u) /\ x \notin Drafts(u) /\ ~IsDraft(x)
  BY <1>1 DEF Tools, Items, Drafts, IsDraft
<1>3. Came(v, x)
  BY <1>1, WireMore DEF Came
<1> HIDE DEF x
<1>4. ItemsGood(u, v, items)
  BY <1>1, ItemsStand
<1>5. next \in Seq(Items(u)) /\ ToSet(next) = ToSet(items) \union {x}
  BY <1>2, AppendProperties, AmongMore
<1>6. Apart(next, DraftId(u))
  <2>1. x \notin DOMAIN DraftId(u)
    BY <1>2 DEF DraftId
  <2>2. QED BY <1>2, <1>4, <2>1, ApartMore DEF ItemsGood
<1>7. CallsHeld(u, next) = CallsHeld(u, items)
  BY <1>2, CallsHeldMore
<1> HIDE DEF v, next
<1>8. DraftsSay(u, v, next) /\ TextsHeard(u, v, next) /\ DraftsOpened(u, v, next)
  BY <1>2, <1>4, <1>5 DEF ItemsGood, DraftsSay, TextsHeard, DraftsOpened
<1>9. ResultsCame(u, v, next)
  BY <1>3, <1>4, <1>5 DEF ItemsGood, ResultsCame
<1>10. CallsCounted(u, v, next)
  BY <1>4, <1>7 DEF ItemsGood, CallsCounted
<1>11. ItemsGood(u, v, next)
  BY <1>6, <1>8, <1>9, <1>10 DEF ItemsGood
<1>12. QED BY <1>1, <1>11 DEF v, next, x

-----------------------------------------------------------------------------
(* Thoughts and activities against the wire.                               *)

ThoughtsSay(u, w, rows) ==
    \A x \in ToSet(rows) :
        /\ x.text = Said(u, w, "reasoning", x.id)
        /\ \E e \in ToSet(w) : e.event = "reasoning_start" /\ e.id = x.id
ThoughtsHeard(w, rows) ==
    \A e \in ToSet(w) : e.event = "reasoning" => \E x \in ToSet(rows) : x.id = e.id
ThoughtsGood(u, w, rows) == ThoughtsSay(u, w, rows) /\ ThoughtsHeard(w, rows)

LEMMA ThoughtsStand ==
    ASSUME NEW u, NEW w \in Seq(Events(u)), NEW e \in Events(u), NEW rows \in Seq(Thought(u)),
           ThoughtsGood(u, w, rows), e.event # "reasoning"
    PROVE  ThoughtsGood(u, Append(w, e), rows)
<1>1. \A id : Said(u, Append(w, e), "reasoning", id) = Said(u, w, "reasoning", id)
  BY SaidMore
<1>2. ToSet(Append(w, e)) = ToSet(w) \union {e}
  BY WireMore
<1> DEFINE v == Append(w, e)
<1> HIDE DEF v
<1>3. ThoughtsSay(u, v, rows)
  BY <1>1, <1>2 DEF ThoughtsGood, ThoughtsSay, v
<1>4. ThoughtsHeard(v, rows)
  <2>1. ToSet(v) = ToSet(w) \union {e}
    BY <1>2 DEF v
  <2>2. QED BY <2>1 DEF ThoughtsGood, ThoughtsHeard
<1>5. QED BY <1>3, <1>4 DEF ThoughtsGood, v

LEMMA SetDefaultIs ==
    ASSUME NEW S, NEW rows \in Seq(S), NEW act
    PROVE  SetDefault(rows, act) = IF \E x \in ToSet(rows) : x.id = act.id THEN rows ELSE Append(rows, act)
<1>1. IndexOfId(rows, act.id) = {} <=> ~\E x \in ToSet(rows) : x.id = act.id
  BY DEF IndexOfId, ToSet
<1>2. QED BY <1>1 DEF SetDefault

LEMMA ThoughtsBegin ==
    ASSUME NEW u, NEW w \in Seq(Events(u)), NEW e \in Reasoning, NEW rows \in Seq(Thought(u)),
           ThoughtsGood(u, w, rows)
    PROVE  LET next == SetDefault(rows, [id |-> e.id, text |-> Nothing])
           IN next \in Seq(Thought(u)) /\ ThoughtsGood(u, Append(w, e), next)
<1> DEFINE act == [id |-> e.id, text |-> Nothing]
           v == Append(w, e)
           next == SetDefault(rows, act)
<1>1. e.event = "reasoning_start" /\ e.id \in Nat /\ e \in Events(u)
  BY DEF Reasoning, Events
<1>2. act \in Thought(u) /\ act.id = e.id /\ act.text = <<>>
  BY <1>1, EmptySeq DEF Thought, Words, Nothing
<1> HIDE DEF act
<1>3. ThoughtsGood(u, v, rows)
  BY <1>1, ThoughtsStand
<1>4. CASE \E x \in ToSet(rows) : x.id = act.id
  BY <1>3, <1>4, SetDefaultIs DEF act
<1>5. CASE ~\E x \in ToSet(rows) : x.id = act.id
  <2> DEFINE more == Append(rows, act)
  <2>1. next = more
    BY <1>5, SetDefaultIs
  <2>2. more \in Seq(Thought(u)) /\ ToSet(more) = ToSet(rows) \union {act}
    BY <1>2, AppendProperties, AmongMore
  <2>3. \A f \in ToSet(w) : ~(f.event = "reasoning" /\ f.id = e.id)
    BY <1>2, <1>5 DEF ThoughtsGood, ThoughtsHeard
  <2>4. v \in Seq(Events(u)) /\ ToSet(v) = ToSet(w) \union {e}
    BY <1>1, WireMore
  <2> HIDE DEF v, more
  <2>5. \A f \in ToSet(v) : ~(f.event = "reasoning" /\ f.id = e.id)
    BY <1>1, <2>3, <2>4
  <2>6. Said(u, v, "reasoning", e.id) = <<>>
    BY <2>4, <2>5, SaidNothing
  <2>7. ThoughtsSay(u, v, more)
    <3>1. \E f \in ToSet(v) : f.event = "reasoning_start" /\ f.id = act.id
      BY <1>1, <1>2, <2>4
    <3>2. QED BY <1>2, <1>3, <2>2, <2>6, <3>1 DEF ThoughtsGood, ThoughtsSay
  <2>8. ThoughtsHeard(v, more)
    BY <1>3, <2>2 DEF ThoughtsGood, ThoughtsHeard
  <2>9. QED BY <2>1, <2>2, <2>7, <2>8 DEF ThoughtsGood, act, v
<1>6. QED BY <1>4, <1>5

LEMMA ThoughtsGoOn ==
    ASSUME NEW u, NEW w \in Seq(Events(u)), NEW e \in Thinking(u), NEW rows \in Seq(Thought(u)),
           ThoughtsGood(u, w, rows), \E x \in ToSet(rows) : x.id = e.id
    PROVE  GoneOn(rows, e) \in Seq(Thought(u)) /\ ThoughtsGood(u, Append(w, e), GoneOn(rows, e))
<1> DEFINE next == [i \in DOMAIN rows |-> IF rows[i].id = e.id THEN [rows[i] EXCEPT !.text = @ \o e.text]
                                                               ELSE rows[i]]
           v == Append(w, e)
           n == Len(rows)
<1>1. e.event = "reasoning" /\ e.id \in Nat /\ e.text \in Words(u) /\ e \in Events(u)
  BY DEF Thinking, Events
<1>2. n \in Nat /\ DOMAIN rows = 1 .. n /\ \A i \in 1 .. n : rows[i] \in Thought(u) /\ rows[i] \in ToSet(rows)
  BY LenProperties, ElementOfSeq DEF ToSet
<1>3. \A i \in 1 .. n : /\ next[i] \in Thought(u) /\ next[i].id = rows[i].id
                        /\ next[i].text = IF rows[i].id = e.id THEN Cat(rows[i].text, e.text) ELSE rows[i].text
  <2> SUFFICES ASSUME NEW i \in 1 .. n
               PROVE  /\ next[i] \in Thought(u) /\ next[i].id = rows[i].id
                      /\ next[i].text = IF rows[i].id = e.id THEN Cat(rows[i].text, e.text) ELSE rows[i].text
    OBVIOUS
  <2> DEFINE x == rows[i]
             c == Cat(x.text, e.text)
  <2>1. x \in Thought(u) /\ c \in Words(u)
    <3>1. x \in Thought(u)
      BY <1>2
    <3>2. x.text \in Words(u)
      BY <3>1 DEF Thought
    <3>3. QED BY <1>1, <3>1, <3>2, CatType DEF Words
  <2>2. next[i] = IF x.id = e.id THEN [x EXCEPT !.text = c] ELSE x
    BY <1>2 DEF Cat
  <2> HIDE DEF next, c
  <2>3. QED BY <2>1, <2>2 DEF Thought, c
<1>4. DOMAIN next = 1 .. n
  BY <1>2
<1>5. next \in Seq(Thought(u))
  <2>1. next \in [1 .. n -> Thought(u)]
    BY <1>2, <1>3, <1>4
  <2>2. QED BY <1>2, <2>1, SeqDef
<1>6. \A id : /\ id # e.id => Said(u, v, "reasoning", id) = Said(u, w, "reasoning", id)
              /\ id = e.id => Said(u, v, "reasoning", id) = Cat(Said(u, w, "reasoning", id), e.text)
  BY <1>1, SaidMore
<1>7. ToSet(v) = ToSet(w) \union {e}
  BY <1>1, WireMore
<1> HIDE DEF next, v
<1>8. ThoughtsSay(u, v, next)
  <2> SUFFICES ASSUME NEW i \in 1 .. n
               PROVE  /\ next[i].text = Said(u, v, "reasoning", next[i].id)
                      /\ \E f \in ToSet(v) : f.event = "reasoning_start" /\ f.id = next[i].id
    BY <1>4 DEF ThoughtsSay, ToSet
  <2>1. /\ rows[i].text = Said(u, w, "reasoning", rows[i].id)
        /\ \E f \in ToSet(w) : f.event = "reasoning_start" /\ f.id = rows[i].id
    BY <1>2 DEF ThoughtsGood, ThoughtsSay
  <2>2. next[i].text = Said(u, v, "reasoning", next[i].id)
    BY <1>3, <1>6, <2>1
  <2>3. QED BY <1>3, <1>7, <2>1, <2>2
<1>9. ThoughtsHeard(v, next)
  <2>1. \A x \in ToSet(rows) : \E y \in ToSet(next) : y.id = x.id
    <3> SUFFICES ASSUME NEW i \in 1 .. n PROVE \E y \in ToSet(next) : y.id = rows[i].id
      BY <1>2 DEF ToSet
    <3>1. next[i] \in ToSet(next)
      BY <1>4 DEF ToSet
    <3>2. QED BY <1>3, <3>1
  <2>2. QED BY <1>7, <2>1 DEF ThoughtsGood, ThoughtsHeard
<1>10. GoneOn(rows, e) = next
  BY DEF GoneOn, next
<1> HIDE DEF next
<1>11. QED BY <1>5, <1>8, <1>9, <1>10 DEF ThoughtsGood, v

\* An event that shows or changes an activity, and the events that settle
\* what it holds: the first, and every one that replaces.
Shows(e, id) == e.event \in {"snapshot", "delta"} /\ e.id = id
Settles(w, id, i) == Shows(w[i], id) /\ (w[i].replace \/ \A j \in 1 .. i - 1 : ~Shows(w[j], id))
Settled(w, id, content) ==
    \E k \in DOMAIN w : /\ Settles(w, id, k) /\ w[k].content = content
                        /\ \A j \in DOMAIN w : Settles(w, id, j) => j <= k

LEMMA SettlesMore ==
    ASSUME NEW S, NEW w \in Seq(S), NEW e \in S, NEW id
    PROVE  /\ Len(w) \in Nat /\ DOMAIN w = 1 .. Len(w) /\ DOMAIN Append(w, e) = 1 .. Len(w) + 1
           /\ Append(w, e)[Len(w) + 1] = e
           /\ \A i \in 1 .. Len(w) : /\ Append(w, e)[i] = w[i]
                                     /\ Settles(Append(w, e), id, i) <=> Settles(w, id, i)
           /\ Settles(Append(w, e), id, Len(w) + 1) <=>
                Shows(e, id) /\ (e.replace \/ \A j \in 1 .. Len(w) : ~Shows(w[j], id))
<1> DEFINE v == Append(w, e)
           n == Len(w)
<1>1. /\ n \in Nat /\ DOMAIN w = 1 .. n /\ DOMAIN v = 1 .. n + 1
      /\ v[n + 1] = e
      /\ \A i \in 1 .. n : v[i] = w[i]
  BY AppendProperties, LenProperties
<1> HIDE DEF v, n
<1>2. ASSUME NEW i \in 1 .. n PROVE Settles(v, id, i) <=> Settles(w, id, i)
  <2>1. \A j \in 1 .. i - 1 : v[j] = w[j]
    BY <1>1
  <2>2. QED BY <1>1, <2>1 DEF Settles
<1>3. Settles(v, id, n + 1) <=> Shows(e, id) /\ (e.replace \/ \A j \in 1 .. n : ~Shows(w[j], id))
  <2>1. (n + 1) - 1 = n
    BY <1>1
  <2>2. (\A j \in 1 .. n : ~Shows(v[j], id)) <=> (\A j \in 1 .. n : ~Shows(w[j], id))
    BY <1>1
  <2>3. QED BY <1>1, <2>1, <2>2 DEF Settles
<1>4. QED BY <1>1, <1>2, <1>3 DEF v, n

\* Whether the event settles what an activity holds.
Decides(w, e, id) == Shows(e, id) /\ (e.replace \/ \A f \in ToSet(w) : ~Shows(f, id))

LEMMA SettledMore ==
    ASSUME NEW S, NEW w \in Seq(S), NEW e \in S, NEW id
    PROVE  /\ Decides(w, e, id) => Settled(Append(w, e), id, e.content)
           /\ \A content : ~Decides(w, e, id) /\ Settled(w, id, content) => Settled(Append(w, e), id, content)
<1> DEFINE v == Append(w, e)
           n == Len(w)
<1>1. /\ n \in Nat /\ DOMAIN w = 1 .. n /\ DOMAIN v = 1 .. n + 1
      /\ v[n + 1] = e
      /\ \A i \in 1 .. n : v[i] = w[i]
      /\ \A i \in 1 .. n : Settles(v, id, i) <=> Settles(w, id, i)
  BY SettlesMore
<1>2. Settles(v, id, n + 1) <=> Decides(w, e, id)
  <2>1. (\A j \in 1 .. n : ~Shows(w[j], id)) <=> (\A f \in ToSet(w) : ~Shows(f, id))
    BY <1>1 DEF ToSet
  <2>2. QED BY <2>1, SettlesMore DEF Decides
<1> HIDE DEF v, n
<1>3. ASSUME Decides(w, e, id) PROVE Settled(v, id, e.content)
  <2>1. n + 1 \in DOMAIN v /\ \A j \in DOMAIN v : j <= n + 1
    BY <1>1
  <2>2. Settles(v, id, n + 1) /\ v[n + 1].content = e.content
    BY <1>1, <1>2, <1>3
  <2>3. QED BY <2>1, <2>2 DEF Settled
<1>4. ASSUME NEW content, ~Decides(w, e, id), Settled(w, id, content) PROVE Settled(v, id, content)
  <2>1. PICK k \in 1 .. n : /\ Settles(w, id, k) /\ w[k].content = content
                            /\ \A j \in 1 .. n : Settles(w, id, j) => j <= k
    BY <1>1, <1>4 DEF Settled
  <2>2. k \in DOMAIN v /\ Settles(v, id, k) /\ v[k].content = content
    BY <1>1, <2>1
  <2>3. ASSUME NEW j \in DOMAIN v, Settles(v, id, j) PROVE j <= k
    <3>1. j # n + 1
      BY <1>2, <1>4, <2>3
    <3>2. j \in 1 .. n
      BY <1>1, <3>1
    <3>3. QED BY <1>1, <2>1, <2>3, <3>2
  <2>4. QED BY <2>2, <2>3 DEF Settled
<1>5. QED BY <1>3, <1>4 DEF v

Snapped(w, x) == \E e \in ToSet(w) : e.event = "snapshot" /\ e.id = x.id /\ e.type = x.type
Rests(w, x) == Settled(w, x.id, x.content) /\ (x.content # Nothing => Snapped(w, x))
ActivitiesHold(w, rows) == \A x \in ToSet(rows) : Rests(w, x)
ActivitiesSeen(w, rows) == \A e \in ToSet(w) : \A id : Shows(e, id) => \E x \in ToSet(rows) : x.id = id
ActivitiesGood(w, rows) == ActivitiesHold(w, rows) /\ ActivitiesSeen(w, rows)

LEMMA ActivitiesStand ==
    ASSUME NEW u, NEW w \in Seq(Events(u)), NEW e \in Events(u), NEW rows \in Seq(Activity(u)),
           ActivitiesGood(w, rows), e.event \notin {"snapshot", "delta"}
    PROVE  ActivitiesGood(Append(w, e), rows)
<1> DEFINE v == Append(w, e)
<1>1. ToSet(v) = ToSet(w) \union {e}
  BY WireMore
<1>2. \A id : ~Shows(e, id) /\ ~Decides(w, e, id)
  BY DEF Shows, Decides
<1>3. \A id, content : Settled(w, id, content) => Settled(v, id, content)
  BY <1>2, SettledMore
<1> HIDE DEF v
<1>4. \A x : Snapped(w, x) => Snapped(v, x)
  BY <1>1 DEF Snapped
<1>5. ActivitiesHold(v, rows)
  BY <1>3, <1>4 DEF ActivitiesGood, ActivitiesHold, Rests
<1>6. ActivitiesSeen(v, rows)
  BY <1>1, <1>2 DEF ActivitiesGood, ActivitiesSeen
<1>7. QED BY <1>5, <1>6 DEF ActivitiesGood, v

(* A delta is kept as a snapshot with nothing in it.                       *)
LEMMA DeltaIs ==
    ASSUME NEW u, NEW e \in Changing(u), NEW rows
    PROVE  Delta(rows, e) = Snapshot(rows, e)
<1>1. e.content = Nothing /\ e.replace = TRUE
  BY DEF Changing
<1>2. QED BY <1>1 DEF Delta, Snapshot

LEMMA SnapshotIs ==
    ASSUME NEW u, NEW w \in Seq(Events(u)), NEW e \in Snapping(u) \union Changing(u),
           NEW rows \in Seq(Activity(u)), ActivitiesGood(w, rows),
           \A x \in ToSet(rows) : x.id = e.id => x.type = e.type
    PROVE  Snapshot(rows, e) \in Seq(Activity(u)) /\ ActivitiesGood(Append(w, e), Snapshot(rows, e))
<1> DEFINE act == [id |-> e.id, type |-> e.type, content |-> e.content]
           known == SetDefault(rows, act)
           next == Snapshot(rows, e)
           v == Append(w, e)
           n == Len(known)
<1>1. /\ e.event \in {"snapshot", "delta"} /\ e.id \in Nat /\ e \in Events(u)
      /\ e.type \in Kinds(u) /\ e.content \in Inside(u)
      /\ e.content # Nothing => e.event = "snapshot"
  BY DEF Snapping, Changing, Events, Inside
<1>2. act \in Activity(u) /\ act.id = e.id /\ act.type = e.type /\ act.content = e.content
  BY <1>1 DEF Activity
<1> HIDE DEF act
<1> DEFINE old == \E x \in ToSet(rows) : x.id = e.id
<1>3. known = IF old THEN rows ELSE Append(rows, act)
  BY <1>2, SetDefaultIs
<1>4. /\ known \in Seq(Activity(u))
      /\ \A x \in ToSet(known) : x.id = e.id => x.type = e.type
      /\ \A x \in ToSet(known) : x \in ToSet(rows) \/ (x = act /\ ~old)
      /\ \A x \in ToSet(rows) : x \in ToSet(known)
      /\ \E x \in ToSet(known) : x.id = e.id
  <2>1. CASE old
    BY <1>3, <2>1
  <2>2. CASE ~old
    <3> DEFINE more == Append(rows, act)
    <3>1. more \in Seq(Activity(u)) /\ ToSet(more) = ToSet(rows) \union {act}
      BY <1>2, AppendProperties, AmongMore
    <3>2. known = more
      BY <1>3, <2>2
    <3> HIDE DEF more, known, old
    <3>3. QED BY <1>2, <2>2, <3>1, <3>2
  <2>3. QED BY <2>1, <2>2
<1>5. next = [i \in DOMAIN known |-> IF known[i].id = e.id /\ e.replace
                                     THEN [known[i] EXCEPT !.content = e.content] ELSE known[i]]
  BY DEF Snapshot, act
<1> HIDE DEF known, next, old
<1>6. n \in Nat /\ DOMAIN known = 1 .. n /\ \A i \in 1 .. n : known[i] \in Activity(u) /\ known[i] \in ToSet(known)
  BY <1>4, LenProperties, ElementOfSeq DEF ToSet
<1>7. DOMAIN next = 1 .. n
  BY <1>5, <1>6
<1>8. ASSUME NEW i \in 1 .. n
      PROVE  /\ next[i] \in Activity(u) /\ next[i].id = known[i].id /\ next[i].type = known[i].type
             /\ next[i].content = IF known[i].id = e.id /\ e.replace THEN e.content ELSE known[i].content
  <2> DEFINE x == known[i]
  <2>1. x \in Activity(u)
    BY <1>6
  <2>2. next[i] = IF x.id = e.id /\ e.replace THEN [x EXCEPT !.content = e.content] ELSE x
    BY <1>5, <1>6
  <2> HIDE DEF x
  <2>3. /\ next[i] \in Activity(u) /\ next[i].id = x.id /\ next[i].type = x.type
        /\ next[i].content = IF x.id = e.id /\ e.replace THEN e.content ELSE x.content
    <3>1. CASE x.id = e.id /\ e.replace
      BY <1>1, <2>1, <2>2, <3>1 DEF Activity
    <3>2. CASE ~(x.id = e.id /\ e.replace)
      BY <2>1, <2>2, <3>2
    <3>3. QED BY <3>1, <3>2
  <2>4. QED BY <2>3 DEF x
<1>9. next \in Seq(Activity(u))
  <2>1. next \in [1 .. n -> Activity(u)]
    BY <1>5, <1>6, <1>8
  <2>2. QED BY <1>6, <2>1, SeqDef
<1>10. ToSet(v) = ToSet(w) \union {e}
  BY <1>1, WireMore
<1>11. /\ \A id : Decides(w, e, id) => Settled(v, id, e.content)
       /\ \A id, content : ~Decides(w, e, id) /\ Settled(w, id, content) => Settled(v, id, content)
  BY <1>1, SettledMore
<1> HIDE DEF v, n
<1>12. \A x : Snapped(w, x) => Snapped(v, x)
  BY <1>10 DEF Snapped
<1>13. old <=> \E f \in ToSet(w) : Shows(f, e.id)
  <2>1. ASSUME NEW f \in ToSet(w), Shows(f, e.id) PROVE old
    BY <2>1 DEF ActivitiesGood, ActivitiesSeen, old
  <2>2. ASSUME old PROVE \E f \in ToSet(w) : Shows(f, e.id)
    <3>1. PICK x \in ToSet(rows) : x.id = e.id
      BY <2>2 DEF old
    <3>2. PICK k \in DOMAIN w : Shows(w[k], e.id)
      BY <3>1 DEF ActivitiesGood, ActivitiesHold, Rests, Settled, Settles
    <3>3. QED BY <3>2 DEF ToSet
  <2>3. QED BY <2>1, <2>2
<1>14. Decides(w, e, e.id) <=> e.replace \/ ~old
  <2>1. Shows(e, e.id)
    BY <1>1 DEF Shows
  <2>2. QED BY <1>13, <2>1 DEF Decides
<1>15. ASSUME NEW i \in 1 .. n PROVE Rests(v, next[i])
  <2> DEFINE x == known[i]
             y == next[i]
  <2>1. /\ x \in ToSet(known) /\ y.id = x.id /\ y.type = x.type
        /\ y.content = IF x.id = e.id /\ e.replace THEN e.content ELSE x.content
    BY <1>6, <1>8
  <2>2. x \in ToSet(rows) \/ (x = act /\ ~old)
    BY <1>4, <2>1
  <2> HIDE DEF x, y
  <2>3. CASE x.id # e.id
    <3>1. x \in ToSet(rows) /\ y.content = x.content
      BY <1>2, <2>1, <2>2, <2>3
    <3>2. ~Decides(w, e, x.id)
      BY <2>3 DEF Decides, Shows
    <3>3. Settled(w, x.id, x.content) /\ (x.content # Nothing => Snapped(w, x))
      BY <3>1 DEF ActivitiesGood, ActivitiesHold, Rests
    <3>4. Snapped(w, x) => Snapped(v, y)
      BY <1>10, <2>1 DEF Snapped
    <3>5. QED BY <1>11, <2>1, <3>1, <3>2, <3>3, <3>4 DEF Rests, y
  <2>4. CASE x.id = e.id /\ ~(e.replace \/ ~old)
    <3>1. x \in ToSet(rows) /\ y.content = x.content
      BY <2>1, <2>2, <2>4
    <3>2. ~Decides(w, e, x.id)
      BY <1>14, <2>4
    <3>3. Settled(w, x.id, x.content) /\ (x.content # Nothing => Snapped(w, x))
      BY <3>1 DEF ActivitiesGood, ActivitiesHold, Rests
    <3>4. Snapped(w, x) => Snapped(v, y)
      BY <1>10, <2>1 DEF Snapped
    <3>5. QED BY <1>11, <2>1, <3>1, <3>2, <3>3, <3>4 DEF Rests, y
  <2>5. CASE x.id = e.id /\ (e.replace \/ ~old)
    <3>1. y.content = e.content
      <4>1. CASE e.replace
        BY <2>1, <2>5, <4>1
      <4>2. CASE ~e.replace /\ ~old
        <5>1. x = act
          BY <2>2, <2>5, <4>2 DEF old
        <5>2. QED BY <1>2, <2>1, <5>1
      <4>3. QED BY <2>5, <4>1, <4>2
    <3>2. Settled(v, y.id, e.content)
      BY <1>11, <1>14, <2>1, <2>5
    <3>3. y.type = e.type
      BY <1>4, <2>1, <2>5
    <3>4. e.content # Nothing => Snapped(v, y)
      BY <1>1, <1>10, <2>1, <2>5, <3>3 DEF Snapped
    <3>5. QED BY <3>1, <3>2, <3>4 DEF Rests, y
  <2>6. QED BY <2>3, <2>4, <2>5 DEF y
<1>16. ActivitiesHold(v, next)
  BY <1>7, <1>15 DEF ActivitiesHold, ToSet
<1>17. ActivitiesSeen(v, next)
  <2>1. ASSUME NEW x \in ToSet(known) PROVE \E y \in ToSet(next) : y.id = x.id
    <3>1. PICK i \in 1 .. n : x = known[i]
      BY <1>6 DEF ToSet
    <3>2. next[i] \in ToSet(next) /\ next[i].id = x.id
      BY <1>7, <1>8, <3>1 DEF ToSet
    <3>3. QED BY <3>2
  <2>2. ASSUME NEW f \in ToSet(v), NEW id, Shows(f, id) PROVE \E x \in ToSet(known) : x.id = id
    <3>1. CASE f = e
      BY <1>4, <2>2, <3>1 DEF Shows
    <3>2. CASE f \in ToSet(w)
      BY <1>4, <2>2, <3>2 DEF ActivitiesGood, ActivitiesSeen
    <3>3. QED BY <1>10, <3>1, <3>2
  <2>3. QED BY <2>1, <2>2 DEF ActivitiesSeen
<1>18. QED BY <1>9, <1>16, <1>17 DEF ActivitiesGood, next, v

-----------------------------------------------------------------------------
(* Calls and results in order.                                             *)

Mark(u) == {"call", "result"} \X u.calls
CallMark(u) == [c \in u.calls |-> <<"call", c>>]
Trailer(u) ==
    [x \in Items(u) |-> IF IsDraft(x) THEN Mapped(x.calls, CallMark(u)) ELSE <<<<"result", x.call>>>>]
Marker(u) ==
    [e \in Events(u) |-> IF e.event = "call_end" THEN <<<<"call", e.call>>>>
                         ELSE IF e.event = "result" THEN <<<<"result", e.call>>>> ELSE <<>>]

Trail(u, items) == Spread(items, Trailer(u))
Marks(u, w) == Spread(w, Marker(u))
InOrder(u, w, items) == Trail(u, items) = Marks(u, w)

LEMMA MarkIs ==
    ASSUME NEW u, NEW kind \in {"call", "result"}, NEW c \in u.calls
    PROVE  <<kind, c>> \in Mark(u) /\ <<<<kind, c>>>> \in Seq(Mark(u))
<1>1. <<kind, c>> \in Mark(u)
  BY DEF Mark
<1>2. QED BY <1>1, AloneIs

LEMMA CallMarkMaps ==
    ASSUME NEW u
    PROVE  Maps(CallMark(u), u.calls, Mark(u))
BY MarkIs DEF Maps, CallMark

LEMMA TrailerMaps ==
    ASSUME NEW u
    PROVE  Maps(Trailer(u), Items(u), Seq(Mark(u)))
<1>1. ASSUME NEW x \in Items(u), IsDraft(x) PROVE Mapped(x.calls, CallMark(u)) \in Seq(Mark(u))
  <2>1. x.calls \in Seq(u.calls)
    BY <1>1, ItemIs DEF Drafts
  <2>2. QED BY <2>1, CallMarkMaps, MappedType
<1>2. ASSUME NEW x \in Items(u), ~IsDraft(x) PROVE <<<<"result", x.call>>>> \in Seq(Mark(u))
  <2>1. x.call \in u.calls
    BY <1>2, ItemIs DEF Items, Tools
  <2>2. QED BY <2>1, MarkIs
<1>3. QED BY <1>1, <1>2 DEF Maps, Trailer

LEMMA MarkerMaps ==
    ASSUME NEW u
    PROVE  Maps(Marker(u), Events(u), Seq(Mark(u)))
<1>1. ASSUME NEW e \in Events(u), e.event = "call_end" PROVE <<<<"call", e.call>>>> \in Seq(Mark(u))
  <2>1. e.call \in u.calls
    BY <1>1, EventIs DEF Ending
  <2>2. QED BY <2>1, MarkIs
<1>2. ASSUME NEW e \in Events(u), e.event = "result" PROVE <<<<"result", e.call>>>> \in Seq(Mark(u))
  <2>1. e.call \in u.calls
    BY <1>2, EventIs DEF Resulting
  <2>2. QED BY <2>1, MarkIs
<1>3. QED BY <1>1, <1>2, EmptySeq DEF Maps, Marker

LEMMA MarksMore ==
    ASSUME NEW u, NEW w \in Seq(Events(u)), NEW e \in Events(u)
    PROVE  /\ e.event = "call_end" => Marks(u, Append(w, e)) = Cat(Marks(u, w), <<<<"call", e.call>>>>)
           /\ e.event = "result" => Marks(u, Append(w, e)) = Cat(Marks(u, w), <<<<"result", e.call>>>>)
           /\ e.event \notin {"call_end", "result"} => Marks(u, Append(w, e)) = Marks(u, w)
<1> DEFINE g == Marker(u)
<1>1. Maps(g, Events(u), Seq(Mark(u)))
  BY MarkerMaps
<1>2. g[e] = IF e.event = "call_end" THEN <<<<"call", e.call>>>>
             ELSE IF e.event = "result" THEN <<<<"result", e.call>>>> ELSE <<>>
  BY DEF Marker
<1> HIDE DEF g
<1>3. Spread(w, g) \in Seq(Mark(u)) /\ Spread(Append(w, e), g) = Cat(Spread(w, g), g[e])
  BY <1>1, SpreadType, SpreadMore
<1>4. Cat(Spread(w, g), <<>>) = Spread(w, g)
  BY <1>3, CatNothing
<1>5. QED BY <1>2, <1>3, <1>4 DEF Marks, g

LEMMA TrailMore ==
    ASSUME NEW u, NEW items \in Seq(Items(u)), NEW x \in Items(u)
    PROVE  /\ Trail(u, items) \in Seq(Mark(u))
           /\ IsDraft(x) => Trail(u, Append(items, x)) = Cat(Trail(u, items), Mapped(x.calls, CallMark(u)))
           /\ ~IsDraft(x) => Trail(u, Append(items, x)) = Cat(Trail(u, items), <<<<"result", x.call>>>>)
<1> DEFINE g == Trailer(u)
<1>1. Maps(g, Items(u), Seq(Mark(u)))
  BY TrailerMaps
<1>2. g[x] = IF IsDraft(x) THEN Mapped(x.calls, CallMark(u)) ELSE <<<<"result", x.call>>>>
  BY DEF Trailer
<1> HIDE DEF g
<1>3. Spread(items, g) \in Seq(Mark(u)) /\ Spread(Append(items, x), g) = Cat(Spread(items, g), g[x])
  BY <1>1, SpreadType, SpreadMore
<1>4. QED BY <1>2, <1>3 DEF Trail, g

LEMMA CallMarked ==
    ASSUME NEW u, NEW calls \in Seq(u.calls), NEW c \in u.calls
    PROVE  /\ Mapped(calls, CallMark(u)) \in Seq(Mark(u))
           /\ Mapped(Cat(calls, <<c>>), CallMark(u)) = Cat(Mapped(calls, CallMark(u)), <<<<"call", c>>>>)
           /\ Mapped(<<c>>, CallMark(u)) = <<<<"call", c>>>>
           /\ Mapped(<<>>, CallMark(u)) = <<>>
<1> DEFINE g == CallMark(u)
<1>1. Maps(g, u.calls, Mark(u)) /\ g[c] = <<"call", c>>
  BY CallMarkMaps DEF CallMark
<1> HIDE DEF g
<1>2. Cat(calls, <<c>>) = Append(calls, c)
  BY CatAppend
<1>3. Mapped(Append(calls, c), g) = Cat(Mapped(calls, g), <<g[c]>>)
  BY <1>1, MappedMore
<1>4. Mapped(calls, g) \in Seq(Mark(u)) /\ Mapped(<<c>>, g) = <<g[c]>> /\ Mapped(<<>>, g) = <<>>
  BY <1>1, MappedType, MappedOne, MappedNone
<1>5. QED BY <1>1, <1>2, <1>3, <1>4 DEF g

(* A draft with no calls adds nothing, one that is told a text changes     *)
(* nothing, and the last one adds the call it is told.                     *)
LEMMA TrailOpening ==
    ASSUME NEW u, NEW items \in Seq(Items(u)), NEW d \in Drafts(u), d.calls = <<>>
    PROVE  Trail(u, Append(items, d)) = Trail(u, items)
<1>1. d \in Items(u) /\ IsDraft(d)
  <2>1. d \in Items(u)
    BY DEF Items
  <2>2. QED BY <2>1, ItemIs
<1>2. Mapped(<<>>, CallMark(u)) = <<>>
  BY MappedNone
<1>3. Trail(u, Append(items, d)) = Cat(Trail(u, items), <<>>) /\ Trail(u, items) \in Seq(Mark(u))
  BY <1>1, <1>2, TrailMore
<1>4. QED BY <1>3, CatNothing

LEMMA TrailSpeaking ==
    ASSUME NEW u, NEW items \in Seq(Items(u)), NEW k \in DOMAIN items, items[k] \in Drafts(u),
           NEW d \in Drafts(u), d.calls = items[k].calls
    PROVE  Trail(u, Replaced(items, k, d)) = Trail(u, items)
<1> DEFINE next == Replaced(items, k, d)
           g == Trailer(u)
<1>1. d \in Items(u) /\ IsDraft(d) /\ items[k] \in Items(u) /\ IsDraft(items[k])
  <2>1. d \in Items(u) /\ items[k] \in Items(u)
    BY DEF Items
  <2>2. QED BY <2>1, ItemIs
<1>2. next \in Seq(Items(u)) /\ Differ(next, items, k, d)
  BY <1>1, ReplacedIs
<1>3. g[d] = g[items[k]]
  BY <1>1 DEF Trailer
<1> HIDE DEF next, g
<1>4. \A i \in DOMAIN items : g[next[i]] = g[items[i]]
  <2> SUFFICES ASSUME NEW i \in DOMAIN items PROVE g[next[i]] = g[items[i]]
    OBVIOUS
  <2>1. CASE i = k
    BY <1>2, <1>3, <2>1 DEF Differ
  <2>2. CASE i # k
    BY <1>2, <2>2 DEF Differ
  <2>3. QED BY <2>1, <2>2
<1>5. Mapped(next, g) = Mapped(items, g)
  BY <1>2, <1>4 DEF Mapped, Differ
<1>6. QED BY <1>5 DEF Trail, Spread, next, g

LEMMA TrailEnding ==
    ASSUME NEW u, NEW items \in Seq(Items(u)), items # <<>>, items[Len(items)] \in Drafts(u),
           NEW d \in Drafts(u), NEW c \in u.calls, d.calls = Cat(items[Len(items)].calls, <<c>>)
    PROVE  Trail(u, Replaced(items, Len(items), d)) = Cat(Trail(u, items), <<<<"call", c>>>>)
<1>1. PICK f \in Seq(Items(u)), x \in Items(u) : items = Append(f, x)
  BY SequenceEmptyOrAppend
<1>2. Len(items) = Len(f) + 1 /\ items[Len(items)] = x
  BY <1>1, AppendProperties
<1>3. d \in Items(u) /\ IsDraft(d) /\ IsDraft(x) /\ x \in Drafts(u)
  <2>1. d \in Items(u)
    BY DEF Items
  <2>2. QED BY <1>2, <2>1, ItemIs
<1>4. Replaced(items, Len(items), d) = Append(f, d)
  BY <1>1, <1>2, <1>3, AroundLast
<1> DEFINE m == Mapped(x.calls, CallMark(u))
           z == <<<<"call", c>>>>
           t == Trail(u, f)
<1>5. x.calls \in Seq(u.calls) /\ d.calls = Cat(x.calls, <<c>>)
  BY <1>2, <1>3 DEF Drafts
<1>6. m \in Seq(Mark(u)) /\ Mapped(d.calls, CallMark(u)) = Cat(m, z) /\ z \in Seq(Mark(u))
  BY <1>5, CallMarked, MarkIs
<1> HIDE DEF m, z
<1>7. t \in Seq(Mark(u)) /\ Trail(u, Append(f, d)) = Cat(t, Cat(m, z)) /\ Trail(u, Append(f, x)) = Cat(t, m)
  <2>1. t \in Seq(Mark(u)) /\ Trail(u, Append(f, d)) = Cat(t, Mapped(d.calls, CallMark(u)))
    BY <1>3, TrailMore
  <2>2. Trail(u, Append(f, x)) = Cat(t, m)
    BY <1>3, TrailMore DEF m
  <2>3. QED BY <1>6, <2>1, <2>2
<1> HIDE DEF t
<1>8. Cat(t, Cat(m, z)) = Cat(Cat(t, m), z)
  BY <1>6, <1>7, CatAssociates
<1>9. QED BY <1>1, <1>4, <1>7, <1>8 DEF z

-----------------------------------------------------------------------------
(* What a draft is changed for leaves the rest of what is known of the     *)
(* items.                                                                  *)

DraftLast(items, id) == items # <<>> /\ IsDraft(items[Len(items)]) /\ items[Len(items)].id = id

ParentsGood(items, parents) == \A p \in ToSet(parents) : p[2] # NoId => DraftOf(items, p[2])

\* The ids that are numbers are up to n.
Named(u, n, items, rows) ==
    /\ \A x \in ToSet(items) : x \in Drafts(u) => x.id \in 1 .. n \/ x.id \in u.calls
    /\ \A x \in ToSet(rows) : x.id \in 1 .. n

\* A call id is used again.
Repeats(w) ==
    \E i, j \in DOMAIN w : /\ i # j /\ w[i].event = "call_start" /\ w[j].event = "call_start"
                           /\ w[i].call = w[j].call
Ordered(u, w, items) == (u.parentless /\ Repeats(w)) \/ InOrder(u, w, items)

LEMMA DraftedOf ==
    ASSUME NEW u, NEW items \in Seq(Items(u)), NEW next, NEW d, Drafted(u, items, next, d), NEW id
    PROVE  DraftOf(next, id) <=> DraftOf(items, id) \/ id = d.id
<1>1. IsDraft(d) /\ d \in ToSet(next)
  BY DEF Drafted, Drafts, IsDraft
<1>2. ASSUME DraftOf(next, id) PROVE DraftOf(items, id) \/ id = d.id
  BY <1>2 DEF DraftOf, Drafted
<1>3. ASSUME DraftOf(items, id) PROVE DraftOf(next, id)
  <2>1. PICK x \in ToSet(items) : IsDraft(x) /\ x.id = id
    BY <1>3 DEF DraftOf
  <2>2. QED BY <1>1, <2>1 DEF DraftOf, Drafted
<1>4. ASSUME id = d.id PROVE DraftOf(next, id)
  BY <1>1, <1>4 DEF DraftOf
<1>5. QED BY <1>2, <1>3, <1>4

LEMMA ParentsDrafted ==
    ASSUME NEW u, NEW items \in Seq(Items(u)), NEW next, NEW d, Drafted(u, items, next, d), NEW parents,
           ParentsGood(items, parents)
    PROVE  ParentsGood(next, parents)
BY DraftedOf DEF ParentsGood

LEMMA NamedDrafted ==
    ASSUME NEW u, NEW items \in Seq(Items(u)), NEW next, NEW d, Drafted(u, items, next, d),
           NEW n \in Nat, NEW m \in Nat, n <= m, NEW rows, Named(u, n, items, rows),
           d.id \in 1 .. m \/ d.id \in u.calls
    PROVE  Named(u, m, next, rows)
<1>1. 1 .. n \subseteq 1 .. m
  OBVIOUS
<1>2. \A x \in ToSet(rows) : x.id \in 1 .. m
  BY <1>1 DEF Named
<1>3. \A x \in ToSet(next) : x \in Drafts(u) => x.id \in 1 .. m \/ x.id \in u.calls
  BY <1>1 DEF Named, Drafted
<1>4. QED BY <1>2, <1>3 DEF Named

LEMMA NamedMore ==
    ASSUME NEW u, NEW n \in Nat, NEW m \in Nat, n <= m, NEW items, NEW rows, Named(u, n, items, rows)
    PROVE  Named(u, m, items, rows)
<1>1. 1 .. n \subseteq 1 .. m
  OBVIOUS
<1>2. QED BY <1>1 DEF Named

LEMMA LastReplaced ==
    ASSUME NEW u, NEW items \in Seq(Items(u)), NEW k \in DOMAIN items, items[k] \in Drafts(u),
           NEW d \in Drafts(u), d.id = items[k].id, NEW id, DraftLast(items, id)
    PROVE  DraftLast(Replaced(items, k, d), id)
<1> DEFINE next == Replaced(items, k, d)
<1>1. d \in Items(u) /\ IsDraft(d)
  BY DEF Items, Drafts, IsDraft
<1>2. next \in Seq(Items(u)) /\ Differ(next, items, k, d)
  BY <1>1, ReplacedIs
<1> HIDE DEF next
<1>3. Len(next) = Len(items) /\ next # <<>>
  BY <1>2, EmptySeq, LenProperties DEF Differ, DraftLast
<1>4. Len(items) \in DOMAIN items
  BY LenProperties, EmptySeq DEF DraftLast
<1>5. CASE k = Len(items)
  <2>1. next[Len(items)] = d
    BY <1>2, <1>5 DEF Differ
  <2>2. d.id = id
    BY <1>5 DEF DraftLast
  <2>3. QED BY <1>1, <1>3, <2>1, <2>2 DEF DraftLast, next
<1>6. CASE k # Len(items)
  <2>1. next[Len(items)] = items[Len(items)]
    BY <1>2, <1>4, <1>6 DEF Differ
  <2>2. QED BY <1>3, <2>1 DEF DraftLast, next
<1>7. QED BY <1>5, <1>6

LEMMA LastAppended ==
    ASSUME NEW u, NEW items \in Seq(Items(u)), NEW d \in Drafts(u)
    PROVE  DraftLast(Append(items, d), d.id)
<1>1. d \in Items(u) /\ IsDraft(d)
  BY DEF Items, Drafts, IsDraft
<1> DEFINE next == Append(items, d)
<1>2. next # <<>> /\ next[Len(next)] = d
  BY <1>1, AppendProperties
<1>3. QED BY <1>1, <1>2 DEF DraftLast

LEMMA RepeatsMore ==
    ASSUME NEW S, NEW w \in Seq(S), NEW e \in S
    PROVE  /\ Repeats(w) => Repeats(Append(w, e))
           /\ (e.event = "call_start" /\ \E f \in ToSet(w) : f.event = "call_start" /\ f.call = e.call)
                => Repeats(Append(w, e))
<1> DEFINE v == Append(w, e)
           n == Len(w)
<1>1. /\ n \in Nat /\ DOMAIN w = 1 .. n /\ DOMAIN v = 1 .. n + 1
      /\ \A i \in 1 .. n : v[i] = w[i]
      /\ v[n + 1] = e
  BY AppendProperties, LenProperties
<1> HIDE DEF v, n
<1>2. ASSUME Repeats(w) PROVE Repeats(v)
  <2>1. PICK i \in DOMAIN w, j \in DOMAIN w :
           /\ i # j /\ w[i].event = "call_start" /\ w[j].event = "call_start"
           /\ w[i].call = w[j].call
    BY <1>2 DEF Repeats
  <2>2. v[i] = w[i] /\ v[j] = w[j] /\ i \in DOMAIN v /\ j \in DOMAIN v
    BY <1>1, <2>1
  <2>3. QED BY <2>1, <2>2 DEF Repeats
<1>3. ASSUME e.event = "call_start", NEW f \in ToSet(w), f.event = "call_start", f.call = e.call PROVE Repeats(v)
  <2>1. PICK i \in DOMAIN w : w[i] = f
    BY <1>3 DEF ToSet
  <2>2. v[i] = f /\ v[n + 1] = e /\ i \in DOMAIN v /\ n + 1 \in DOMAIN v /\ i # n + 1
    BY <1>1, <2>1
  <2>3. QED BY <1>3, <2>2 DEF Repeats
<1>4. QED BY <1>2, <1>3 DEF v

-----------------------------------------------------------------------------
(* A transcript that is good, its numbers up to n, for the events w.       *)

OneType(rows) == \A x, y \in ToSet(rows) : x.id = y.id => x.type = y.type

Good(u, n, w, t) ==
    /\ n \in Nat /\ w \in Seq(Events(u)) /\ t \in Trs(u)
    /\ ItemsGood(u, w, t.items) /\ ThoughtsGood(u, w, t.reasoning) /\ ActivitiesGood(w, t.activities)
    /\ OneType(t.activities) /\ ParentsGood(t.items, t.parents)
    /\ Ordered(u, w, t.items) /\ Named(u, n, t.items, t.activities)

LEMMA GoodTypes ==
    ASSUME NEW u, NEW n, NEW w, NEW t, Good(u, n, w, t)
    PROVE  /\ n \in Nat /\ w \in Seq(Events(u)) /\ t \in Trs(u)
           /\ t.items \in Seq(Items(u)) /\ t.reasoning \in Seq(Thought(u))
           /\ t.activities \in Seq(Activity(u)) /\ t.parents \in Seq(Parents(u))
           /\ t.pending \in Pending(u)
BY DEF Good, Trs

LEMMA OrderedStands ==
    ASSUME NEW u, NEW w \in Seq(Events(u)), NEW e \in Events(u), NEW items, NEW next,
           Ordered(u, w, items), e.event \notin {"call_end", "result"}, Trail(u, next) = Trail(u, items)
    PROVE  Ordered(u, Append(w, e), next)
<1>1. Marks(u, Append(w, e)) = Marks(u, w)
  BY MarksMore
<1>2. Repeats(w) => Repeats(Append(w, e))
  BY RepeatsMore
<1>3. QED BY <1>1, <1>2 DEF Ordered, InOrder

LEMMA GoodOpening ==
    ASSUME NEW u \in Setups, NEW n, NEW w, NEW t, Good(u, n, w, t), NEW e \in Opening, e.id = n + 1
    PROVE  /\ Good(u, n + 1, Append(w, e), Add(t, e))
           /\ Add(t, e) = [t EXCEPT !.items = Append(@, Draft(e.id))]
           /\ \A id : DraftOf(Add(t, e).items, id) <=> DraftOf(t.items, id) \/ id = e.id
           /\ DraftLast(Add(t, e).items, e.id)
<1> DEFINE items == t.items
           d == Draft(e.id)
           next == Append(items, d)
           v == Append(w, e)
           s == [t EXCEPT !.items = next]
<1>1. /\ n \in Nat /\ w \in Seq(Events(u)) /\ t \in Trs(u) /\ items \in Seq(Items(u))
      /\ t.reasoning \in Seq(Thought(u)) /\ t.activities \in Seq(Activity(u))
  BY GoodTypes
<1>2. /\ ItemsGood(u, w, items) /\ ThoughtsGood(u, w, t.reasoning) /\ ActivitiesGood(w, t.activities)
      /\ OneType(t.activities) /\ ParentsGood(items, t.parents)
      /\ Ordered(u, w, items) /\ Named(u, n, items, t.activities)
  BY DEF Good
<1>3. e.event = "text_start" /\ e \in Events(u) /\ e.id \in Nat /\ e.id \notin 1 .. n /\ e.id \notin u.calls
  <2>1. e.event = "text_start" /\ e \in Events(u) /\ e.id \in Nat
    BY DEF Opening, Events
  <2>2. QED BY <1>1, <2>1, SetupIs
<1> HIDE DEF items
<1>4. ~DraftOf(items, e.id)
  BY <1>1, <1>2, <1>3, AmongType, ItemIs DEF DraftOf, Named
<1>5. Add(t, e) = s
  <2>1. DraftFor(items, e.id) = next
    BY <1>1, <1>3, <1>4, DraftForIs DEF Key
  <2>2. QED BY <1>1, <2>1, AddOpening DEF items
<1>6. d \in Drafts(u) /\ d.id = e.id /\ d.calls = <<>>
  BY <1>3, DraftIs DEF Key
<1>7. ItemsGood(u, v, next) /\ Drafted(u, items, next, d)
  BY <1>1, <1>2, <1>4, ItemsOpening
<1>8. v \in Seq(Events(u))
  BY <1>1, <1>3, WireMore
<1>9. ThoughtsGood(u, v, t.reasoning) /\ ActivitiesGood(v, t.activities)
  BY <1>1, <1>2, <1>3, ThoughtsStand, ActivitiesStand
<1>10. Ordered(u, v, next)
  <2>1. Trail(u, next) = Trail(u, items)
    BY <1>1, <1>6, TrailOpening
  <2>2. QED BY <1>1, <1>2, <1>3, <2>1, OrderedStands
<1> HIDE DEF d
<1>11. /\ \A id : DraftOf(next, id) <=> DraftOf(items, id) \/ id = e.id
       /\ DraftLast(next, e.id)
  BY <1>1, <1>6, <1>7, DraftedOf, LastAppended
<1>12. ParentsGood(next, t.parents)
  BY <1>1, <1>2, <1>7, ParentsDrafted
<1>13. Named(u, n + 1, next, t.activities) /\ n + 1 \in Nat
  <2>1. n <= n + 1 /\ n + 1 \in Nat /\ d.id \in 1 .. n + 1
    BY <1>1, <1>3, <1>6
  <2>2. QED BY <1>1, <1>2, <1>7, <2>1, NamedDrafted
<1>14. next \in Seq(Items(u))
  BY <1>7 DEF Drafted
<1> HIDE DEF next, v
<1>15. /\ s \in Trs(u) /\ s.items = next /\ s.reasoning = t.reasoning /\ s.activities = t.activities
       /\ s.parents = t.parents
  BY <1>1, <1>14 DEF Trs
<1> HIDE DEF s
<1>16. Good(u, n + 1, v, s)
  BY <1>2, <1>7, <1>8, <1>9, <1>10, <1>12, <1>13, <1>15 DEF Good
<1>17. s.items = next /\ s = [t EXCEPT !.items = Append(@, Draft(e.id))]
  BY <1>15 DEF s, next, items, d
<1>18. QED BY <1>5, <1>11, <1>16, <1>17 DEF v, items

LEMMA GoodSpeaking ==
    ASSUME NEW u \in Setups, NEW n, NEW w, NEW t, Good(u, n, w, t), NEW e \in Speaking(u),
           DraftOf(t.items, e.id)
    PROVE  /\ Good(u, n, Append(w, e), Add(t, e))
           /\ Add(t, e).pending = t.pending
           /\ \A id : DraftOf(Add(t, e).items, id) <=> DraftOf(t.items, id)
           /\ \A id : DraftLast(t.items, id) => DraftLast(Add(t, e).items, id)
<1> DEFINE items == t.items
           v == Append(w, e)
<1>1. /\ n \in Nat /\ w \in Seq(Events(u)) /\ t \in Trs(u) /\ items \in Seq(Items(u))
      /\ t.reasoning \in Seq(Thought(u)) /\ t.activities \in Seq(Activity(u))
  BY GoodTypes
<1>2. /\ ItemsGood(u, w, items) /\ ThoughtsGood(u, w, t.reasoning) /\ ActivitiesGood(w, t.activities)
      /\ OneType(t.activities) /\ ParentsGood(items, t.parents)
      /\ Ordered(u, w, items) /\ Named(u, n, items, t.activities)
  BY DEF Good
<1>3. e.event = "text" /\ e \in Events(u) /\ e.id \in Nat /\ e.id \in Key(u) /\ e.text \in Words(u)
  BY DEF Speaking, Events, Key
<1> HIDE DEF items
<1>4. PICK k \in DOMAIN items : IsDraft(items[k]) /\ items[k].id = e.id
  BY DEF DraftOf, ToSet, items
<1>5. items[k] \in Drafts(u) /\ items[k] \in ToSet(items)
  <2>1. items[k] \in ToSet(items)
    BY DEF ToSet
  <2>2. QED BY <1>1, <1>4, <2>1, AmongType, ItemIs
<1> DEFINE d == Told(items[k], e.text, <<>>)
           next == Replaced(items, k, d)
           s == [t EXCEPT !.items = next]
<1>6. /\ Extend(items, e.id, e.text, <<>>) = next
      /\ Drafted(u, items, next, d) /\ ItemsGood(u, v, next)
  BY <1>1, <1>2, <1>4, <1>5, ItemsSpeaking
<1>7. d \in Drafts(u) /\ d.id = e.id /\ d.calls = items[k].calls
  <2> DEFINE more == <<>>
  <2>1. items[k].calls \in Seq(u.calls) /\ more \in Seq(u.calls) /\ Cat(items[k].calls, more) = items[k].calls
    BY <1>5, CatNothing DEF Drafts
  <2> HIDE DEF more
  <2>2. /\ Told(items[k], e.text, more) \in Drafts(u) /\ Told(items[k], e.text, more).id = items[k].id
        /\ Told(items[k], e.text, more).calls = Cat(items[k].calls, more)
    BY <1>3, <1>5, <2>1, ToldIs
  <2>3. QED BY <1>4, <2>1, <2>2 DEF more
<1>8. Add(t, e) = s
  BY <1>1, <1>6, AddSpeaking DEF items
<1>9. ThoughtsGood(u, v, t.reasoning) /\ ActivitiesGood(v, t.activities) /\ v \in Seq(Events(u))
  BY <1>1, <1>2, <1>3, ThoughtsStand, ActivitiesStand, WireMore
<1> HIDE DEF d
<1>10. Ordered(u, v, next)
  <2>1. Trail(u, next) = Trail(u, items)
    BY <1>1, <1>5, <1>7, TrailSpeaking
  <2>2. QED BY <1>1, <1>2, <1>3, <2>1, OrderedStands
<1>11. \A id : DraftOf(next, id) <=> DraftOf(items, id)
  <2>1. DraftOf(items, e.id)
    BY DEF items
  <2>2. QED BY <1>1, <1>6, <1>7, <2>1, DraftedOf
<1>12. \A id : DraftLast(items, id) => DraftLast(next, id)
  BY <1>1, <1>4, <1>5, <1>7, LastReplaced
<1>13. ParentsGood(next, t.parents)
  BY <1>1, <1>2, <1>6, ParentsDrafted
<1>14. Named(u, n, next, t.activities)
  <2>1. d.id \in 1 .. n \/ d.id \in u.calls
    BY <1>2, <1>4, <1>5, <1>7 DEF Named
  <2>2. n <= n
    BY <1>1
  <2>3. QED BY <1>1, <1>2, <1>6, <2>1, <2>2, NamedDrafted
<1>15. next \in Seq(Items(u))
  BY <1>6 DEF Drafted
<1> HIDE DEF next, v
<1>16. /\ s \in Trs(u) /\ s.items = next /\ s.reasoning = t.reasoning /\ s.activities = t.activities
       /\ s.parents = t.parents /\ s.pending = t.pending
  BY <1>1, <1>15 DEF Trs
<1> HIDE DEF s
<1>17. Good(u, n, v, s)
  BY <1>1, <1>2, <1>6, <1>9, <1>10, <1>13, <1>14, <1>16 DEF Good
<1>18. QED BY <1>8, <1>11, <1>12, <1>16, <1>17 DEF v, items

LEMMA GoodStarting ==
    ASSUME NEW u \in Setups, NEW n, NEW w, NEW t, Good(u, n, w, t), NEW e \in Starting(u),
           e.parent = NoId \/ DraftOf(t.items, e.parent)
    PROVE  /\ Good(u, n, Append(w, e), Add(t, e))
           /\ Add(t, e).items = t.items
           /\ Add(t, e).pending =
                [c \in DOMAIN t.pending \union {e.call} |-> IF c = e.call THEN e.parent ELSE t.pending[c]]
<1> DEFINE items == t.items
           v == Append(w, e)
           of == [c \in DOMAIN t.pending \union {e.call} |-> IF c = e.call THEN e.parent ELSE t.pending[c]]
           p == <<e.call, e.parent>>
           parents == Append(t.parents, p)
           s == [t EXCEPT !.pending = of, !.parents = parents]
<1>1. /\ n \in Nat /\ w \in Seq(Events(u)) /\ t \in Trs(u) /\ items \in Seq(Items(u))
      /\ t.reasoning \in Seq(Thought(u)) /\ t.activities \in Seq(Activity(u))
      /\ t.parents \in Seq(Parents(u)) /\ t.pending \in Pending(u)
  BY GoodTypes
<1>2. /\ ItemsGood(u, w, items) /\ ThoughtsGood(u, w, t.reasoning) /\ ActivitiesGood(w, t.activities)
      /\ OneType(t.activities) /\ ParentsGood(items, t.parents)
      /\ Ordered(u, w, items) /\ Named(u, n, items, t.activities)
  BY DEF Good
<1>3. e.event = "call_start" /\ e \in Events(u) /\ e.call \in u.calls /\ e.parent \in Nat
  BY DEF Starting, Events
<1>4. Add(t, e) = s
  BY <1>1, AddStarting
<1>5. of \in Pending(u)
  <2>1. PICK D \in SUBSET u.calls : t.pending \in [D -> Nat]
    BY <1>1 DEF Pending
  <2>2. of \in [D \union {e.call} -> Nat] /\ D \union {e.call} \in SUBSET u.calls
    BY <1>3, <2>1
  <2>3. QED BY <2>2 DEF Pending
<1>6. p \in Parents(u) /\ p[2] = e.parent
  BY <1>3 DEF Parents
<1> HIDE DEF p
<1>7. parents \in Seq(Parents(u)) /\ ToSet(parents) = ToSet(t.parents) \union {p}
  BY <1>1, <1>6, AppendProperties, AmongMore
<1>8. ParentsGood(items, parents)
  BY <1>2, <1>6, <1>7 DEF ParentsGood
<1>9. /\ ItemsGood(u, v, items) /\ ThoughtsGood(u, v, t.reasoning) /\ ActivitiesGood(v, t.activities)
      /\ v \in Seq(Events(u))
  BY <1>1, <1>2, <1>3, ItemsStand, ThoughtsStand, ActivitiesStand, WireMore
<1>10. Ordered(u, v, items)
  BY <1>1, <1>2, <1>3, OrderedStands
<1> HIDE DEF of, parents, items, v
<1>11. /\ s \in Trs(u) /\ s.items = items /\ s.reasoning = t.reasoning /\ s.activities = t.activities
       /\ s.parents = parents /\ s.pending = of
  BY <1>1, <1>5, <1>7 DEF Trs, items
<1> HIDE DEF s
<1>12. Good(u, n, v, s)
  BY <1>1, <1>2, <1>8, <1>9, <1>10, <1>11 DEF Good
<1>13. QED BY <1>4, <1>11, <1>12 DEF v, items, of

LEMMA PendingLess ==
    ASSUME NEW u, NEW f \in Pending(u), NEW x
    PROVE  [c \in DOMAIN f \ {x} |-> f[c]] \in Pending(u)
<1>1. PICK D \in SUBSET u.calls : f \in [D -> Nat]
  BY DEF Pending
<1>2. [c \in DOMAIN f \ {x} |-> f[c]] \in [D \ {x} -> Nat] /\ D \ {x} \in SUBSET u.calls
  BY <1>1
<1>3. QED BY <1>2 DEF Pending

LEMMA EndingKeeps ==
    ASSUME NEW u \in Setups, NEW n, NEW w, NEW t, Good(u, n, w, t), NEW e \in Ending(u),
           NEW next, NEW d, Drafted(u, t.items, next, d), ItemsGood(u, Append(w, e), next),
           Ordered(u, Append(w, e), next), DraftOf(t.items, d.id) \/ d.id \in u.calls,
           Extend(t.items, IF t.pending[e.call] = NoId THEN e.call ELSE t.pending[e.call],
                  Nothing, <<e.call>>) = next
    PROVE  /\ Good(u, n, Append(w, e), Add(t, e))
           /\ Add(t, e).items = next
           /\ Add(t, e).pending = [c \in DOMAIN t.pending \ {e.call} |-> t.pending[c]]
           /\ \A id : DraftOf(next, id) <=> DraftOf(t.items, id) \/ id = d.id
<1> DEFINE items == t.items
           v == Append(w, e)
           of == [c \in DOMAIN t.pending \ {e.call} |-> t.pending[c]]
           s == [t EXCEPT !.items = next, !.pending = of]
<1>1. /\ n \in Nat /\ w \in Seq(Events(u)) /\ t \in Trs(u) /\ items \in Seq(Items(u))
      /\ t.reasoning \in Seq(Thought(u)) /\ t.activities \in Seq(Activity(u))
      /\ t.parents \in Seq(Parents(u)) /\ t.pending \in Pending(u)
  BY GoodTypes
<1>2. /\ ThoughtsGood(u, w, t.reasoning) /\ ActivitiesGood(w, t.activities)
      /\ OneType(t.activities) /\ ParentsGood(items, t.parents)
      /\ Named(u, n, items, t.activities)
  BY DEF Good
<1>3. e.event = "call_end" /\ e \in Events(u) /\ e.call \in u.calls
  BY DEF Ending, Events
<1>4. Add(t, e) = s
  <2> DEFINE made == Extend(t.items, IF t.pending[e.call] = NoId THEN e.call ELSE t.pending[e.call],
                            Nothing, <<e.call>>)
  <2>1. Add(t, e) = [t EXCEPT !.items = made, !.pending = of]
    BY <1>1, AddEnding
  <2>2. made = next
    OBVIOUS
  <2> HIDE DEF made, of
  <2>3. QED BY <2>1, <2>2
<1>5. of \in Pending(u)
  BY <1>1, PendingLess
<1>6. ThoughtsGood(u, v, t.reasoning) /\ ActivitiesGood(v, t.activities) /\ v \in Seq(Events(u))
  BY <1>1, <1>2, <1>3, ThoughtsStand, ActivitiesStand, WireMore
<1> HIDE DEF items
<1>7. Drafted(u, items, next, d)
  BY DEF items
<1>8. \A id : DraftOf(next, id) <=> DraftOf(items, id) \/ id = d.id
  BY <1>1, <1>7, DraftedOf
<1>9. ParentsGood(next, t.parents)
  BY <1>1, <1>2, <1>7, ParentsDrafted
<1>10. Named(u, n, next, t.activities)
  <2>1. d.id \in 1 .. n \/ d.id \in u.calls
    <3>1. CASE DraftOf(items, d.id)
      BY <1>1, <1>2, <3>1, AmongType, ItemIs DEF DraftOf, Named
    <3>2. QED BY <3>1 DEF items
  <2>2. n <= n
    BY <1>1
  <2>3. QED BY <1>1, <1>2, <1>7, <2>1, <2>2, NamedDrafted
<1>11. next \in Seq(Items(u))
  BY <1>7 DEF Drafted
<1>12. ItemsGood(u, v, next) /\ Ordered(u, v, next)
  OBVIOUS
<1> HIDE DEF v, of
<1>13. /\ s \in Trs(u) /\ s.items = next /\ s.reasoning = t.reasoning /\ s.activities = t.activities
       /\ s.parents = t.parents /\ s.pending = of
  BY <1>1, <1>5, <1>11 DEF Trs
<1> HIDE DEF s
<1>14. Good(u, n, v, s)
  BY <1>1, <1>2, <1>6, <1>9, <1>10, <1>12, <1>13 DEF Good
<1>15. QED BY <1>4, <1>8, <1>13, <1>14 DEF v, of, items

LEMMA GoodEndingLast ==
    ASSUME NEW u \in Setups, NEW n, NEW w, NEW t, Good(u, n, w, t), NEW e \in Ending(u),
           t.pending[e.call] # NoId, DraftLast(t.items, t.pending[e.call])
    PROVE  /\ Good(u, n, Append(w, e), Add(t, e))
           /\ Add(t, e).pending = [c \in DOMAIN t.pending \ {e.call} |-> t.pending[c]]
           /\ \A id : DraftOf(Add(t, e).items, id) <=> DraftOf(t.items, id)
           /\ \A id : DraftLast(t.items, id) => DraftLast(Add(t, e).items, id)
<1> DEFINE items == t.items
           v == Append(w, e)
           k == Len(items)
           more == <<e.call>>
           d == Told(items[k], <<>>, more)
           next == Replaced(items, k, d)
<1>1. w \in Seq(Events(u)) /\ items \in Seq(Items(u))
  BY GoodTypes
<1>2. ItemsGood(u, w, items) /\ Ordered(u, w, items)
  BY DEF Good
<1>3. e.event = "call_end" /\ e \in Events(u) /\ e.call \in u.calls
  BY DEF Ending, Events
<1> HIDE DEF items
<1>4. items # <<>> /\ IsDraft(items[k]) /\ items[k].id = t.pending[e.call]
  BY DEF DraftLast, items
<1>5. k \in DOMAIN items /\ items[k] \in ToSet(items)
  BY <1>1, <1>4, LenProperties, EmptySeq DEF ToSet
<1>6. items[k] \in Drafts(u)
  BY <1>1, <1>4, <1>5, AmongType, ItemIs
<1> HIDE DEF k
<1>7. /\ Extend(items, items[k].id, Nothing, more) = next
      /\ Drafted(u, items, next, d) /\ ItemsGood(u, v, next)
  BY <1>1, <1>2, <1>5, <1>6, ItemsEndingOld
<1>8. d \in Drafts(u) /\ d.id = items[k].id /\ d.calls = Cat(items[k].calls, more)
  <2>1. more \in Seq(u.calls) /\ <<>> \in Words(u)
    BY <1>3, AloneIs, EmptySeq DEF Words
  <2> HIDE DEF more
  <2>2. QED BY <1>6, <2>1, ToldIs
<1> HIDE DEF d
<1>9. Ordered(u, v, next)
  <2>1. Trail(u, next) = Cat(Trail(u, items), <<<<"call", e.call>>>>)
    BY <1>1, <1>3, <1>4, <1>6, <1>8, TrailEnding DEF k
  <2>2. Marks(u, v) = Cat(Marks(u, w), <<<<"call", e.call>>>>)
    BY <1>1, <1>3, MarksMore
  <2>3. Repeats(w) => Repeats(v)
    BY <1>1, <1>3, RepeatsMore
  <2> HIDE DEF v, next
  <2>4. QED BY <1>2, <2>1, <2>2, <2>3 DEF Ordered, InOrder
<1>10. \A id : DraftLast(items, id) => DraftLast(next, id)
  BY <1>1, <1>5, <1>6, <1>8, LastReplaced
<1>11. DraftOf(items, d.id)
  BY <1>4, <1>5, <1>8 DEF DraftOf
<1> HIDE DEF next
<1>12. /\ Good(u, n, v, Add(t, e)) /\ Add(t, e).items = next
       /\ Add(t, e).pending = [c \in DOMAIN t.pending \ {e.call} |-> t.pending[c]]
       /\ \A id : DraftOf(next, id) <=> DraftOf(items, id) \/ id = d.id
  <2> DEFINE to == IF t.pending[e.call] = NoId THEN e.call ELSE t.pending[e.call]
  <2>1. to = items[k].id
    BY <1>4
  <2> HIDE DEF to
  <2>2. Extend(t.items, to, Nothing, <<e.call>>) = next
    BY <1>7, <2>1 DEF items, more
  <2>3. Extend(t.items, IF t.pending[e.call] = NoId THEN e.call ELSE t.pending[e.call],
               Nothing, <<e.call>>) = next
    BY <2>2 DEF to
  <2>4. QED BY <1>7, <1>9, <1>11, <2>3, EndingKeeps DEF items
<1>13. QED BY <1>10, <1>11, <1>12 DEF v, items

LEMMA GoodEndingAlone ==
    ASSUME NEW u \in Setups, NEW n, NEW w, NEW t, Good(u, n, w, t), NEW e \in Ending(u),
           t.pending[e.call] = NoId, DraftOf(t.items, e.call) => u.parentless /\ Repeats(w)
    PROVE  /\ Good(u, n, Append(w, e), Add(t, e))
           /\ Add(t, e).pending = [c \in DOMAIN t.pending \ {e.call} |-> t.pending[c]]
           /\ \A id : DraftOf(Add(t, e).items, id) <=> DraftOf(t.items, id) \/ id = e.call
<1> DEFINE items == t.items
           v == Append(w, e)
           more == <<e.call>>
<1>1. w \in Seq(Events(u)) /\ items \in Seq(Items(u))
  BY GoodTypes
<1>2. ItemsGood(u, w, items) /\ Ordered(u, w, items)
  BY DEF Good
<1>3. e.event = "call_end" /\ e \in Events(u) /\ e.call \in u.calls
  BY DEF Ending, Events
<1>4. Repeats(w) => Repeats(v)
  BY <1>1, <1>3, RepeatsMore
<1> HIDE DEF items
<1>5. CASE ~DraftOf(items, e.call)
  <2> DEFINE d == Told(Draft(e.call), <<>>, more)
             next == Append(items, d)
  <2>1. /\ Extend(items, e.call, Nothing, more) = next
        /\ Drafted(u, items, next, d) /\ ItemsGood(u, v, next)
        /\ d.calls = more /\ d.id = e.call
    BY <1>1, <1>2, <1>5, ItemsEndingNew
  <2> HIDE DEF d
  <2>2. d \in Drafts(u) /\ d \in Items(u) /\ IsDraft(d)
    BY <2>1 DEF Drafted, Items, Drafts, IsDraft
  <2>3. Ordered(u, v, next)
    <3>1. Trail(u, next) = Cat(Trail(u, items), <<<<"call", e.call>>>>)
      <4>1. Trail(u, next) = Cat(Trail(u, items), Mapped(d.calls, CallMark(u)))
        BY <1>1, <2>2, TrailMore
      <4>2. Mapped(more, CallMark(u)) = <<<<"call", e.call>>>>
        BY <1>3, MappedOne DEF CallMark
      <4>3. QED BY <2>1, <4>1, <4>2
    <3>2. Marks(u, v) = Cat(Marks(u, w), <<<<"call", e.call>>>>)
      BY <1>1, <1>3, MarksMore
    <3> HIDE DEF v, next
    <3>3. QED BY <1>2, <1>4, <3>1, <3>2 DEF Ordered, InOrder
  <2> HIDE DEF next
  <2>4. /\ Good(u, n, v, Add(t, e)) /\ Add(t, e).items = next
        /\ Add(t, e).pending = [c \in DOMAIN t.pending \ {e.call} |-> t.pending[c]]
        /\ \A id : DraftOf(next, id) <=> DraftOf(items, id) \/ id = d.id
    BY <1>3, <2>1, <2>3, EndingKeeps DEF items, more
  <2>5. QED BY <2>1, <2>4 DEF v, items
<1>6. CASE DraftOf(items, e.call)
  <2>1. PICK k \in DOMAIN items : IsDraft(items[k]) /\ items[k].id = e.call
    BY <1>6 DEF DraftOf, ToSet
  <2>2. items[k] \in Drafts(u)
    <3>1. items[k] \in ToSet(items)
      BY DEF ToSet
    <3>2. QED BY <1>1, <2>1, <3>1, AmongType, ItemIs
  <2> DEFINE d == Told(items[k], <<>>, more)
             next == Replaced(items, k, d)
  <2>3. /\ Extend(items, items[k].id, Nothing, more) = next
        /\ Drafted(u, items, next, d) /\ ItemsGood(u, v, next)
    BY <1>1, <1>2, <2>2, ItemsEndingOld
  <2>4. d.id = e.call
    <3>1. more \in Seq(u.calls) /\ <<>> \in Words(u)
      BY <1>3, AloneIs, EmptySeq DEF Words
    <3> HIDE DEF more
    <3>2. QED BY <2>1, <2>2, <3>1, ToldIs
  <2> HIDE DEF d, next
  <2>5. Ordered(u, v, next)
    BY <1>4, <1>6 DEF Ordered, items
  <2>6. /\ Good(u, n, v, Add(t, e)) /\ Add(t, e).items = next
        /\ Add(t, e).pending = [c \in DOMAIN t.pending \ {e.call} |-> t.pending[c]]
        /\ \A id : DraftOf(next, id) <=> DraftOf(items, id) \/ id = d.id
    BY <1>3, <2>1, <2>3, <2>4, <2>5, EndingKeeps DEF items, more
  <2>7. QED BY <2>4, <2>6 DEF v, items
<1>7. QED BY <1>5, <1>6 DEF items

LEMMA GoodResulting ==
    ASSUME NEW u \in Setups, NEW n, NEW w, NEW t, Good(u, n, w, t), NEW e \in Resulting(u)
    PROVE  /\ Good(u, n, Append(w, e), Add(t, e))
           /\ Add(t, e).pending = t.pending
           /\ \A id : DraftOf(Add(t, e).items, id) <=> DraftOf(t.items, id)
<1> DEFINE items == t.items
           v == Append(w, e)
           x == [kind |-> "tool", id |-> e.id, call |-> e.call, outcome |-> e.outcome]
           next == Append(items, x)
           s == [t EXCEPT !.items = next]
<1>1. /\ n \in Nat /\ w \in Seq(Events(u)) /\ t \in Trs(u) /\ items \in Seq(Items(u))
      /\ t.reasoning \in Seq(Thought(u)) /\ t.activities \in Seq(Activity(u))
  BY GoodTypes
<1>2. /\ ItemsGood(u, w, items) /\ ThoughtsGood(u, w, t.reasoning) /\ ActivitiesGood(w, t.activities)
      /\ OneType(t.activities) /\ ParentsGood(items, t.parents)
      /\ Ordered(u, w, items) /\ Named(u, n, items, t.activities)
  BY DEF Good
<1>3. e.event = "result" /\ e \in Events(u)
  BY DEF Resulting, Events
<1>4. Add(t, e) = s
  BY <1>1, AddResulting
<1> HIDE DEF items
<1>5. x \in Tools(u) /\ ItemsGood(u, v, next)
  BY <1>1, <1>2, ItemsResulting
<1>6. x \in Items(u) /\ x \notin Drafts(u) /\ ~IsDraft(x) /\ x.call = e.call
  BY <1>5 DEF Tools, Items, Drafts, IsDraft
<1> HIDE DEF x
<1>7. ThoughtsGood(u, v, t.reasoning) /\ ActivitiesGood(v, t.activities) /\ v \in Seq(Events(u))
  BY <1>1, <1>2, <1>3, ThoughtsStand, ActivitiesStand, WireMore
<1>8. Ordered(u, v, next)
  <2>1. Trail(u, next) = Cat(Trail(u, items), <<<<"result", e.call>>>>)
    BY <1>1, <1>6, TrailMore
  <2>2. Marks(u, v) = Cat(Marks(u, w), <<<<"result", e.call>>>>)
    BY <1>1, <1>3, MarksMore
  <2>3. Repeats(w) => Repeats(v)
    BY <1>1, <1>3, RepeatsMore
  <2> HIDE DEF v, next
  <2>4. QED BY <1>2, <2>1, <2>2, <2>3 DEF Ordered, InOrder
<1>9. next \in Seq(Items(u)) /\ ToSet(next) = ToSet(items) \union {x}
  BY <1>1, <1>6, AppendProperties, AmongMore
<1> HIDE DEF next
<1>10. \A id : DraftOf(next, id) <=> DraftOf(items, id)
  BY <1>6, <1>9 DEF DraftOf
<1>11. ParentsGood(next, t.parents)
  BY <1>2, <1>10 DEF ParentsGood
<1>12. Named(u, n, next, t.activities)
  BY <1>2, <1>6, <1>9 DEF Named
<1> HIDE DEF v
<1>13. /\ s \in Trs(u) /\ s.items = next /\ s.reasoning = t.reasoning /\ s.activities = t.activities
       /\ s.parents = t.parents /\ s.pending = t.pending
  BY <1>1, <1>9 DEF Trs
<1> HIDE DEF s
<1>14. Good(u, n, v, s)
  BY <1>1, <1>2, <1>5, <1>7, <1>8, <1>11, <1>12, <1>13 DEF Good
<1>15. QED BY <1>4, <1>10, <1>13, <1>14 DEF v, items

LEMMA GoodReasoning ==
    ASSUME NEW u \in Setups, NEW n, NEW w, NEW t, Good(u, n, w, t), NEW e,
           e \in Reasoning \/ (e \in Thinking(u) /\ \E x \in ToSet(t.reasoning) : x.id = e.id)
    PROVE  /\ Good(u, n, Append(w, e), Add(t, e))
           /\ Add(t, e).pending = t.pending /\ Add(t, e).items = t.items
           /\ e \in Reasoning => \E x \in ToSet(Add(t, e).reasoning) : x.id = e.id
<1> DEFINE items == t.items
           v == Append(w, e)
           rows == t.reasoning
<1>1. /\ n \in Nat /\ w \in Seq(Events(u)) /\ t \in Trs(u) /\ items \in Seq(Items(u))
      /\ rows \in Seq(Thought(u)) /\ t.activities \in Seq(Activity(u))
  BY GoodTypes
<1>2. /\ ItemsGood(u, w, items) /\ ThoughtsGood(u, w, rows) /\ ActivitiesGood(w, t.activities)
      /\ OneType(t.activities) /\ ParentsGood(items, t.parents)
      /\ Ordered(u, w, items) /\ Named(u, n, items, t.activities)
  BY DEF Good
<1>3. e.event \in {"reasoning_start", "reasoning"} /\ e \in Events(u)
  BY DEF Reasoning, Thinking, Events
<1> HIDE DEF items, rows
<1>4. \E next \in Seq(Thought(u)) :
         /\ ThoughtsGood(u, v, next) /\ Add(t, e) = [t EXCEPT !.reasoning = next]
         /\ e \in Reasoning => \E x \in ToSet(next) : x.id = e.id
  <2>1. CASE e \in Reasoning
    <3> DEFINE act == [id |-> e.id, text |-> Nothing]
               next == SetDefault(rows, act)
    <3>1. next \in Seq(Thought(u)) /\ ThoughtsGood(u, v, next)
      BY <1>1, <1>2, <2>1, ThoughtsBegin
    <3>2. Add(t, e) = [t EXCEPT !.reasoning = next]
      BY <1>1, <2>1, AddReasoning DEF rows
    <3>3. \E x \in ToSet(next) : x.id = e.id
      <4>1. e.id \in Nat
        BY <2>1 DEF Reasoning
      <4>2. act \in Thought(u) /\ act.id = e.id
        BY <4>1, EmptySeq DEF Thought, Words, Nothing
      <4> HIDE DEF act
      <4>3. next = IF \E x \in ToSet(rows) : x.id = act.id THEN rows ELSE Append(rows, act)
        BY <1>1, SetDefaultIs
      <4>4. ToSet(Append(rows, act)) = ToSet(rows) \union {act}
        BY <1>1, <4>2, AmongMore
      <4> DEFINE more == Append(rows, act)
      <4> HIDE DEF next, more
      <4>5. next = (IF \E x \in ToSet(rows) : x.id = act.id THEN rows ELSE more) /\ act \in ToSet(more)
        BY <4>3, <4>4 DEF more
      <4>6. QED BY <4>2, <4>5
    <3> HIDE DEF next
    <3>4. QED BY <3>1, <3>2, <3>3
  <2>2. CASE e \in Thinking(u) /\ \E x \in ToSet(rows) : x.id = e.id
    <3> DEFINE next == GoneOn(rows, e)
    <3>1. next \in Seq(Thought(u)) /\ ThoughtsGood(u, v, next)
      BY <1>1, <1>2, <2>2, ThoughtsGoOn
    <3>2. Add(t, e) = [t EXCEPT !.reasoning = next]
      BY <1>1, <2>2, AddThinking DEF rows
    <3>3. e \notin Reasoning
      BY <2>2 DEF Thinking, Reasoning
    <3> HIDE DEF next
    <3>4. QED BY <3>1, <3>2, <3>3
  <2>3. QED BY <2>1, <2>2 DEF rows
<1>5. PICK next \in Seq(Thought(u)) :
         /\ ThoughtsGood(u, v, next) /\ Add(t, e) = [t EXCEPT !.reasoning = next]
         /\ e \in Reasoning => \E x \in ToSet(next) : x.id = e.id
  BY <1>4
<1>6. /\ ItemsGood(u, v, items) /\ ActivitiesGood(v, t.activities) /\ v \in Seq(Events(u))
  BY <1>1, <1>2, <1>3, ItemsStand, ActivitiesStand, WireMore
<1>7. Ordered(u, v, items)
  BY <1>1, <1>2, <1>3, OrderedStands
<1> DEFINE s == [t EXCEPT !.reasoning = next]
<1> HIDE DEF v
<1>8. /\ s \in Trs(u) /\ s.items = items /\ s.reasoning = next /\ s.activities = t.activities
      /\ s.parents = t.parents /\ s.pending = t.pending
  BY <1>1 DEF Trs, items
<1> HIDE DEF s
<1>9. Good(u, n, v, s)
  BY <1>1, <1>2, <1>5, <1>6, <1>7, <1>8 DEF Good
<1>10. Add(t, e) = s
  BY <1>5 DEF s
<1>11. QED BY <1>5, <1>8, <1>9, <1>10 DEF v, items

LEMMA SnapshotNames ==
    ASSUME NEW u, NEW e, NEW rows \in Seq(Activity(u))
    PROVE  \A y \in ToSet(Snapshot(rows, e)) :
              \/ y.id = e.id /\ y.type = e.type
              \/ \E x \in ToSet(rows) : x.id = y.id /\ x.type = y.type
<1> DEFINE act == [id |-> e.id, type |-> e.type, content |-> e.content]
           known == SetDefault(rows, act)
           next == Snapshot(rows, e)
<1>1. act.id = e.id /\ act.type = e.type
  OBVIOUS
<1>2. next = [i \in DOMAIN known |-> IF known[i].id = e.id /\ e.replace
                                     THEN [known[i] EXCEPT !.content = e.content] ELSE known[i]]
  BY DEF Snapshot
<1> HIDE DEF act
<1>3. known = IF \E x \in ToSet(rows) : x.id = act.id THEN rows ELSE Append(rows, act)
  BY SetDefaultIs
<1>4. \A x \in ToSet(known) : x \in ToSet(rows) \/ x = act
  <2> DEFINE more == Append(rows, act)
  <2>1. \A x \in ToSet(more) : x \in ToSet(rows) \/ x = act
    <3>1. /\ DOMAIN more = 1 .. Len(rows) + 1 /\ more[Len(rows) + 1] = act
          /\ \A i \in 1 .. Len(rows) : more[i] = rows[i]
          /\ DOMAIN rows = 1 .. Len(rows) /\ Len(rows) \in Nat
      <4>1. rows \in Seq(Activity(u) \union {act}) /\ act \in Activity(u) \union {act}
        BY SeqDef, LenProperties
      <4>2. QED BY <4>1, AppendProperties, LenProperties
    <3> HIDE DEF more
    <3>2. \A i \in 1 .. Len(rows) + 1 : i = Len(rows) + 1 \/ i \in 1 .. Len(rows)
      BY <3>1
    <3>3. QED BY <3>1, <3>2 DEF ToSet
  <2> HIDE DEF more, known
  <2>2. known = rows \/ known = more
    BY <1>3 DEF more
  <2>3. QED BY <2>1, <2>2
<1> HIDE DEF known, next
<1>5. SUFFICES ASSUME NEW y \in ToSet(next)
               PROVE  \/ y.id = e.id /\ y.type = e.type
                      \/ \E x \in ToSet(rows) : x.id = y.id /\ x.type = y.type
  BY DEF next
<1>6. PICK i \in DOMAIN known : y = next[i]
  BY <1>2 DEF ToSet
<1> DEFINE x == known[i]
<1>7. x \in ToSet(known)
  BY DEF ToSet
<1>8. \/ y = x
      \/ y = [x EXCEPT !.content = e.content]
  BY <1>2, <1>6
<1>9. x \in ToSet(rows) \/ x = act
  BY <1>4, <1>7
<1> HIDE DEF x
<1>10. CASE y = x
  BY <1>1, <1>9, <1>10
<1>11. CASE y = [x EXCEPT !.content = e.content]
  <2>1. y.id = x.id /\ y.type = x.type
    BY <1>11
  <2>2. QED BY <1>1, <1>9, <2>1
<1>12. QED BY <1>8, <1>10, <1>11

LEMMA GoodSnapping ==
    ASSUME NEW u \in Setups, NEW n, NEW w, NEW t, Good(u, n, w, t), NEW e \in Snapping(u) \union Changing(u),
           e.id \in 1 .. n, \A x \in ToSet(t.activities) : x.id = e.id => x.type = e.type
    PROVE  /\ Good(u, n, Append(w, e), Add(t, e))
           /\ Add(t, e).pending = t.pending /\ Add(t, e).items = t.items
<1> DEFINE items == t.items
           v == Append(w, e)
           rows == t.activities
           next == Snapshot(rows, e)
           s == [t EXCEPT !.activities = next]
<1>1. /\ n \in Nat /\ w \in Seq(Events(u)) /\ t \in Trs(u) /\ items \in Seq(Items(u))
      /\ t.reasoning \in Seq(Thought(u)) /\ rows \in Seq(Activity(u))
  BY GoodTypes
<1>2. /\ ItemsGood(u, w, items) /\ ThoughtsGood(u, w, t.reasoning) /\ ActivitiesGood(w, rows)
      /\ OneType(rows) /\ ParentsGood(items, t.parents)
      /\ Ordered(u, w, items) /\ Named(u, n, items, rows)
  BY DEF Good
<1>3. e.event \in {"snapshot", "delta"} /\ e \in Events(u)
  BY DEF Snapping, Changing, Events
<1>4. Add(t, e) = s
  <2>1. CASE e \in Snapping(u)
    BY <1>1, <2>1, AddSnapping
  <2>2. CASE e \in Changing(u)
    <3>1. Add(t, e) = [t EXCEPT !.activities = Delta(@, e)]
      BY <1>1, <2>2, AddChanging
    <3>2. Delta(rows, e) = next
      BY <2>2, DeltaIs
    <3>3. QED BY <3>1, <3>2
  <2>3. QED BY <2>1, <2>2
<1>5. next \in Seq(Activity(u)) /\ ActivitiesGood(v, next)
  BY <1>1, <1>2, SnapshotIs
<1>6. \A y \in ToSet(next) :
              \/ y.id = e.id /\ y.type = e.type
              \/ \E x \in ToSet(rows) : x.id = y.id /\ x.type = y.type
  BY <1>1, SnapshotNames
<1>7. /\ ItemsGood(u, v, items) /\ ThoughtsGood(u, v, t.reasoning) /\ v \in Seq(Events(u))
  BY <1>1, <1>2, <1>3, ItemsStand, ThoughtsStand, WireMore
<1>8. Ordered(u, v, items)
  BY <1>1, <1>2, <1>3, OrderedStands
<1>9. \A x \in ToSet(rows) : x.id = e.id => x.type = e.type
  OBVIOUS
<1> HIDE DEF v, next, items, rows
<1>10. OneType(next)
  <2> SUFFICES ASSUME NEW x \in ToSet(next), NEW y \in ToSet(next), x.id = y.id PROVE x.type = y.type
    BY DEF OneType
  <2>1. CASE \E z \in ToSet(rows) : z.id = x.id /\ z.type = x.type
    <3>1. PICK z \in ToSet(rows) : z.id = x.id /\ z.type = x.type
      BY <2>1
    <3>2. \/ y.id = e.id /\ y.type = e.type
          \/ \E a1 \in ToSet(rows) : a1.id = y.id /\ a1.type = y.type
      BY <1>6
    <3>3. QED BY <1>2, <1>9, <3>1, <3>2 DEF OneType
  <2>2. CASE x.id = e.id /\ x.type = e.type
    <3>1. \/ y.id = e.id /\ y.type = e.type
          \/ \E a1 \in ToSet(rows) : a1.id = y.id /\ a1.type = y.type
      BY <1>6
    <3>2. QED BY <1>9, <2>2, <3>1
  <2>3. QED BY <1>6, <2>1, <2>2
<1>11. Named(u, n, items, next)
  <2>1. \A y \in ToSet(next) : y.id \in 1 .. n
    <3> SUFFICES ASSUME NEW y \in ToSet(next) PROVE y.id \in 1 .. n
      OBVIOUS
    <3>1. \/ y.id = e.id
          \/ \E x \in ToSet(rows) : x.id = y.id
      BY <1>6
    <3>2. \A x \in ToSet(rows) : x.id \in 1 .. n
      BY <1>2 DEF Named
    <3>3. QED BY <3>1, <3>2
  <2>2. QED BY <1>2, <2>1 DEF Named
<1>12. /\ s \in Trs(u) /\ s.items = items /\ s.reasoning = t.reasoning /\ s.activities = next
       /\ s.parents = t.parents /\ s.pending = t.pending
  BY <1>1, <1>5 DEF Trs, items
<1> HIDE DEF s
<1>13. Good(u, n, v, s)
  BY <1>1, <1>2, <1>5, <1>7, <1>8, <1>10, <1>11, <1>12 DEF Good
<1>14. QED BY <1>4, <1>12, <1>13 DEF v, items

(* Numbers may be left out.                                                *)
LEMMA GoodGrows ==
    ASSUME NEW u, NEW n, NEW w, NEW t, Good(u, n, w, t), NEW m \in Nat, n <= m
    PROVE  Good(u, m, w, t)
<1>1. n \in Nat
  BY DEF Good
<1>2. Named(u, m, t.items, t.activities)
  BY <1>1, NamedMore DEF Good
<1>3. QED BY <1>2 DEF Good

LEMMA GoodEmpty ==
    ASSUME NEW u
    PROVE  Good(u, 0, <<>>, Empty) /\ Empty.pending = <<>> /\ \A id : ~DraftOf(Empty.items, id)
<1> DEFINE none == <<>>
<1>1. \A S : none \in Seq(S)
  BY EmptySeq
<1>2. ToSet(none) = {} /\ Len(none) = 0 /\ DOMAIN none = {}
  BY AmongNone, EmptySeq
<1>3. none \in Pending(u)
  <2>1. none \in [{} -> Nat]
    OBVIOUS
  <2>2. QED BY <2>1 DEF Pending
<1>4. none = <<>>
  OBVIOUS
<1>5. CallsHeld(u, none) = none /\ CallsMade(u, none) = none /\ InOrder(u, none, none)
  <2>1. \A g : Spread(none, g) = none
    BY SpreadNone
  <2>2. QED BY <2>1 DEF CallsHeld, CallsMade, InOrder, Trail, Marks
<1> HIDE DEF none
<1>6. ItemsGood(u, none, none)
  BY <1>2, <1>5 DEF ItemsGood, Apart, DraftsSay, TextsHeard, DraftsOpened, ResultsCame, CallsCounted
<1>7. ThoughtsGood(u, none, none)
  BY <1>2 DEF ThoughtsGood, ThoughtsSay, ThoughtsHeard
<1>8. ActivitiesGood(none, none)
  BY <1>2 DEF ActivitiesGood, ActivitiesHold, ActivitiesSeen
<1>9. OneType(none) /\ ParentsGood(none, none) /\ Ordered(u, none, none) /\ Named(u, 0, none, none)
  BY <1>2, <1>5 DEF OneType, ParentsGood, Ordered, Named
<1>10. /\ Empty \in Trs(u) /\ Empty.items = none /\ Empty.reasoning = none /\ Empty.activities = none
       /\ Empty.parents = none /\ Empty.pending = none
  BY <1>1, <1>3, <1>4 DEF Empty, Trs
<1>11. \A id : ~DraftOf(none, id)
  BY <1>2 DEF DraftOf
<1>12. Good(u, 0, none, Empty)
  BY <1>1, <1>6, <1>7, <1>8, <1>9, <1>10 DEF Good
<1>13. QED BY <1>4, <1>10, <1>11, <1>12

-----------------------------------------------------------------------------
(* The run, and what it has to do with its transcript: the call it streams *)
(* is the one that is pending, under the draft the response's text has,    *)
(* which is the last; a draft a call has to itself had that call start.    *)

Rs(u) == [last : {"none", "text", "file", "thinking", "call"}, text : Nat, open : BOOLEAN,
          said : Words(u), calls : Seq(u.calls), from : SUBSET Nat]

Went(u) == [id : Nat, went : u.outcomes, parts : u.files]
Gots(u) == {f \in UNION {[D -> Went(u)] : D \in SUBSET u.calls} : TRUE}

Runs(u) == [phase : {"respond", "tools", "done"}, r : Rs(u), calling : u.calls \union {NoId},
            asked : Seq(u.calls), waiting : SUBSET u.calls, got : Gots(u), ids : Nat,
            parts : 0 .. u.maxParts, plain : BOOLEAN]

Called(w, c) == \E e \in ToSet(w) : e.event = "call_start" /\ e.call = c

CallPends(u, w, q, t) ==
    IF q.calling = NoId THEN DOMAIN t.pending = {}
    ELSE /\ q.phase = "respond" /\ DOMAIN t.pending = {q.calling} /\ t.pending[q.calling] = q.r.text
         /\ Called(w, q.calling)
         /\ q.r.text = NoId => u.parentless /\ (DraftOf(t.items, q.calling) => Repeats(w))

TextIsLast(q, t) ==
    IF q.phase = "respond" THEN /\ q.r.text # NoId => DraftLast(t.items, q.r.text)
                                /\ q.r.last = "text" => q.r.text # NoId
                           ELSE q.r = Response

AllCalled(u, w, t) == \A c \in u.calls : DraftOf(t.items, c) => Called(w, c)

AllAsked(q) ==
    /\ q.waiting \subseteq ToSet(q.asked)
    /\ q.phase = "respond" => q.waiting = ToSet(q.asked)
    /\ q.phase = "tools" => ToSet(q.asked) \ q.waiting \subseteq DOMAIN q.got

Fits(u, w, q, t) ==
    q \in Runs(u) /\ CallPends(u, w, q, t) /\ TextIsLast(q, t) /\ AllCalled(u, w, t) /\ AllAsked(q)

Answering(u) == [kind : {"assistant"}, text : Words(u), calls : Seq(u.calls), of : SUBSET Nat]
Pondering(u) == [kind : {"reasoning"}, text : Words(u), of : SUBSET Nat]
Acting(u) == [kind : {"activity"}, type : Kinds(u), content : u.contents, of : SUBSET Nat]
Telling(u) == [kind : {"tool"}, call : u.calls, of : SUBSET Nat, went : u.outcomes]
Handing(u) == [kind : {"user"}, parts : SUBSET UNION u.files]
Msgs(u) == UNION {Answering(u), Pondering(u), Acting(u), Telling(u), Handing(u)}

Inv ==
    /\ setup \in Setups
    /\ Good(setup, run.ids, wire, tr)
    /\ Fits(setup, wire, run, tr)
    /\ dumped \in Seq(Msgs(setup))

LEMMA PairIs ==
    ASSUME NEW e, NEW f
    PROVE  <<e, f>> = <<e>> \o <<f>>
<1> DEFINE S == {e, f}
           one == <<e>>
           p == Append(one, f)
           q == <<e, f>>
<1>1. one \in Seq(S) /\ Len(one) = 1 /\ one[1] = e /\ f \in S
  OBVIOUS
<1>2. q \in Seq(S) /\ Len(q) = 2 /\ q[1] = e /\ q[2] = f
  OBVIOUS
<1>3. p = one \o <<f>>
  <2> HIDE DEF one, S
  <2>1. QED BY <1>1, AppendIsConcat
<1>4. p \in Seq(S) /\ Len(p) = 2 /\ p[1] = e /\ p[2] = f
  <2> HIDE DEF one, S
  <2>1. /\ p \in Seq(S) /\ Len(p) = Len(one) + 1 /\ p[Len(one) + 1] = f
        /\ \A i \in 1 .. Len(one) : p[i] = one[i]
    <3>1. one \in Seq(S) /\ f \in S
      BY <1>1
    <3>2. QED BY <3>1, AppendProperties
  <2> HIDE DEF p
  <2>2. 1 \in 1 .. Len(one)
    BY <1>1
  <2>3. QED BY <1>1, <2>1, <2>2
<1> HIDE DEF p, q, S
<1>5. p = q
  <2>1. \A i \in 1 .. 2 : p[i] = q[i]
    <3>1. \A i \in 1 .. 2 : i = 1 \/ i = 2
      OBVIOUS
    <3>2. QED BY <1>2, <1>4, <3>1
  <2>2. QED BY <1>2, <1>4, <2>1, SeqEqual
<1>6. QED BY <1>3, <1>5 DEF q, one

LEMMA EmitsNone ==
    ASSUME NEW S, wire \in Seq(S), Emit(<<>>)
    PROVE  wire' = wire /\ tr' = tr
<1>1. wire \o <<>> = wire
  BY ConcatEmptySeq
<1>2. Len(<<>>) = 0
  BY EmptySeq
<1>3. QED BY <1>1, <1>2 DEF Emit

LEMMA EmitsOne ==
    ASSUME NEW S, wire \in Seq(S), NEW e \in S, Emit(<<e>>)
    PROVE  wire' = Append(wire, e) /\ tr' = Add(tr, e)
<1>1. wire \o <<e>> = Append(wire, e)
  BY AppendIsConcat
<1>2. Len(<<e>>) = 1 /\ <<e>>[1] = e
  OBVIOUS
<1> DEFINE es == <<e>>
<1> HIDE DEF es
<1>3. Len(es) = 1 /\ es[1] = e /\ Emit(es)
  BY <1>2 DEF es
<1>4. tr' = Add(tr, e)
  BY <1>3 DEF Emit
<1>5. QED BY <1>1, <1>4 DEF Emit

LEMMA EmitsTwo ==
    ASSUME NEW S, wire \in Seq(S), NEW e \in S, NEW f \in S, Emit(<<e, f>>)
    PROVE  wire' = Append(Append(wire, e), f) /\ tr' = Add(Add(tr, e), f)
<1>1. wire \o <<e, f>> = Append(Append(wire, e), f)
  <2> DEFINE es == <<e>>
             fs == <<f>>
  <2>0. <<e, f>> = es \o fs
    BY PairIs
  <2>1. <<e, f>> = es \o fs /\ es \in Seq(S) /\ fs \in Seq(S)
    BY <2>0, AloneIs
  <2>2. Append(wire, e) = wire \o es /\ Append(wire, e) \in Seq(S)
    BY AppendIsConcat, AppendProperties
  <2>3. Append(Append(wire, e), f) = Append(wire, e) \o fs
    BY <2>2, AppendIsConcat
  <2> HIDE DEF es, fs
  <2>4. (wire \o es) \o fs = wire \o (es \o fs)
    BY <2>1, ConcatAssociative
  <2>5. QED BY <2>1, <2>2, <2>3, <2>4
<1>2. Len(<<e, f>>) = 2 /\ <<e, f>>[1] = e /\ <<e, f>>[2] = f
  OBVIOUS
<1> DEFINE es == <<e, f>>
<1> HIDE DEF es
<1>3. Len(es) = 2 /\ es[1] = e /\ es[2] = f /\ Emit(es)
  BY <1>2 DEF es
<1>4. tr' = Add(Add(tr, e), f)
  BY <1>3 DEF Emit
<1>5. QED BY <1>1, <1>4 DEF Emit

LEMMA SayIs ==
    ASSUME NEW x \in Say
    PROVE  x \in Words(setup)
<1>1. CASE x = Nothing
  BY <1>1, EmptySeq DEF Nothing, Words
<1>2. ASSUME NEW y \in setup.texts, x = <<y>> PROVE x \in Words(setup)
  BY <1>2, AloneIs DEF Words
<1>3. QED BY <1>1, <1>2 DEF Say, Texts

LEMMA CalledMore ==
    ASSUME NEW S, NEW w \in Seq(S), NEW e \in S
    PROVE  /\ \A c : Called(w, c) => Called(Append(w, e), c)
           /\ e.event = "call_start" => Called(Append(w, e), e.call)
<1>1. ToSet(Append(w, e)) = ToSet(w) \union {e}
  BY AmongMore
<1>2. QED BY <1>1 DEF Called

\* What the steps that start and end no call have in common.
Goes(u, n, w, t) ==
    /\ Good(u, n, w, t)
    /\ t.pending = tr.pending
    /\ \A c : Called(wire, c) => Called(w, c)
    /\ \A c \in u.calls : DraftOf(t.items, c) => DraftOf(tr.items, c)

LEMMA InvTypes ==
    ASSUME Inv
    PROVE  /\ setup \in Setups /\ run \in Runs(setup) /\ run.r \in Rs(setup) /\ run.ids \in Nat
           /\ run.ids + 1 \in Nat /\ run.ids <= run.ids + 1 /\ run.ids + 1 # NoId
           /\ wire \in Seq(Events(setup)) /\ tr \in Trs(setup) /\ dumped \in Seq(Msgs(setup))
           /\ Good(setup, run.ids, wire, tr)
           /\ CallPends(setup, wire, run, tr) /\ TextIsLast(run, tr) /\ AllCalled(setup, wire, tr)
           /\ AllAsked(run)
<1>1. run \in Runs(setup) /\ setup \in Setups
  BY DEF Inv, Fits
<1>2. run.r \in Rs(setup) /\ run.ids \in Nat
  BY <1>1 DEF Runs
<1>3. QED BY <1>1, <1>2, GoodTypes DEF Inv, Fits, NoId

LEMMA GoesNot ==
    ASSUME Inv
    PROVE  Goes(setup, run.ids, wire, tr)
BY DEF Goes, Inv

LEMMA GoesOpening ==
    ASSUME Inv, NEW n, NEW w, NEW t, Goes(setup, n, w, t), NEW e \in Opening, e.id = n + 1
    PROVE  /\ Goes(setup, n + 1, Append(w, e), Add(t, e))
           /\ DraftLast(Add(t, e).items, e.id) /\ DraftOf(Add(t, e).items, e.id)
<1> DEFINE u == setup
<1>1. u \in Setups
  BY InvTypes
<1>2. Good(u, n, w, t)
  BY DEF Goes
<1>3. w \in Seq(Events(u)) /\ e \in Events(u) /\ e.id \notin u.calls /\ t \in Trs(u)
  BY <1>1, <1>2, GoodTypes, SetupIs DEF Opening, Events
<1>4. /\ Good(u, n + 1, Append(w, e), Add(t, e))
      /\ Add(t, e) = [t EXCEPT !.items = Append(@, Draft(e.id))]
      /\ \A id : DraftOf(Add(t, e).items, id) <=> DraftOf(t.items, id) \/ id = e.id
      /\ DraftLast(Add(t, e).items, e.id)
  BY <1>1, <1>2, GoodOpening
<1>5. Add(t, e).pending = t.pending
  BY <1>3, <1>4 DEF Trs
<1>6. \A c : Called(w, c) => Called(Append(w, e), c)
  BY <1>3, CalledMore
<1> DEFINE s == Add(t, e)
           v == Append(w, e)
<1> HIDE DEF u, s, v
<1>7. Goes(u, n + 1, v, s)
  <2>1. /\ Good(u, n + 1, v, s) /\ s.pending = t.pending /\ \A c : Called(w, c) => Called(v, c)
        /\ \A id : DraftOf(s.items, id) <=> DraftOf(t.items, id) \/ id = e.id
    BY <1>4, <1>5, <1>6 DEF s, v
  <2>2. t.pending = tr.pending /\ (\A c : Called(wire, c) => Called(w, c))
        /\ \A c \in u.calls : DraftOf(t.items, c) => DraftOf(tr.items, c)
    BY DEF Goes, u
  <2>3. \A c \in u.calls : DraftOf(s.items, c) => DraftOf(tr.items, c)
    BY <1>3, <2>1, <2>2
  <2>4. QED BY <2>1, <2>2, <2>3 DEF Goes
<1>8. QED BY <1>4, <1>7 DEF u, s, v

LEMMA GoesOn ==
    ASSUME Inv, NEW n, NEW w, NEW t, Goes(setup, n, w, t), NEW e \in Events(setup),
           NEW m \in Nat, n <= m, NEW s, Good(setup, m, Append(w, e), s), s.pending = t.pending,
           \A id : DraftOf(s.items, id) => DraftOf(t.items, id)
    PROVE  Goes(setup, m, Append(w, e), s)
<1>1. w \in Seq(Events(setup))
  BY GoodTypes DEF Goes
<1>2. \A c : Called(w, c) => Called(Append(w, e), c)
  BY <1>1, CalledMore
<1>3. QED BY <1>2 DEF Goes

LEMMA GoesSpeaking ==
    ASSUME Inv, NEW n, NEW w, NEW t, Goes(setup, n, w, t), NEW e \in Speaking(setup), DraftOf(t.items, e.id)
    PROVE  /\ Goes(setup, n, Append(w, e), Add(t, e))
           /\ \A id : DraftLast(t.items, id) => DraftLast(Add(t, e).items, id)
<1>1. setup \in Setups /\ Good(setup, n, w, t) /\ n \in Nat /\ n <= n
  BY InvTypes, GoodTypes DEF Goes
<1>2. e \in Events(setup)
  BY DEF Events
<1>3. /\ Good(setup, n, Append(w, e), Add(t, e))
      /\ Add(t, e).pending = t.pending
      /\ \A id : DraftOf(Add(t, e).items, id) <=> DraftOf(t.items, id)
      /\ \A id : DraftLast(t.items, id) => DraftLast(Add(t, e).items, id)
  BY <1>1, GoodSpeaking
<1> DEFINE s == Add(t, e)
<1> HIDE DEF s
<1>4. Goes(setup, n, Append(w, e), s)
  <2>1. Good(setup, n, Append(w, e), s) /\ s.pending = t.pending /\ \A id : DraftOf(s.items, id) => DraftOf(t.items, id)
    BY <1>3 DEF s
  <2>2. QED BY <1>1, <1>2, <2>1, GoesOn
<1>5. QED BY <1>3, <1>4 DEF s

LEMMA GoesReasoning ==
    ASSUME Inv, NEW n, NEW w, NEW t, Goes(setup, n, w, t), NEW e,
           e \in Reasoning \/ (e \in Thinking(setup) /\ \E x \in ToSet(t.reasoning) : x.id = e.id)
    PROVE  /\ Goes(setup, n, Append(w, e), Add(t, e))
           /\ Add(t, e).items = t.items
           /\ e \in Reasoning => \E x \in ToSet(Add(t, e).reasoning) : x.id = e.id
<1>1. setup \in Setups /\ Good(setup, n, w, t) /\ n \in Nat /\ n <= n
  BY InvTypes, GoodTypes DEF Goes
<1>2. e \in Events(setup)
  BY DEF Events
<1>3. /\ Good(setup, n, Append(w, e), Add(t, e))
      /\ Add(t, e).pending = t.pending /\ Add(t, e).items = t.items
      /\ e \in Reasoning => \E x \in ToSet(Add(t, e).reasoning) : x.id = e.id
  BY <1>1, GoodReasoning
<1> DEFINE s == Add(t, e)
<1> HIDE DEF s
<1>4. Goes(setup, n, Append(w, e), s)
  <2>1. Good(setup, n, Append(w, e), s) /\ s.pending = t.pending /\ \A id : DraftOf(s.items, id) => DraftOf(t.items, id)
    BY <1>3 DEF s
  <2>2. QED BY <1>1, <1>2, <2>1, GoesOn
<1>5. QED BY <1>3, <1>4 DEF s

LEMMA GoesResulting ==
    ASSUME Inv, NEW n, NEW w, NEW t, Goes(setup, n, w, t), NEW e \in Resulting(setup)
    PROVE  Goes(setup, n, Append(w, e), Add(t, e))
<1>1. setup \in Setups /\ Good(setup, n, w, t) /\ n \in Nat /\ n <= n
  BY InvTypes, GoodTypes DEF Goes
<1>2. e \in Events(setup)
  BY DEF Events
<1>3. /\ Good(setup, n, Append(w, e), Add(t, e))
      /\ Add(t, e).pending = t.pending
      /\ \A id : DraftOf(Add(t, e).items, id) <=> DraftOf(t.items, id)
  BY <1>1, GoodResulting
<1> DEFINE s == Add(t, e)
<1> HIDE DEF s
<1>4. Good(setup, n, Append(w, e), s) /\ s.pending = t.pending /\ \A id : DraftOf(s.items, id) => DraftOf(t.items, id)
  BY <1>3 DEF s
<1>5. Goes(setup, n, Append(w, e), s)
  BY <1>1, <1>2, <1>4, GoesOn
<1>6. QED BY <1>5 DEF s

LEMMA GoesSnapping ==
    ASSUME Inv, NEW n, NEW w, NEW t, Goes(setup, n, w, t), NEW e \in Snapping(setup) \union Changing(setup),
           e.id \in 1 .. n, \A x \in ToSet(t.activities) : x.id = e.id => x.type = e.type
    PROVE  Goes(setup, n, Append(w, e), Add(t, e)) /\ Add(t, e).items = t.items
<1>1. setup \in Setups /\ Good(setup, n, w, t) /\ n \in Nat /\ n <= n
  BY InvTypes, GoodTypes DEF Goes
<1>2. e \in Events(setup)
  BY DEF Events
<1>3. /\ Good(setup, n, Append(w, e), Add(t, e))
      /\ Add(t, e).pending = t.pending /\ Add(t, e).items = t.items
  BY <1>1, GoodSnapping
<1> DEFINE s == Add(t, e)
<1> HIDE DEF s
<1>4. Good(setup, n, Append(w, e), s) /\ s.pending = t.pending /\ \A id : DraftOf(s.items, id) => DraftOf(t.items, id)
  BY <1>3 DEF s
<1>5. Goes(setup, n, Append(w, e), s)
  BY <1>1, <1>2, <1>4, GoesOn
<1>6. QED BY <1>3, <1>5 DEF s

LEMMA GoesFurther ==
    ASSUME NEW n, NEW w, NEW t, Goes(setup, n, w, t)
    PROVE  Goes(setup, n + 1, w, t)
<1>1. Good(setup, n, w, t) /\ n \in Nat
  BY GoodTypes DEF Goes
<1>2. Good(setup, n + 1, w, t)
  <2> DEFINE m == n + 1
  <2>1. m \in Nat /\ n <= m
    BY <1>1
  <2> HIDE DEF m
  <2>2. Good(setup, m, w, t)
    BY <1>1, <2>1, GoodGrows
  <2>3. QED BY <2>2 DEF m
<1>3. QED BY <1>2 DEF Goes

(* A step that goes on so keeps the invariant.                             *)
LEMMA InvGoes ==
    ASSUME Inv, UNCHANGED setup, run.calling = NoId, Goes(setup, run'.ids, wire', tr'),
           run' \in Runs(setup), run'.calling = NoId, TextIsLast(run', tr'), AllAsked(run'),
           dumped' \in Seq(Msgs(setup))
    PROVE  Inv'
<1>1. CallPends(setup, wire, run, tr) /\ AllCalled(setup, wire, tr) /\ setup \in Setups
  BY InvTypes
<1>2. CallPends(setup, wire', run', tr')
  BY <1>1 DEF CallPends, Goes
<1>3. AllCalled(setup, wire', tr')
  BY <1>1 DEF AllCalled, Goes
<1>4. Good(setup, run'.ids, wire', tr')
  BY DEF Goes
<1>5. QED BY <1>1, <1>2, <1>3, <1>4 DEF Inv, Fits

LEMMA TextKeeps ==
    ASSUME Inv, UNCHANGED setup, NEW x \in Say, TextPart(x)
    PROVE  Inv'
<1> DEFINE u == setup
           n == run.ids
           joins == run.r.last = "text"
           id == IF joins THEN run.r.text ELSE Fresh
           open == [event |-> "text_start", id |-> id]
           say == [event |-> "text", id |-> id, text |-> x]
<1>1. /\ u \in Setups /\ run \in Runs(u) /\ run.r \in Rs(u) /\ n \in Nat /\ n + 1 \in Nat /\ n + 1 # NoId
      /\ wire \in Seq(Events(u)) /\ TextIsLast(run, tr) /\ AllAsked(run) /\ dumped \in Seq(Msgs(u))
  BY InvTypes
<1>2. x \in Words(u) /\ Fresh = n + 1
  BY SayIs DEF Fresh
<1>3. run.phase = "respond" /\ run.calling = NoId /\ run.parts < u.maxParts /\ dumped' = dumped
  BY DEF TextPart, Part, MaxParts
<1>4. run' = [run EXCEPT !.r.last = "text", !.r.text = id, !.r.open = TRUE,
                         !.r.said = @ \o x, !.r.from = @ \union {id},
                             !.ids = IF joins THEN @ ELSE id, !.parts = @ + 1,
                             !.plain = @ /\ (joins \/ run.r.last # "file")]
  BY DEF TextPart
<1>5. Emit((IF joins THEN <<>> ELSE <<open>>) \o (IF x = Nothing THEN <<>> ELSE <<say>>))
  BY DEF TextPart
<1>6. id \in Nat /\ id # NoId /\ (joins => DraftLast(tr.items, id))
  <2>1. CASE joins
    BY <1>1, <1>3, <2>1 DEF TextIsLast, Rs
  <2>2. CASE ~joins
    BY <1>1, <1>2, <2>2
  <2>3. QED BY <2>1, <2>2
<1>7. /\ open \in Opening /\ open.id = id
      /\ x # <<>> => say \in Speaking(u) /\ say.id = id
  BY <1>2, <1>6 DEF Opening, Speaking
<1>8. open \in Events(u) /\ (x # <<>> => say \in Events(u))
  BY <1>7 DEF Events
<1> DEFINE q == run'
<1>9. /\ q.phase = "respond" /\ q.calling = NoId /\ q.asked = run.asked /\ q.waiting = run.waiting
      /\ q.got = run.got /\ q.ids = (IF joins THEN n ELSE id)
      /\ q.r.last = "text" /\ q.r.text = id
      /\ q \in Runs(u)
  <2> DEFINE said == Cat(run.r.said, x)
             rr == [run.r EXCEPT !.last = "text", !.text = id, !.open = TRUE, !.said = said, !.from = @ \union {id}]
             ii == IF joins THEN n ELSE id
             pp == run.parts + 1
             pl == run.plain /\ (joins \/ run.r.last # "file")
  <2>1. said \in Words(u)
    BY <1>1, <1>2, CatType DEF Rs, Words
  <2>2. q = [run EXCEPT !.r = rr, !.ids = ii, !.parts = pp, !.plain = pl]
    <3> HIDE DEF id, joins
    <3>1. rr = [run.r EXCEPT !.last = "text", !.text = id, !.open = TRUE,
                             !.said = @ \o x, !.from = @ \union {id}]
      BY DEF Cat
    <3> HIDE DEF rr
    <3>2. run' = [run EXCEPT !.r = rr, !.ids = IF joins THEN @ ELSE id, !.parts = @ + 1,
                             !.plain = @ /\ (joins \/ run.r.last # "file")]
      BY <1>4, <3>1
    <3>3. QED BY <3>2
  <2>3. pp \in 0 .. u.maxParts
    <3>1. u.maxParts \in Nat
      BY <1>1, TranscriptAssumption
    <3>2. run.parts \in 0 .. u.maxParts
      BY <1>1 DEF Runs
    <3>3. QED BY <1>3, <3>1, <3>2
  <2>4. ii \in Nat /\ pl \in BOOLEAN
    BY <1>1, <1>6
  <2> HIDE DEF said, id, joins
  <2>5. rr \in Rs(u) /\ rr.last = "text" /\ rr.text = id
    BY <1>1, <1>6, <2>1 DEF Rs
  <2> HIDE DEF rr, ii, pp, pl, q
  <2>6. QED BY <1>1, <1>3, <2>2, <2>3, <2>4, <2>5 DEF Runs, ii
<1> HIDE DEF open, say, id, joins
<1>10. Goes(u, q.ids, wire', tr') /\ DraftLast(tr'.items, id)
  <2>1. ASSUME NEW w, NEW t, NEW m, Goes(u, m, w, t), DraftLast(t.items, id), t \in Trs(u),
               x # <<>>
        PROVE  Goes(u, m, Append(w, say), Add(t, say)) /\ DraftLast(Add(t, say).items, id)
    <3>1. DraftOf(t.items, say.id)
      <4>1. t.items \in Seq(Items(u)) /\ t.items # <<>>
        BY <2>1 DEF Trs, DraftLast
      <4>2. Len(t.items) \in DOMAIN t.items
        BY <4>1, LenProperties, EmptySeq
      <4>3. QED BY <1>7, <2>1, <4>2 DEF DraftOf, DraftLast, ToSet
    <3>2. QED BY <1>7, <2>1, <3>1, GoesSpeaking
  <2>2. Goes(u, n, wire, tr) /\ tr \in Trs(u)
    BY GoesNot, InvTypes
  <2>3. CASE joins /\ x = <<>>
    <3>1. Emit(<<>>)
      <4>1. <<>> \o <<>> = <<>>
        OBVIOUS
      <4>2. QED BY <1>5, <2>3, <4>1 DEF Nothing
    <3>2. wire' = wire /\ tr' = tr
      BY <1>1, <3>1, EmitsNone
    <3>3. QED BY <1>6, <1>9, <2>2, <2>3, <3>2
  <2>4. CASE joins /\ x # <<>>
    <3>1. Emit(<<say>>)
      <4>1. <<>> \o <<say>> = <<say>>
        OBVIOUS
      <4>2. QED BY <1>5, <2>4, <4>1 DEF Nothing
    <3>2. wire' = Append(wire, say) /\ tr' = Add(tr, say)
      BY <1>1, <1>8, <2>4, <3>1, EmitsOne
    <3>3. QED BY <1>6, <1>9, <2>1, <2>2, <2>4, <3>2
  <2>5. CASE ~joins
    <3>1. open.id = n + 1 /\ id = n + 1
      BY <1>2, <1>7, <2>5 DEF id
    <3> DEFINE w == Append(wire, open)
               t == Add(tr, open)
    <3>2. Goes(u, n + 1, w, t) /\ DraftLast(t.items, id)
      BY <1>7, <2>2, <3>1, GoesOpening
    <3>3. t \in Trs(u)
      BY <3>2, GoodTypes DEF Goes
    <3>4. CASE x = <<>>
      <4>1. Emit(<<open>>)
        <5>1. <<open>> \o <<>> = <<open>>
          OBVIOUS
        <5>2. QED BY <1>5, <2>5, <3>4, <5>1 DEF Nothing
      <4>2. wire' = w /\ tr' = t
        BY <1>1, <1>8, <4>1, EmitsOne
      <4>3. QED BY <1>9, <2>5, <3>1, <3>2, <4>2
    <3>5. CASE x # <<>>
      <4>1. Emit(<<open, say>>)
        <5>1. <<open>> \o <<say>> = <<open, say>>
          BY PairIs
        <5>2. QED BY <1>5, <2>5, <3>5, <5>1 DEF Nothing
      <4>2. wire' = Append(w, say) /\ tr' = Add(t, say)
        BY <1>1, <1>8, <3>5, <4>1, EmitsTwo
      <4> HIDE DEF w, t
      <4>3. QED BY <1>9, <2>1, <2>5, <3>1, <3>2, <3>3, <3>5, <4>2
    <3>6. QED BY <3>4, <3>5
  <2>6. QED BY <2>3, <2>4, <2>5
<1>11. TextIsLast(q, tr')
  BY <1>6, <1>9, <1>10 DEF TextIsLast
<1>12. AllAsked(q)
  BY <1>1, <1>3, <1>9 DEF AllAsked
<1>13. QED BY <1>1, <1>3, <1>9, <1>10, <1>11, <1>12, InvGoes

LEMMA DumpsOne ==
    ASSUME NEW u, NEW s \in Seq(Msgs(u)), NEW m,
           \/ m \in Answering(u) \/ m \in Pondering(u) \/ m \in Acting(u) \/ m \in Telling(u)
           \/ m \in Handing(u)
    PROVE  m \in Msgs(u) /\ Append(s, m) \in Seq(Msgs(u))
<1>1. m \in Msgs(u)
  BY DEF Msgs
<1>2. QED BY <1>1, AppendProperties

LEMMA FlushedIs ==
    ASSUME Inv
    PROVE  Flushed \in Seq(Msgs(setup))
<1> DEFINE m == [kind |-> "assistant", text |-> run.r.said, calls |-> run.r.calls, of |-> run.r.from]
<1>1. run.r \in Rs(setup) /\ dumped \in Seq(Msgs(setup))
  BY InvTypes
<1>2. m \in Answering(setup)
  BY <1>1 DEF Rs, Answering
<1>3. Append(dumped, m) \in Seq(Msgs(setup))
  <2> HIDE DEF m
  <2>1. QED BY <1>1, <1>2, DumpsOne
<1>4. Flushed = IF run.r.open \/ run.r.calls # <<>> THEN Append(dumped, m) ELSE dumped
  BY DEF Flushed
<1> HIDE DEF m
<1>5. QED BY <1>1, <1>3, <1>4

LEMMA FileKeeps ==
    ASSUME Inv, UNCHANGED setup, FilePart
    PROVE  Inv'
<1> DEFINE u == setup
           q == run'
           rr == [run.r EXCEPT !.last = "file"]
           pp == run.parts + 1
<1>1. /\ u \in Setups /\ run \in Runs(u) /\ run.r \in Rs(u) /\ TextIsLast(run, tr) /\ AllAsked(run)
      /\ dumped \in Seq(Msgs(u))
  BY InvTypes
<1>2. /\ run.phase = "respond" /\ run.calling = NoId /\ run.parts < u.maxParts /\ run.r.last = "text"
      /\ dumped' = dumped /\ wire' = wire /\ tr' = tr
      /\ run' = [run EXCEPT !.r.last = "file", !.parts = @ + 1]
  BY DEF FilePart, Part, MaxParts
<1>3. q = [run EXCEPT !.r = rr, !.parts = pp]
  BY <1>2
<1>4. rr \in Rs(u) /\ rr.text = run.r.text /\ rr.last = "file"
  BY <1>1 DEF Rs
<1>5. pp \in 0 .. u.maxParts
  <2>1. u.maxParts \in Nat
    BY <1>1, TranscriptAssumption
  <2>2. run.parts \in 0 .. u.maxParts
    BY <1>1 DEF Runs
  <2>3. QED BY <1>2, <2>1, <2>2
<1> HIDE DEF rr, pp, q
<1>6. /\ q \in Runs(u) /\ q.calling = NoId /\ q.phase = "respond" /\ q.r = rr /\ q.ids = run.ids
      /\ q.asked = run.asked /\ q.waiting = run.waiting /\ q.got = run.got
  BY <1>1, <1>2, <1>3, <1>4, <1>5 DEF Runs
<1>7. TextIsLast(q, tr)
  BY <1>1, <1>2, <1>4, <1>6 DEF TextIsLast
<1>8. AllAsked(q)
  BY <1>1, <1>2, <1>6 DEF AllAsked
<1>9. Goes(u, q.ids, wire', tr')
  BY <1>2, <1>6, GoesNot
<1>10. QED BY <1>1, <1>2, <1>6, <1>7, <1>8, <1>9, InvGoes DEF q

LEMMA ThinkingKeeps ==
    ASSUME Inv, UNCHANGED setup, NEW x \in Say, ThinkingPart(x)
    PROVE  Inv'
<1> DEFINE u == setup
           n == run.ids
           q == run'
           rr == [run.r EXCEPT !.last = "thinking", !.open = FALSE, !.said = Nothing, !.calls = <<>>,
                               !.from = {}]
           pp == run.parts + 1
           m == [kind |-> "reasoning", text |-> x, of |-> {Fresh}]
           open == [event |-> "reasoning_start", id |-> Fresh]
           say == [event |-> "reasoning", id |-> Fresh, text |-> x]
<1>1. /\ u \in Setups /\ run \in Runs(u) /\ run.r \in Rs(u) /\ TextIsLast(run, tr) /\ AllAsked(run)
      /\ dumped \in Seq(Msgs(u)) /\ n \in Nat /\ n + 1 \in Nat /\ wire \in Seq(Events(u))
  BY InvTypes
<1>2. x \in Words(u) /\ Fresh = n + 1
  BY SayIs DEF Fresh
<1>3. /\ run.phase = "respond" /\ run.calling = NoId /\ run.parts < u.maxParts
      /\ dumped' = Append(Flushed, m)
      /\ run' = [run EXCEPT !.r.last = "thinking", !.r.open = FALSE, !.r.said = Nothing,
                          !.r.calls = <<>>, !.r.from = {}, !.ids = Fresh, !.parts = @ + 1]
  BY DEF ThinkingPart, Part, MaxParts
<1>4. Emit(IF ~u.forward THEN <<>> ELSE <<open>> \o (IF x = Nothing THEN <<>> ELSE <<say>>))
  BY DEF ThinkingPart, Forward
<1>5. q = [run EXCEPT !.r = rr, !.ids = n + 1, !.parts = pp]
  BY <1>2, <1>3
<1>6. rr \in Rs(u) /\ rr.text = run.r.text /\ rr.last = "thinking"
  BY <1>1, EmptySeq DEF Rs, Words, Nothing
<1>7. pp \in 0 .. u.maxParts
  <2>1. u.maxParts \in Nat
    BY <1>1, TranscriptAssumption
  <2>2. run.parts \in 0 .. u.maxParts
    BY <1>1 DEF Runs
  <2>3. QED BY <1>3, <2>1, <2>2
<1>8. dumped' \in Seq(Msgs(u))
  <2>1. m \in Pondering(u)
    BY <1>1, <1>2 DEF Pondering
  <2> HIDE DEF m
  <2>2. QED BY <1>3, <2>1, FlushedIs, DumpsOne
<1>9. /\ open \in Reasoning /\ open \in Events(u) /\ open.id = n + 1
      /\ x # <<>> => say \in Thinking(u) /\ say \in Events(u) /\ say.id = n + 1
  <2>1. open \in Reasoning /\ (x # <<>> => say \in Thinking(u))
    BY <1>1, <1>2 DEF Reasoning, Thinking
  <2>2. QED BY <1>2, <2>1 DEF Events
<1> HIDE DEF rr, pp, q, m, open, say
<1>10. /\ q \in Runs(u) /\ q.calling = NoId /\ q.phase = "respond" /\ q.r = rr /\ q.ids = n + 1
       /\ q.asked = run.asked /\ q.waiting = run.waiting /\ q.got = run.got
  BY <1>1, <1>3, <1>5, <1>6, <1>7 DEF Runs
<1>11. Goes(u, n + 1, wire', tr') /\ tr'.items = tr.items
  <2>1. Goes(u, n, wire, tr)
    BY GoesNot
  <2>2. Goes(u, n + 1, wire, tr)
    BY <2>1, GoesFurther
  <2>3. CASE ~u.forward
    <3>1. Emit(<<>>)
      BY <1>4, <2>3
    <3>2. QED BY <1>1, <2>2, <3>1, EmitsNone
  <2>4. CASE u.forward
    <3> DEFINE w == Append(wire, open)
               t == Add(tr, open)
    <3>1. /\ Goes(u, n + 1, w, t) /\ t.items = tr.items
          /\ \E y \in ToSet(t.reasoning) : y.id = n + 1
      BY <1>9, <2>2, GoesReasoning
    <3>2. CASE x = <<>>
      <4>1. Emit(<<open>>)
        <5>1. <<open>> \o <<>> = <<open>>
          OBVIOUS
        <5>2. QED BY <1>4, <2>4, <3>2, <5>1 DEF Nothing
      <4>2. wire' = w /\ tr' = t
        BY <1>1, <1>9, <4>1, EmitsOne
      <4>3. QED BY <3>1, <4>2
    <3>3. CASE x # <<>>
      <4>1. Emit(<<open, say>>)
        <5>1. <<open>> \o <<say>> = <<open, say>>
          BY PairIs
        <5>2. QED BY <1>4, <2>4, <3>3, <5>1 DEF Nothing
      <4>2. wire' = Append(w, say) /\ tr' = Add(t, say)
        BY <1>1, <1>9, <3>3, <4>1, EmitsTwo
      <4> HIDE DEF w, t
      <4>3. Goes(u, n + 1, Append(w, say), Add(t, say)) /\ Add(t, say).items = t.items
        BY <1>9, <3>1, <3>3, GoesReasoning
      <4>4. QED BY <3>1, <4>2, <4>3
    <3>4. QED BY <3>2, <3>3
  <2>5. QED BY <2>3, <2>4
<1>12. TextIsLast(q, tr')
  BY <1>1, <1>3, <1>6, <1>10, <1>11 DEF TextIsLast, DraftLast
<1>13. AllAsked(q)
  BY <1>1, <1>3, <1>10 DEF AllAsked
<1>14. QED BY <1>3, <1>8, <1>10, <1>11, <1>12, <1>13, InvGoes DEF q

LEMMA PartsMore ==
    ASSUME Inv, run.parts < setup.maxParts
    PROVE  run.parts + 1 \in 0 .. setup.maxParts
<1>1. setup \in Setups /\ run \in Runs(setup)
  BY InvTypes
<1>2. setup.maxParts \in Nat
  BY <1>1, TranscriptAssumption
<1>3. run.parts \in 0 .. setup.maxParts
  BY <1>1 DEF Runs
<1>4. QED BY <1>2, <1>3

(* Numbers not given yet name nothing.                                     *)
LEMMA FreshIsNew ==
    ASSUME Inv
    PROVE  \A x \in ToSet(tr.activities) : x.id # run.ids + 1
<1>1. Good(setup, run.ids, wire, tr) /\ run.ids \in Nat
  BY InvTypes
<1>2. \A x \in ToSet(tr.activities) : x.id \in 1 .. run.ids
  BY <1>1 DEF Good, Named
<1>3. QED BY <1>1, <1>2

LEMMA CompactionKeeps ==
    ASSUME Inv, UNCHANGED setup, NEW content \in Contents, CompactionPart(content)
    PROVE  Inv'
<1> DEFINE u == setup
           n == run.ids
           q == run'
           pp == run.parts + 1
           m == [kind |-> "activity", type |-> Provider, content |-> content, of |-> {Fresh}]
           e == [event |-> "snapshot", id |-> Fresh, type |-> Provider, content |-> content,
                 replace |-> TRUE]
<1>1. /\ u \in Setups /\ run \in Runs(u) /\ run.r \in Rs(u) /\ TextIsLast(run, tr) /\ AllAsked(run)
      /\ dumped \in Seq(Msgs(u)) /\ n \in Nat /\ n + 1 \in Nat /\ wire \in Seq(Events(u))
  BY InvTypes
<1>2. Fresh = n + 1 /\ content \in u.contents
  BY DEF Fresh, Contents
<1>3. /\ run.phase = "respond" /\ run.calling = NoId /\ run.parts < u.maxParts
      /\ dumped' = Append(dumped, m) /\ Emit(<<e>>)
      /\ run' = [run EXCEPT !.ids = Fresh, !.parts = @ + 1]
  BY DEF CompactionPart, Part, MaxParts
<1>4. q = [run EXCEPT !.ids = n + 1, !.parts = pp]
  BY <1>2, <1>3
<1>5. pp \in 0 .. u.maxParts
  BY <1>3, PartsMore
<1>6. dumped' \in Seq(Msgs(u))
  <2>1. m \in Acting(u)
    BY <1>1, <1>2 DEF Acting, Kinds
  <2> HIDE DEF m
  <2>2. QED BY <1>1, <1>3, <2>1, DumpsOne
<1>7. e \in Snapping(u) /\ e \in Events(u) /\ e.id = n + 1
  <2>1. e \in Snapping(u)
    BY <1>1, <1>2 DEF Snapping, Kinds
  <2>2. QED BY <1>2, <2>1 DEF Events
<1> HIDE DEF pp, q, m, e
<1>8. /\ q \in Runs(u) /\ q.calling = NoId /\ q.phase = "respond" /\ q.r = run.r /\ q.ids = n + 1
      /\ q.asked = run.asked /\ q.waiting = run.waiting /\ q.got = run.got
  BY <1>1, <1>3, <1>4, <1>5 DEF Runs
<1>9. Goes(u, n + 1, wire', tr') /\ tr'.items = tr.items
  <2>1. Goes(u, n + 1, wire, tr)
    BY GoesNot, GoesFurther
  <2>2. wire' = Append(wire, e) /\ tr' = Add(tr, e)
    BY <1>1, <1>3, <1>7, EmitsOne
  <2>3. e.id \in 1 .. n + 1 /\ \A x \in ToSet(tr.activities) : x.id # e.id
    BY <1>1, <1>7, FreshIsNew
  <2>4. QED BY <1>7, <2>1, <2>2, <2>3, GoesSnapping
<1>10. TextIsLast(q, tr')
  BY <1>1, <1>3, <1>8, <1>9 DEF TextIsLast, DraftLast
<1>11. AllAsked(q)
  BY <1>1, <1>3, <1>8 DEF AllAsked
<1>12. QED BY <1>6, <1>3, <1>8, <1>9, <1>10, <1>11, InvGoes DEF q

LEMMA ResponseIs ==
    ASSUME NEW u
    PROVE  Response \in Rs(u) /\ Response.text = NoId
BY EmptySeq DEF Response, Rs, Words, Nothing, NoId

LEMMA ResponseEndKeeps ==
    ASSUME Inv, UNCHANGED setup, ResponseEnds
    PROVE  Inv'
<1> DEFINE u == setup
           q == run'
           to == IF run.asked = <<>> THEN "done" ELSE "tools"
<1>1. /\ u \in Setups /\ run \in Runs(u) /\ run.r \in Rs(u) /\ AllAsked(run)
  BY InvTypes
<1>2. /\ run.phase = "respond" /\ run.calling = NoId
      /\ dumped' = Flushed /\ wire' = wire /\ tr' = tr
      /\ run' = [run EXCEPT !.phase = IF run.asked = <<>> THEN "done" ELSE "tools", !.r = Response]
  BY DEF ResponseEnds
<1>3. q = [run EXCEPT !.phase = to, !.r = Response] /\ to \in {"done", "tools"}
  BY <1>2
<1> HIDE DEF q, to
<1>4. /\ q \in Runs(u) /\ q.calling = NoId /\ q.phase = to /\ q.r = Response /\ q.ids = run.ids
      /\ q.asked = run.asked /\ q.waiting = run.waiting /\ q.got = run.got
  BY <1>1, <1>2, <1>3, ResponseIs DEF Runs
<1>5. TextIsLast(q, tr')
  BY <1>3, <1>4 DEF TextIsLast
<1>6. AllAsked(q)
  BY <1>1, <1>2, <1>3, <1>4 DEF AllAsked
<1>7. Goes(u, q.ids, wire', tr')
  BY <1>2, <1>4, GoesNot
<1>8. QED BY <1>2, <1>4, <1>5, <1>6, <1>7, FlushedIs, InvGoes DEF q

LEMMA SpeechKeeps ==
    ASSUME Inv, UNCHANGED setup, NEW x \in Say \ {Nothing}, ToolSpeaks(x)
    PROVE  Inv'
<1> DEFINE u == setup
           n == run.ids
           q == run'
           pp == run.parts + 1
           open == [event |-> "text_start", id |-> Fresh]
           say == [event |-> "text", id |-> Fresh, text |-> x]
<1>1. /\ u \in Setups /\ run \in Runs(u) /\ run.r \in Rs(u) /\ TextIsLast(run, tr) /\ AllAsked(run)
      /\ dumped \in Seq(Msgs(u)) /\ n \in Nat /\ n + 1 \in Nat /\ wire \in Seq(Events(u))
  BY InvTypes
<1>2. x \in Words(u) /\ x # <<>> /\ Fresh = n + 1
  BY SayIs DEF Fresh, Nothing
<1>3. /\ run.phase = "tools" /\ run.calling = NoId /\ run.parts < u.maxParts
      /\ dumped' = dumped /\ Emit(<<open, say>>)
      /\ run' = [run EXCEPT !.ids = Fresh, !.parts = @ + 1, !.plain = FALSE]
  BY DEF ToolSpeaks, Part, MaxParts
<1>4. q = [run EXCEPT !.ids = n + 1, !.parts = pp, !.plain = FALSE]
  BY <1>2, <1>3
<1>5. pp \in 0 .. u.maxParts
  BY <1>3, PartsMore
<1>6. /\ open \in Opening /\ open \in Events(u) /\ open.id = n + 1
      /\ say \in Speaking(u) /\ say \in Events(u) /\ say.id = n + 1
  <2>1. open \in Opening /\ say \in Speaking(u)
    BY <1>1, <1>2 DEF Opening, Speaking
  <2>2. QED BY <1>2, <2>1 DEF Events
<1> HIDE DEF pp, q, open, say
<1>7. /\ q \in Runs(u) /\ q.calling = NoId /\ q.phase = "tools" /\ q.r = run.r /\ q.ids = n + 1
      /\ q.asked = run.asked /\ q.waiting = run.waiting /\ q.got = run.got
  BY <1>1, <1>3, <1>4, <1>5 DEF Runs
<1>8. Goes(u, n + 1, wire', tr')
  <2> DEFINE w == Append(wire, open)
             t == Add(tr, open)
  <2>1. Goes(u, n + 1, w, t) /\ DraftOf(t.items, open.id)
    BY <1>6, GoesNot, GoesOpening
  <2>2. wire' = Append(w, say) /\ tr' = Add(t, say)
    BY <1>1, <1>3, <1>6, EmitsTwo
  <2> HIDE DEF w, t
  <2>3. Goes(u, n + 1, Append(w, say), Add(t, say))
    BY <1>6, <2>1, GoesSpeaking
  <2>4. QED BY <2>2, <2>3
<1>9. TextIsLast(q, tr')
  BY <1>1, <1>3, <1>7 DEF TextIsLast
<1>10. AllAsked(q)
  BY <1>1, <1>3, <1>7 DEF AllAsked
<1>11. QED BY <1>1, <1>3, <1>7, <1>8, <1>9, <1>10, InvGoes DEF q

LEMMA ShowKeeps ==
    ASSUME Inv, UNCHANGED setup, NEW event, NEW id, NEW type \in Types, NEW content, NEW replace \in BOOLEAN,
           \/ event = "snapshot" /\ content \in Contents
           \/ event = "delta" /\ content = Nothing /\ replace = TRUE,
           id \in 1 .. Fresh, ToolShows(event, id, type, content, replace)
    PROVE  Inv'
<1> DEFINE u == setup
           n == run.ids
           q == run'
           pp == run.parts + 1
           ii == IF id = Fresh THEN id ELSE n
           pl == run.plain /\ type # Provider
           e == [event |-> event, id |-> id, type |-> type, content |-> content, replace |-> replace]
<1>1. /\ u \in Setups /\ run \in Runs(u) /\ run.r \in Rs(u) /\ TextIsLast(run, tr) /\ AllAsked(run)
      /\ dumped \in Seq(Msgs(u)) /\ n \in Nat /\ n + 1 \in Nat /\ wire \in Seq(Events(u))
      /\ Good(u, n, wire, tr)
  BY InvTypes
<1>2. Fresh = n + 1 /\ type \in Kinds(u) /\ id \in Nat
  BY <1>1 DEF Fresh, Types, Kinds
<1>3. /\ run.phase = "tools" /\ run.calling = NoId /\ run.parts < u.maxParts
      /\ dumped' = dumped /\ Emit(<<e>>)
      /\ id = Fresh \/ \E y \in ToSet(tr.activities) : y.id = id /\ y.type = type
      /\ run' = [run EXCEPT !.ids = IF id = Fresh THEN id ELSE @, !.parts = @ + 1,
                            !.plain = @ /\ type # Provider]
  BY DEF ToolShows, Part, MaxParts
<1>4. q = [run EXCEPT !.ids = ii, !.parts = pp, !.plain = pl] /\ ii \in Nat /\ pl \in BOOLEAN
  BY <1>1, <1>2, <1>3
<1>5. pp \in 0 .. u.maxParts
  BY <1>3, PartsMore
<1>6. e \in Snapping(u) \union Changing(u) /\ e \in Events(u) /\ e.id = id /\ e.type = type
  <2>1. CASE event = "snapshot" /\ content \in Contents
    <3>1. e \in Snapping(u)
      BY <1>2, <2>1 DEF Snapping, Contents
    <3>2. QED BY <3>1 DEF Events
  <2>2. CASE event = "delta" /\ content = Nothing /\ replace = TRUE
    <3>1. e \in Changing(u)
      BY <1>2, <2>2 DEF Changing
    <3>2. QED BY <3>1 DEF Events
  <2>3. QED BY <2>1, <2>2
<1> HIDE DEF pp, q, ii, pl, e
<1>7. /\ q \in Runs(u) /\ q.calling = NoId /\ q.phase = "tools" /\ q.r = run.r /\ q.ids = ii
      /\ q.asked = run.asked /\ q.waiting = run.waiting /\ q.got = run.got
  BY <1>1, <1>3, <1>4, <1>5 DEF Runs
<1>8. Goes(u, ii, wire, tr) /\ e.id \in 1 .. ii
  <2>1. Goes(u, n, wire, tr) /\ Goes(u, n + 1, wire, tr)
    BY GoesNot, GoesFurther
  <2>2. CASE id = Fresh
    BY <1>1, <1>2, <1>6, <2>1, <2>2 DEF ii
  <2>3. CASE id # Fresh
    <3>1. id \in 1 .. n
      BY <1>1, <1>2, <2>3
    <3>2. QED BY <1>6, <2>1, <2>3, <3>1 DEF ii
  <2>4. QED BY <2>2, <2>3
<1>9. \A x \in ToSet(tr.activities) : x.id = e.id => x.type = e.type
  <2>1. CASE id = Fresh
    BY <1>2, <1>6, <2>1, FreshIsNew
  <2>2. CASE \E y \in ToSet(tr.activities) : y.id = id /\ y.type = type
    BY <1>1, <1>6, <2>2 DEF Good, OneType
  <2>3. QED BY <1>3, <2>1, <2>2
<1>10. Goes(u, ii, wire', tr')
  <2>1. wire' = Append(wire, e) /\ tr' = Add(tr, e)
    BY <1>1, <1>3, <1>6, EmitsOne
  <2>2. QED BY <1>6, <1>8, <1>9, <2>1, GoesSnapping
<1>11. TextIsLast(q, tr')
  BY <1>1, <1>3, <1>7 DEF TextIsLast
<1>12. AllAsked(q)
  BY <1>1, <1>3, <1>7 DEF AllAsked
<1>13. QED BY <1>1, <1>3, <1>7, <1>10, <1>11, <1>12, InvGoes DEF q

\* What was finished stays, but for one.
Stay(f, g, c) == \A d \in DOMAIN f : d # c => g[d] = f[d]

LEMMA FinishedIs ==
    ASSUME NEW u, NEW f \in Gots(u), NEW c \in u.calls, NEW x \in Went(u)
    PROVE  /\ Finished(f, c, x) \in Gots(u) /\ DOMAIN Finished(f, c, x) = DOMAIN f \union {c}
           /\ Finished(f, c, x)[c] = x
           /\ Stay(f, Finished(f, c, x), c)
<1>1. PICK D \in SUBSET u.calls : f \in [D -> Went(u)]
  BY DEF Gots
<1>2. Finished(f, c, x) \in [D \union {c} -> Went(u)] /\ D \union {c} \in SUBSET u.calls
  BY <1>1 DEF Finished
<1>3. Finished(f, c, x) \in Gots(u)
  BY <1>2 DEF Gots
<1>4. QED BY <1>3 DEF Finished, Stay

LEMMA GotIs ==
    ASSUME NEW u, NEW f \in Gots(u), NEW d \in DOMAIN f
    PROVE  f[d] \in Went(u)
<1>1. PICK D \in SUBSET u.calls : f \in [D -> Went(u)]
  BY DEF Gots
<1>2. QED BY <1>1

LEMMA AnswersAre ==
    ASSUME NEW u, NEW asked \in Seq(u.calls), NEW got \in Gots(u), ToSet(asked) \subseteq DOMAIN got
    PROVE  /\ Answers(asked, got) \in Seq(Telling(u)) /\ DOMAIN Answers(asked, got) = DOMAIN asked
           /\ Answers(asked, got) \in Seq(Msgs(u))
<1> DEFINE n == Len(asked)
           s == Answers(asked, got)
<1>1. n \in Nat /\ DOMAIN asked = 1 .. n /\ \A i \in 1 .. n : asked[i] \in u.calls /\ asked[i] \in DOMAIN got
  BY LenProperties, ElementOfSeq DEF ToSet
<1>2. \A i \in 1 .. n : got[asked[i]] \in Went(u)
  BY <1>1, GotIs
<1>3. DOMAIN s = 1 .. n
  BY <1>1 DEF Answers
<1>4. ASSUME NEW i \in 1 .. n PROVE s[i] \in Telling(u)
  <2> DEFINE c == asked[i]
             g == got[c]
  <2>1. g \in Went(u) /\ c \in u.calls
    BY <1>1, <1>2
  <2>2. s[i] = [kind |-> "tool", call |-> c, of |-> {g.id}, went |-> g.went]
    BY <1>1 DEF Answers
  <2> HIDE DEF g, c, s
  <2>3. QED BY <2>1, <2>2 DEF Went, Telling
<1>5. s \in [1 .. n -> Telling(u)]
  BY <1>1, <1>3, <1>4 DEF Answers
<1>6. s \in Seq(Telling(u))
  BY <1>1, <1>5, SeqDef
<1>7. \A x \in Telling(u) : x \in Msgs(u)
  BY DEF Msgs
<1>8. s \in [1 .. n -> Msgs(u)]
  BY <1>5, <1>7
<1>9. s \in Seq(Msgs(u))
  BY <1>1, <1>8, SeqDef
<1>10. QED BY <1>1, <1>3, <1>6, <1>9

LEMMA HandedIs ==
    ASSUME NEW u, NEW asked \in Seq(u.calls), NEW got \in Gots(u), ToSet(asked) \subseteq DOMAIN got
    PROVE  Handed(asked, got) \in Seq(Msgs(u)) /\ \A m \in ToSet(Handed(asked, got)) : m \in Handing(u)
<1> DEFINE handed == UNION {got[d].parts : d \in ToSet(asked)}
           m == [kind |-> "user", parts |-> handed]
<1>1. handed \in SUBSET UNION u.files
  <2> SUFFICES ASSUME NEW d \in ToSet(asked) PROVE got[d].parts \subseteq UNION u.files
    OBVIOUS
  <2>1. got[d] \in Went(u)
    BY GotIs
  <2>2. got[d].parts \in u.files
    BY <2>1 DEF Went
  <2>3. QED BY <2>2
<1>2. Handed(asked, got) = IF handed = {} THEN <<>> ELSE <<m>>
  BY DEF Handed
<1> HIDE DEF handed
<1>3. m \in Handing(u)
  BY <1>1 DEF Handing
<1>4. m \in Msgs(u)
  BY <1>3 DEF Msgs
<1> HIDE DEF m
<1>5. <<m>> \in Seq(Msgs(u)) /\ <<>> \in Seq(Msgs(u)) /\ ToSet(<<m>>) = {m} /\ ToSet(<<>>) = {}
  BY <1>4, EmptySeq, AloneIs, AmongNone, AmongOne
<1>6. CASE handed = {}
  BY <1>2, <1>5, <1>6
<1>7. CASE handed # {}
  BY <1>2, <1>3, <1>5, <1>7
<1>8. QED BY <1>6, <1>7

LEMMA ForwardableIs ==
    ASSUME NEW u, NEW outcome \in u.outcomes
    PROVE  Forwardable(outcome) \in Outcomes(u)
BY DEF Forwardable, Outcomes

\* What the tools have finished, with one more.
GotNow(c, outcome, parts) == Finished(run.got, c, [id |-> Fresh, went |-> outcome, parts |-> parts])

LEMMA GotNowIs ==
    ASSUME Inv, NEW c \in run.waiting, NEW outcome \in setup.outcomes, NEW parts \in setup.files,
           run.phase = "tools"
    PROVE  /\ c \in setup.calls /\ run.asked \in Seq(setup.calls)
           /\ [id |-> Fresh, went |-> outcome, parts |-> parts] \in Went(setup)
           /\ GotNow(c, outcome, parts) \in Gots(setup)
           /\ DOMAIN GotNow(c, outcome, parts) = DOMAIN run.got \union {c}
           /\ GotNow(c, outcome, parts)[c] = [id |-> Fresh, went |-> outcome, parts |-> parts]
           /\ Stay(run.got, GotNow(c, outcome, parts), c)
           /\ ToSet(run.asked) \ (run.waiting \ {c}) \subseteq DOMAIN GotNow(c, outcome, parts)
<1> DEFINE x == [id |-> Fresh, went |-> outcome, parts |-> parts]
<1>1. run \in Runs(setup) /\ AllAsked(run) /\ run.ids + 1 \in Nat
  BY InvTypes
<1>2. c \in setup.calls /\ run.got \in Gots(setup) /\ run.asked \in Seq(setup.calls)
  BY <1>1 DEF Runs
<1>3. x \in Went(setup)
  BY <1>1 DEF Went, Fresh
<1> HIDE DEF x
<1>4. /\ Finished(run.got, c, x) \in Gots(setup) /\ DOMAIN Finished(run.got, c, x) = DOMAIN run.got \union {c}
      /\ Finished(run.got, c, x)[c] = x
      /\ Stay(run.got, Finished(run.got, c, x), c)
  BY <1>2, <1>3, FinishedIs
<1>5. ToSet(run.asked) \ run.waiting \subseteq DOMAIN run.got
  BY <1>1 DEF AllAsked
<1>6. QED BY <1>2, <1>3, <1>4, <1>5 DEF GotNow, x

LEMMA AnswerKeeps ==
    ASSUME Inv, UNCHANGED setup, NEW c \in run.waiting, NEW outcome \in setup.outcomes,
           NEW parts \in setup.files, Answer(c, outcome, parts)
    PROVE  Inv'
<1> DEFINE u == setup
           n == run.ids
           q == run'
           got == GotNow(c, outcome, parts)
           left == run.waiting \ {c}
           to == IF left = {} THEN "respond" ELSE "tools"
           open == IF left = {} THEN <<>> ELSE run.asked
           e == [event |-> "result", id |-> Fresh, call |-> c, outcome |-> Forwardable(outcome)]
<1>1. /\ u \in Setups /\ run \in Runs(u) /\ run.r \in Rs(u) /\ TextIsLast(run, tr) /\ AllAsked(run)
      /\ dumped \in Seq(Msgs(u)) /\ n \in Nat /\ n + 1 \in Nat /\ wire \in Seq(Events(u))
      /\ CallPends(u, wire, run, tr)
  BY InvTypes
<1>2. /\ run.phase = "tools" /\ Emit(<<e>>)
      /\ run' = [run EXCEPT !.waiting = left, !.got = got, !.ids = Fresh,
                             !.phase = IF left = {} THEN "respond" ELSE @,
                             !.asked = IF left = {} THEN <<>> ELSE @]
      /\ dumped' = IF left # {} THEN dumped ELSE dumped \o Answers(run.asked, got) \o Handed(run.asked, got)
  BY DEF Answer, GotNow
<1>3. /\ c \in u.calls /\ run.asked \in Seq(u.calls) /\ got \in Gots(u)
      /\ ToSet(run.asked) \ left \subseteq DOMAIN got
  BY <1>2, GotNowIs
<1>4. run.calling = NoId
  BY <1>1, <1>2 DEF CallPends
<1>5. q = [run EXCEPT !.waiting = left, !.got = got, !.ids = n + 1, !.phase = to, !.asked = open]
  BY <1>2 DEF Fresh
<1>6. left \in SUBSET u.calls /\ to \in {"respond", "tools"} /\ open \in Seq(u.calls)
  BY <1>1, <1>3, EmptySeq DEF Runs
<1>7. e \in Resulting(u) /\ e \in Events(u)
  <2>1. e \in Resulting(u)
    BY <1>1, <1>3, ForwardableIs DEF Resulting, Fresh
  <2>2. QED BY <2>1 DEF Events
<1>8. dumped' \in Seq(Msgs(u))
  <2>1. CASE left # {}
    BY <1>1, <1>2, <2>1
  <2>2. CASE left = {}
    <3> DEFINE A == Answers(run.asked, got)
               H == Handed(run.asked, got)
    <3>1. ToSet(run.asked) \subseteq DOMAIN got
      BY <1>3, <2>2
    <3> HIDE DEF got
    <3>2. A \in Seq(Msgs(u)) /\ H \in Seq(Msgs(u))
      BY <1>3, <3>1, AnswersAre, HandedIs
    <3>3. dumped' = dumped \o A \o H
      BY <1>2, <2>2
    <3> HIDE DEF A, H
    <3>4. QED BY <1>1, <3>2, <3>3, ConcatProperties
  <2>3. QED BY <2>1, <2>2
<1>9. to = "respond" => left = {} /\ open = <<>>
  OBVIOUS
<1>10. to = "tools" => open = run.asked
  OBVIOUS
<1>11. left \subseteq ToSet(open)
  <2>1. run.waiting \subseteq ToSet(run.asked)
    BY <1>1 DEF AllAsked
  <2>2. QED BY <2>1
<1> HIDE DEF q, got, left, to, open, e
<1>12. /\ q \in Runs(u) /\ q.calling = NoId /\ q.phase = to /\ q.r = run.r /\ q.ids = n + 1
       /\ q.asked = open /\ q.waiting = left /\ q.got = got
  BY <1>1, <1>3, <1>4, <1>5, <1>6 DEF Runs
<1>13. Goes(u, n + 1, wire', tr')
  <2>1. Goes(u, n + 1, wire, tr)
    BY GoesNot, GoesFurther
  <2>2. wire' = Append(wire, e) /\ tr' = Add(tr, e)
    BY <1>1, <1>2, <1>7, EmitsOne
  <2>3. QED BY <1>7, <2>1, <2>2, GoesResulting
<1>14. TextIsLast(q, tr')
  <2>1. run.r = Response
    BY <1>1, <1>2 DEF TextIsLast
  <2>2. Response.text = NoId /\ Response.last = "none"
    BY DEF Response
  <2>3. QED BY <1>12, <2>1, <2>2 DEF TextIsLast
<1>15. AllAsked(q)
  <2>1. ToSet(<<>>) = {}
    BY AmongNone
  <2>2. QED BY <1>3, <1>6, <1>9, <1>10, <1>11, <1>12, <2>1 DEF AllAsked
<1>16. QED BY <1>8, <1>4, <1>12, <1>13, <1>14, <1>15, InvGoes DEF q

\* A call has started, its parent's draft there and last.
Started(u, w, t, c, parent) ==
    /\ DOMAIN t.pending = {c} /\ t.pending[c] = parent /\ Called(w, c) /\ AllCalled(u, w, t)
    /\ parent # NoId => DraftLast(t.items, parent)
    /\ parent = NoId /\ DraftOf(t.items, c) => Repeats(w)

LEMMA StartingKeeps ==
    ASSUME Inv, run.calling = NoId, NEW n, NEW w, NEW t, Goes(setup, n, w, t),
           NEW e \in Starting(setup), e.parent # NoId => DraftLast(t.items, e.parent)
    PROVE  /\ Good(setup, n, Append(w, e), Add(t, e))
           /\ Started(setup, Append(w, e), Add(t, e), e.call, e.parent)
<1> DEFINE u == setup
           v == Append(w, e)
           s == Add(t, e)
           of == [c \in DOMAIN t.pending \union {e.call} |-> IF c = e.call THEN e.parent ELSE t.pending[c]]
<1>1. /\ u \in Setups /\ Good(u, n, w, t) /\ CallPends(u, wire, run, tr) /\ AllCalled(u, wire, tr)
      /\ w \in Seq(Events(u)) /\ t \in Trs(u) /\ t.items \in Seq(Items(u))
  BY InvTypes, GoodTypes DEF Goes
<1>2. e.event = "call_start" /\ e.call \in u.calls /\ e \in Events(u)
  BY DEF Starting, Events
<1>3. e.parent = NoId \/ DraftOf(t.items, e.parent)
  <2>1. ASSUME DraftLast(t.items, e.parent) PROVE DraftOf(t.items, e.parent)
    <3>1. t.items # <<>>
      BY <2>1 DEF DraftLast
    <3>2. Len(t.items) \in DOMAIN t.items
      BY <1>1, <3>1, LenProperties, EmptySeq
    <3>3. QED BY <2>1, <3>2 DEF DraftOf, DraftLast, ToSet
  <2>2. QED BY <2>1
<1>4. Good(u, n, v, s) /\ s.items = t.items /\ s.pending = of
  BY <1>1, <1>3, GoodStarting
<1>5. DOMAIN t.pending = {}
  BY <1>1 DEF CallPends, Goes
<1>6. DOMAIN of = {e.call} /\ of[e.call] = e.parent
  BY <1>5
<1>7. (\A c : Called(w, c) => Called(v, c)) /\ Called(v, e.call)
  BY <1>1, <1>2, CalledMore
<1>8. /\ \A c \in u.calls : DraftOf(t.items, c) => Called(w, c)
      /\ \A c \in u.calls : DraftOf(t.items, c) => Called(v, c)
  BY <1>1, <1>7 DEF AllCalled, Goes
<1>9. DraftOf(t.items, e.call) => Repeats(v)
  BY <1>1, <1>2, <1>8, RepeatsMore DEF Called
<1> HIDE DEF u, v, s, of
<1>10. AllCalled(u, v, s)
  BY <1>4, <1>8 DEF AllCalled
<1>11. Started(u, v, s, e.call, e.parent)
  BY <1>4, <1>6, <1>7, <1>9, <1>10 DEF Started
<1>12. QED BY <1>4, <1>11 DEF u, v, s

LEMMA CallStartsKeeps ==
    ASSUME Inv, UNCHANGED setup, NEW c \in Calls, CallStarts(c)
    PROVE  Inv'
<1> DEFINE u == setup
           n == run.ids
           q == run'
           opens == run.r.text = NoId /\ ~u.parentless
           parent == IF opens THEN Fresh ELSE run.r.text
           rr == [run.r EXCEPT !.text = parent]
           ii == IF opens THEN parent ELSE n
           pp == run.parts + 1
           pl == run.plain /\ (run.r.open \/ run.r.calls # <<>> \/ opens)
           open == [event |-> "text_start", id |-> parent]
           e == [event |-> "call_start", call |-> c, parent |-> parent]
<1>1. /\ u \in Setups /\ run \in Runs(u) /\ run.r \in Rs(u) /\ TextIsLast(run, tr) /\ AllAsked(run)
      /\ dumped \in Seq(Msgs(u)) /\ n \in Nat /\ n + 1 \in Nat /\ wire \in Seq(Events(u))
      /\ n + 1 # NoId /\ AllCalled(u, wire, tr)
  BY InvTypes
<1>2. Fresh = n + 1 /\ c \in u.calls /\ c # NoId
  BY <1>1, SetupIs DEF Fresh, Calls, NoId
<1>3. /\ run.phase = "respond" /\ run.calling = NoId /\ run.parts < u.maxParts /\ dumped' = dumped
      /\ run' = [run EXCEPT !.calling = c, !.r.text = parent, !.ids = IF opens THEN parent ELSE @,
                             !.parts = @ + 1,
                             !.plain = @ /\ (run.r.open \/ run.r.calls # <<>> \/ opens)]
  BY DEF CallStarts, Part, MaxParts, Parentless
<1>4. Emit((IF opens THEN <<open>> ELSE <<>>) \o <<e>>)
  BY DEF CallStarts, Parentless
<1>5. parent \in Nat /\ (opens => parent = n + 1) /\ (~opens => parent = run.r.text)
  BY <1>1, <1>2 DEF Rs
<1>6. rr \in Rs(u) /\ rr.text = parent /\ rr.last = run.r.last
  <2> HIDE DEF parent
  <2>1. QED BY <1>1, <1>5 DEF Rs
<1>7. q = [run EXCEPT !.calling = c, !.r = rr, !.ids = ii, !.parts = pp, !.plain = pl]
  <2> HIDE DEF parent, opens
  <2>1. QED BY <1>3
<1>8. pp \in 0 .. u.maxParts
  BY <1>3, PartsMore
<1>9. ii \in Nat /\ pl \in BOOLEAN
  BY <1>1, <1>5
<1>10. e \in Starting(u) /\ e \in Events(u) /\ e.parent = parent /\ e.call = c
  <2>1. e \in Starting(u)
    BY <1>2, <1>5 DEF Starting
  <2>2. QED BY <2>1 DEF Events
<1>11. open \in Opening /\ open \in Events(u) /\ open.id = parent
  <2>1. open \in Opening
    BY <1>5 DEF Opening
  <2>2. QED BY <2>1 DEF Events
<1>12. parent = NoId => u.parentless
  BY <1>1, <1>2
<1>13. run.r.text # NoId => parent = run.r.text /\ ~opens
  OBVIOUS
<1> HIDE DEF q, parent, rr, pp, pl, open, e
<1>14. /\ q \in Runs(u) /\ q.calling = c /\ q.phase = "respond" /\ q.r = rr /\ q.ids = ii
       /\ q.asked = run.asked /\ q.waiting = run.waiting /\ q.got = run.got
  <2> HIDE DEF ii
  <2>1. QED BY <1>1, <1>2, <1>3, <1>6, <1>7, <1>8, <1>9 DEF Runs
<1>15. Good(u, ii, wire', tr') /\ Started(u, wire', tr', c, parent)
  <2>1. Goes(u, n, wire, tr)
    BY GoesNot
  <2>2. CASE ~opens
    <3>1. Emit(<<e>>)
      <4>1. <<>> \o <<e>> = <<e>>
        OBVIOUS
      <4>2. QED BY <1>4, <2>2, <4>1
    <3>2. wire' = Append(wire, e) /\ tr' = Add(tr, e)
      BY <1>1, <1>10, <3>1, EmitsOne
    <3>3. parent # NoId => DraftLast(tr.items, parent)
      BY <1>1, <1>3, <1>5, <2>2 DEF TextIsLast
    <3>4. QED BY <1>3, <1>10, <2>1, <2>2, <3>2, <3>3, StartingKeeps
  <2>3. CASE opens
    <3> DEFINE w == Append(wire, open)
               t == Add(tr, open)
    <3>1. Emit(<<open, e>>)
      <4>1. <<open>> \o <<e>> = <<open, e>>
        BY PairIs
      <4>2. QED BY <1>4, <2>3, <4>1
    <3>2. wire' = Append(w, e) /\ tr' = Add(t, e)
      BY <1>1, <1>10, <1>11, <3>1, EmitsTwo
    <3>3. open.id = n + 1 /\ ii = n + 1
      BY <1>5, <1>11, <2>3
    <3>4. Goes(u, n + 1, w, t) /\ DraftLast(t.items, parent)
      BY <1>11, <2>1, <3>3, GoesOpening
    <3> HIDE DEF w, t
    <3>5. Good(u, n + 1, Append(w, e), Add(t, e)) /\ Started(u, Append(w, e), Add(t, e), c, parent)
      BY <1>3, <1>10, <3>4, StartingKeeps
    <3>6. QED BY <3>2, <3>3, <3>5
  <2>4. QED BY <2>2, <2>3
<1>16. CallPends(u, wire', q, tr')
  BY <1>2, <1>6, <1>12, <1>14, <1>15 DEF CallPends, Started
<1>17. TextIsLast(q, tr')
  BY <1>1, <1>3, <1>6, <1>13, <1>14, <1>15 DEF TextIsLast, Started
<1>18. AllAsked(q)
  BY <1>1, <1>3, <1>14 DEF AllAsked
<1>19. AllCalled(u, wire', tr')
  BY <1>15 DEF Started
<1>20. dumped' \in Seq(Msgs(u)) /\ u' = u /\ u \in Setups
  BY <1>1, <1>3
<1>21. QED BY <1>14, <1>15, <1>16, <1>17, <1>18, <1>19, <1>20 DEF Inv, Fits, q

\* A call has ended, under the draft of an id.
Ended(u, n, w, e, t, s, id) ==
    /\ Good(u, n, Append(w, e), s) /\ DOMAIN s.pending = DOMAIN t.pending \ {e.call}
    /\ \A x : DraftOf(s.items, x) => DraftOf(t.items, x) \/ x = e.call
    /\ id # NoId => DraftLast(s.items, id)

LEMMA EndsLast ==
    ASSUME NEW u \in Setups, NEW n, NEW w, NEW t, Good(u, n, w, t), NEW e \in Ending(u),
           NEW id, id = t.pending[e.call], id # NoId, DraftLast(t.items, id)
    PROVE  Ended(u, n, w, e, t, Add(t, e), id)
<1>1. t.pending[e.call] # NoId /\ DraftLast(t.items, t.pending[e.call])
  OBVIOUS
<1>2. /\ Good(u, n, Append(w, e), Add(t, e))
      /\ Add(t, e).pending = [c \in DOMAIN t.pending \ {e.call} |-> t.pending[c]]
      /\ \A x : DraftOf(Add(t, e).items, x) <=> DraftOf(t.items, x)
      /\ \A x : DraftLast(t.items, x) => DraftLast(Add(t, e).items, x)
  BY <1>1, GoodEndingLast
<1>3. QED BY <1>2 DEF Ended

LEMMA EndsAlone ==
    ASSUME NEW u \in Setups, NEW n, NEW w, NEW t, Good(u, n, w, t), NEW e \in Ending(u),
           NEW id, id = t.pending[e.call], id = NoId,
           DraftOf(t.items, e.call) => u.parentless /\ Repeats(w)
    PROVE  Ended(u, n, w, e, t, Add(t, e), id)
<1>1. t.pending[e.call] = NoId
  OBVIOUS
<1>2. /\ Good(u, n, Append(w, e), Add(t, e))
      /\ Add(t, e).pending = [c \in DOMAIN t.pending \ {e.call} |-> t.pending[c]]
      /\ \A x : DraftOf(Add(t, e).items, x) <=> DraftOf(t.items, x) \/ x = e.call
  BY <1>1, GoodEndingAlone
<1>3. QED BY <1>2 DEF Ended

LEMMA CallEndsKeeps ==
    ASSUME Inv, UNCHANGED setup, CallEnds
    PROVE  Inv'
<1> DEFINE u == setup
           n == run.ids
           c == run.calling
           q == run'
           asked == Append(run.asked, c)
           waiting == run.waiting \union {c}
           calls == Append(run.r.calls, c)
           from == run.r.from \union {run.r.text}
           rr == [run.r EXCEPT !.last = "call", !.calls = calls, !.from = from]
           e == [event |-> "call_end", call |-> c]
<1>1. /\ u \in Setups /\ run \in Runs(u) /\ run.r \in Rs(u) /\ TextIsLast(run, tr) /\ AllAsked(run)
      /\ dumped \in Seq(Msgs(u)) /\ n \in Nat /\ wire \in Seq(Events(u))
      /\ Good(u, n, wire, tr) /\ CallPends(u, wire, run, tr) /\ AllCalled(u, wire, tr)
  BY InvTypes
<1>2. /\ run.phase = "respond" /\ c # NoId /\ dumped' = dumped /\ Emit(<<e>>)
      /\ run' = [run EXCEPT !.calling = NoId, !.waiting = @ \union {c}, !.asked = Append(@, c),
                             !.r.last = "call", !.r.calls = Append(@, c),
                             !.r.from = @ \union {run.r.text}]
  BY DEF CallEnds
<1>3. c \in u.calls
  BY <1>1, <1>2 DEF Runs
<1>4. q = [run EXCEPT !.calling = NoId, !.waiting = waiting, !.asked = asked, !.r = rr]
  BY <1>2
<1>5. calls \in Seq(u.calls) /\ from \in SUBSET Nat
  BY <1>1, <1>3, AppendProperties DEF Rs
<1>6. rr \in Rs(u) /\ rr.text = run.r.text /\ rr.last = "call"
  <2> HIDE DEF calls, from
  <2>1. QED BY <1>1, <1>5 DEF Rs
<1>7. asked \in Seq(u.calls) /\ waiting \in SUBSET u.calls /\ ToSet(asked) = ToSet(run.asked) \union {c}
  <2>1. run.asked \in Seq(u.calls) /\ run.waiting \in SUBSET u.calls
    BY <1>1 DEF Runs
  <2>2. asked \in Seq(u.calls)
    BY <1>3, <2>1, AppendProperties
  <2>3. ToSet(asked) = ToSet(run.asked) \union {c}
    <3> DEFINE s == run.asked
               S == u.calls
    <3>1. s \in Seq(S) /\ c \in S
      BY <1>3, <2>1
    <3> HIDE DEF s, S, c
    <3>2. ToSet(Append(s, c)) = ToSet(s) \union {c}
      BY <3>1, AmongMore
    <3>3. QED BY <3>2 DEF s
  <2>4. waiting \in SUBSET u.calls
    BY <1>3, <2>1
  <2>5. QED BY <2>2, <2>3, <2>4
<1>8. e \in Ending(u) /\ e \in Events(u) /\ e.call = c /\ e.event = "call_end"
  <2>1. e \in Ending(u)
    BY <1>3 DEF Ending
  <2>2. QED BY <2>1 DEF Events
<1>9. /\ DOMAIN tr.pending = {c} /\ tr.pending[c] = run.r.text /\ Called(wire, c)
      /\ run.r.text = NoId => u.parentless /\ (DraftOf(tr.items, c) => Repeats(wire))
  BY <1>1, <1>2 DEF CallPends
<1>10. run.r.text # NoId => DraftLast(tr.items, run.r.text)
  BY <1>1, <1>2 DEF TextIsLast
<1> HIDE DEF q, asked, waiting, rr, e, c
<1>11. /\ q \in Runs(u) /\ q.calling = NoId /\ q.phase = "respond" /\ q.r = rr /\ q.ids = n
       /\ q.asked = asked /\ q.waiting = waiting /\ q.got = run.got
  BY <1>1, <1>2, <1>4, <1>6, <1>7 DEF Runs
<1>12. wire' = Append(wire, e) /\ tr' = Add(tr, e)
  BY <1>1, <1>2, <1>8, EmitsOne
<1>13. Ended(u, n, wire, e, tr, Add(tr, e), run.r.text)
  <2> DEFINE p == run.r.text
  <2>1. p = tr.pending[e.call]
    BY <1>8, <1>9
  <2> HIDE DEF p
  <2>2. CASE p # NoId
    <3>1. DraftLast(tr.items, p)
      BY <1>10, <2>2 DEF p
    <3>2. QED BY <1>1, <1>8, <2>1, <2>2, <3>1, EndsLast DEF p
  <2>3. CASE p = NoId
    <3>1. DraftOf(tr.items, e.call) => u.parentless /\ Repeats(wire)
      BY <1>8, <1>9, <2>3 DEF p
    <3>2. QED BY <1>1, <1>8, <2>1, <2>3, <3>1, EndsAlone DEF p
  <2>4. QED BY <2>2, <2>3
<1>14. /\ Good(u, n, wire', tr') /\ DOMAIN tr'.pending = {}
       /\ \A id : DraftOf(tr'.items, id) => DraftOf(tr.items, id) \/ id = c
       /\ run.r.text # NoId => DraftLast(tr'.items, run.r.text)
  <2> DEFINE s == Add(tr, e)
  <2>1. Ended(u, n, wire, e, tr, s, run.r.text)
    BY <1>13
  <2> HIDE DEF s
  <2>2. tr' = s
    BY <1>12 DEF s
  <2>3. QED BY <1>8, <1>9, <1>12, <2>1, <2>2 DEF Ended
<1>15. CallPends(u, wire', q, tr')
  BY <1>11, <1>14 DEF CallPends
<1>16. \A d : Called(wire, d) => Called(wire', d)
  BY <1>1, <1>8, <1>12, CalledMore
<1>17. AllCalled(u, wire', tr')
  BY <1>1, <1>9, <1>14, <1>16 DEF AllCalled
<1>18. TextIsLast(q, tr')
  BY <1>6, <1>11, <1>14 DEF TextIsLast
<1>19. AllAsked(q)
  BY <1>1, <1>2, <1>7, <1>11 DEF AllAsked, waiting
<1>20. dumped' \in Seq(Msgs(u)) /\ u' = u
  BY <1>1, <1>2
<1>21. QED BY <1>1, <1>11, <1>14, <1>15, <1>17, <1>18, <1>19, <1>20 DEF Inv, Fits, q

LEMMA InvAtFirst ==
    ASSUME Init
    PROVE  Inv
<1> DEFINE u == setup
           none == <<>>
           q == [phase |-> "respond", r |-> Response, calling |-> NoId, asked |-> <<>>,
                 waiting |-> {}, got |-> none, ids |-> 0, parts |-> 0, plain |-> TRUE]
<1>1. u \in Setups /\ wire = none /\ dumped = none /\ tr = Empty /\ run = q
  BY DEF Init
<1>2. Good(u, 0, none, Empty) /\ Empty.pending = none /\ \A id : ~DraftOf(Empty.items, id)
  BY GoodEmpty
<1>3. \A S : none \in Seq(S)
  BY EmptySeq
<1>4. ToSet(none) = {} /\ DOMAIN none = {}
  BY AmongNone, EmptySeq
<1>5. none \in Gots(u)
  <2>1. none \in [{} -> Went(u)]
    BY <1>4
  <2>2. QED BY <2>1 DEF Gots
<1>6. 0 \in 0 .. u.maxParts
  BY <1>1, TranscriptAssumption
<1>7. q \in Runs(u) /\ q.phase = "respond" /\ q.r = Response /\ q.calling = NoId /\ q.asked = none
      /\ q.waiting = {} /\ q.ids = 0
  <2> HIDE DEF none
  <2>1. none \in Seq(u.calls)
    BY <1>3
  <2>2. QED BY <1>3, <1>5, <1>6, <2>1, ResponseIs DEF Runs, none
<1> HIDE DEF q, none
<1>8. CallPends(u, none, q, Empty)
  BY <1>2, <1>4, <1>7 DEF CallPends
<1>9. TextIsLast(q, Empty)
  <2>1. Response.text = NoId /\ Response.last = "none"
    BY DEF Response
  <2>2. QED BY <1>7, <2>1 DEF TextIsLast
<1>10. AllCalled(u, none, Empty)
  BY <1>2 DEF AllCalled
<1>11. AllAsked(q)
  BY <1>4, <1>7 DEF AllAsked
<1>12. QED BY <1>1, <1>2, <1>3, <1>7, <1>8, <1>9, <1>10, <1>11 DEF Inv, Fits

(* Every step of a run keeps its transcript good.                          *)
LEMMA InvIsKept ==
    ASSUME Inv, [Next]_vars
    PROVE  Inv'
<1>1. CASE UNCHANGED vars
  BY <1>1 DEF vars, Inv
<1>2. CASE Next
  <2>1. UNCHANGED setup
    BY <1>2 DEF Next
  <2>2. ASSUME NEW x \in Say, TextPart(x) \/ ThinkingPart(x) PROVE Inv'
    BY <2>1, <2>2, TextKeeps, ThinkingKeeps
  <2>3. ASSUME FilePart PROVE Inv'
    BY <2>1, <2>3, FileKeeps
  <2>4. ASSUME NEW content \in Contents, CompactionPart(content) PROVE Inv'
    BY <2>1, <2>4, CompactionKeeps
  <2>5. ASSUME NEW c \in Calls, CallStarts(c) PROVE Inv'
    BY <2>1, <2>5, CallStartsKeeps
  <2>6. ASSUME NEW c \in run.waiting, NEW outcome \in setup.outcomes, NEW parts \in setup.files,
               Answer(c, outcome, parts)
        PROVE  Inv'
    BY <2>1, <2>6, AnswerKeeps
  <2>7. ASSUME CallEnds PROVE Inv'
    BY <2>1, <2>7, CallEndsKeeps
  <2>8. ASSUME ResponseEnds PROVE Inv'
    BY <2>1, <2>8, ResponseEndKeeps
  <2>9. ASSUME NEW x \in Say \ {Nothing}, ToolSpeaks(x) PROVE Inv'
    BY <2>1, <2>9, SpeechKeeps
  <2>10. ASSUME NEW type \in Types, NEW id \in 1 .. Fresh, NEW content \in Contents,
                NEW replace \in BOOLEAN, ToolShows("snapshot", id, type, content, replace)
         PROVE  Inv'
    BY <2>1, <2>10, ShowKeeps
  <2>11. ASSUME NEW type \in Types, NEW id \in 1 .. Fresh, ToolShows("delta", id, type, Nothing, TRUE)
         PROVE  Inv'
    BY <2>1, <2>11, ShowKeeps
  <2>12. ASSUME Over PROVE Inv'
    BY <2>12 DEF Over, vars, Inv
  <2>13. QED BY <1>2, <2>2, <2>3, <2>4, <2>5, <2>6, <2>7, <2>8, <2>9, <2>10, <2>11, <2>12 DEF Next
<1>3. QED BY <1>1, <1>2

(* Whatever a run does, its transcript stays good.                         *)
LEMMA TranscriptIsGood == MCSpec => []Inv
<1>1. MCInit => Inv
  BY InvAtFirst DEF MCInit
<1>2. Inv /\ [MCNext]_<<part, vars, threadVars>> => Inv'
  <2> SUFFICES ASSUME Inv, [MCNext]_<<part, vars, threadVars>> PROVE Inv'
    OBVIOUS
  <2>1. [Next]_vars
    BY DEF MCNext
  <2>2. QED BY <2>1, InvIsKept
<1>3. QED BY <1>1, <1>2, PTL DEF MCSpec

-----------------------------------------------------------------------------
(* What the properties read off the wire and the items, in the words of    *)
(* the invariant.                                                          *)

LEMMA WireTextIs ==
    ASSUME Inv, NEW type \in {"text", "reasoning"}, NEW id
    PROVE  WireText(type, id) = Said(setup, wire, type, id)
<1> DEFINE g == Speaker(setup, type, id)
<1>1. wire \in Seq(Events(setup))
  BY InvTypes
<1>2. \A i \in DOMAIN wire : wire[i] \in Events(setup)
  BY <1>1, ElementOfSeq, LenProperties
<1>3. \A i \in DOMAIN wire :
         g[wire[i]] = IF wire[i].event = type /\ wire[i].id = id THEN wire[i].text ELSE Nothing
  BY <1>2 DEF Speaker, Nothing
<1> HIDE DEF g
<1>4. Mapped(wire, g) = [i \in DOMAIN wire |->
                           IF wire[i].event = type /\ wire[i].id = id THEN wire[i].text ELSE Nothing]
  BY <1>3 DEF Mapped
<1>5. QED BY <1>4 DEF WireText, Said, Spread, g

LEMMA WireCallsIs ==
    ASSUME Inv
    PROVE  WireCalls = CallsMade(setup, wire)
<1> DEFINE g == Caller(setup)
<1>1. wire \in Seq(Events(setup))
  BY InvTypes
<1>2. \A i \in DOMAIN wire : wire[i] \in Events(setup)
  BY <1>1, ElementOfSeq, LenProperties
<1>3. \A i \in DOMAIN wire : g[wire[i]] = IF wire[i].event = "call_end" THEN <<wire[i].call>> ELSE <<>>
  BY <1>2 DEF Caller
<1> HIDE DEF g
<1>4. Mapped(wire, g) = [i \in DOMAIN wire |-> IF wire[i].event = "call_end" THEN <<wire[i].call>> ELSE <<>>]
  BY <1>3 DEF Mapped
<1>5. QED BY <1>4 DEF WireCalls, CallsMade, Spread, g

LEMMA WireTrailIs ==
    ASSUME Inv
    PROVE  WireTrail = Marks(setup, wire)
<1> DEFINE g == Marker(setup)
<1>1. wire \in Seq(Events(setup))
  BY InvTypes
<1>2. \A i \in DOMAIN wire : wire[i] \in Events(setup)
  BY <1>1, ElementOfSeq, LenProperties
<1>3. \A i \in DOMAIN wire :
         g[wire[i]] = IF wire[i].event = "call_end" THEN <<<<"call", wire[i].call>>>>
                      ELSE IF wire[i].event = "result" THEN <<<<"result", wire[i].call>>>> ELSE <<>>
  BY <1>2 DEF Marker
<1> HIDE DEF g
<1>4. Mapped(wire, g) =
        [i \in DOMAIN wire |->
          IF wire[i].event = "call_end" THEN <<<<"call", wire[i].call>>>>
          ELSE IF wire[i].event = "result" THEN <<<<"result", wire[i].call>>>> ELSE <<>>]
  BY <1>3 DEF Mapped
<1>5. QED BY <1>4 DEF WireTrail, Marks, Spread, g

LEMMA StoredCallsIs ==
    ASSUME NEW u, NEW items \in Seq(Items(u))
    PROVE  StoredCalls(items) = CallsHeld(u, items)
<1> DEFINE g == Holder(u)
<1>1. \A i \in DOMAIN items : items[i] \in Items(u)
  BY ElementOfSeq, LenProperties
<1>2. \A i \in DOMAIN items : g[items[i]] = IF IsDraft(items[i]) THEN items[i].calls ELSE <<>>
  BY <1>1 DEF Holder
<1> HIDE DEF g
<1>3. Mapped(items, g) = [i \in DOMAIN items |-> IF IsDraft(items[i]) THEN items[i].calls ELSE <<>>]
  BY <1>2 DEF Mapped
<1>4. QED BY <1>3 DEF StoredCalls, CallsHeld, Spread, g

LEMMA StoredTrailIs ==
    ASSUME NEW u, NEW items \in Seq(Items(u))
    PROVE  StoredTrail(items) = Trail(u, items)
<1> DEFINE g == Trailer(u)
<1>1. \A i \in DOMAIN items : items[i] \in Items(u)
  BY ElementOfSeq, LenProperties
<1>2. ASSUME NEW x \in Items(u), IsDraft(x)
      PROVE  Mapped(x.calls, CallMark(u)) = [j \in DOMAIN x.calls |-> <<"call", x.calls[j]>>]
  <2>1. x.calls \in Seq(u.calls)
    BY <1>2, ItemIs DEF Drafts
  <2>2. \A j \in DOMAIN x.calls : x.calls[j] \in u.calls
    BY <2>1, ElementOfSeq, LenProperties
  <2>3. QED BY <2>2 DEF Mapped, CallMark
<1>3. \A i \in DOMAIN items :
         g[items[i]] = IF IsDraft(items[i]) THEN [j \in DOMAIN items[i].calls |-> <<"call", items[i].calls[j]>>]
                       ELSE <<<<"result", items[i].call>>>>
  BY <1>1, <1>2 DEF Trailer
<1> HIDE DEF g
<1>4. Mapped(items, g) =
        [i \in DOMAIN items |->
          IF IsDraft(items[i]) THEN [j \in DOMAIN items[i].calls |-> <<"call", items[i].calls[j]>>]
          ELSE <<<<"result", items[i].call>>>>]
  BY <1>3 DEF Mapped
<1>5. QED BY <1>4 DEF StoredTrail, Trail, Spread, g

\* The items worth storing.
Worth(u) == {x \in Items(u) : ~IsDraft(x) \/ x.text # <<>> \/ x.calls # <<>>}

LEMMA MessagesAre ==
    ASSUME Inv
    PROVE  /\ Messages \in Seq(Items(setup))
           /\ Messages = Sift(tr.items, Worth(setup))
           /\ ToSet(Messages) = ToSet(tr.items) \intersect Worth(setup)
<1> DEFINE W == {item \in ToSet(tr.items) : ~IsDraft(item) \/ item.text # Nothing \/ item.calls # <<>>}
           V == Worth(setup)
<1>1. tr.items \in Seq(Items(setup))
  BY InvTypes, GoodTypes
<1>2. \A x \in ToSet(tr.items) : x \in W <=> x \in V
  BY <1>1, AmongType DEF Worth, Nothing
<1>3. Messages = Sift(tr.items, W)
  BY DEF Messages
<1> HIDE DEF W, V
<1>4. Sift(tr.items, W) = Sift(tr.items, V)
  BY <1>2, SiftAlike
<1>5. Sift(tr.items, V) \in Seq(Items(setup)) /\ ToSet(Sift(tr.items, V)) = ToSet(tr.items) \intersect V
  BY <1>1, SiftType, SiftHas
<1>6. QED BY <1>3, <1>4, <1>5 DEF V

(* Drafts that say nothing and call nothing hold nothing of the trail.     *)
LEMMA MessagesHold ==
    ASSUME Inv
    PROVE  /\ CallsHeld(setup, Messages) = CallsHeld(setup, tr.items)
           /\ Trail(setup, Messages) = Trail(setup, tr.items)
<1> DEFINE V == Worth(setup)
           g == Holder(setup)
           h == Trailer(setup)
           S == Items(setup)
<1>1. tr.items \in Seq(S) /\ Messages = Sift(tr.items, V)
  BY InvTypes, GoodTypes, MessagesAre
<1>2. Maps(g, S, Seq(setup.calls)) /\ Maps(h, S, Seq(Mark(setup)))
  BY HolderMaps, TrailerMaps
<1>3. \A x \in S : x \in V \/ (IsDraft(x) /\ x.calls = <<>>)
  BY DEF Worth
<1>4. \A x \in S : x \in V \/ g[x] = <<>>
  BY <1>3 DEF Holder
<1>5. \A x \in S : x \in V \/ h[x] = <<>>
  <2>1. \A x \in S : IsDraft(x) /\ x.calls = <<>> => h[x] = Mapped(<<>>, CallMark(setup))
    BY DEF Trailer
  <2>2. Mapped(<<>>, CallMark(setup)) = <<>>
    BY MappedNone
  <2>3. QED BY <1>3, <2>1, <2>2
<1> HIDE DEF V, g, h, S
<1>6. Spread(Sift(tr.items, V), g) = Spread(tr.items, g)
  BY <1>1, <1>2, <1>4, SpreadSifted
<1>7. Spread(Sift(tr.items, V), h) = Spread(tr.items, h)
  BY <1>1, <1>2, <1>5, SpreadSifted
<1>8. QED BY <1>1, <1>6, <1>7 DEF CallsHeld, Trail, g, h

LEMMA InvTypeOK ==
    ASSUME Inv
    PROVE  TypeOK
<1> DEFINE u == setup
<1>1. /\ u \in Setups /\ run \in Runs(u) /\ CallPends(u, wire, run, tr) /\ AllAsked(run)
      /\ Good(u, run.ids, wire, tr) /\ run.ids \in Nat
  BY InvTypes
<1>2. tr.items \in Seq(Items(u)) /\ tr.activities \in Seq(Activity(u))
  BY <1>1, GoodTypes
<1>3. /\ run.phase \in {"respond", "tools", "done"} /\ run.calling \in Calls \union {NoId}
      /\ run.parts \in 0 .. MaxParts
  BY <1>1 DEF Runs, Calls, MaxParts
<1>4. run.waiting \subseteq ToSet(run.asked)
  BY <1>1 DEF AllAsked
<1>5. ASSUME NEW x \in ToSet(tr.items)
      PROVE  IF IsDraft(x) THEN x.id \in 1 .. run.ids \union Calls ELSE x.call \in Calls
  <2>1. x \in Items(u)
    BY <1>2, <1>5, AmongType
  <2>2. CASE IsDraft(x)
    <3>1. x \in Drafts(u)
      BY <2>1, <2>2, ItemIs
    <3>2. x.id \in 1 .. run.ids \/ x.id \in u.calls
      BY <1>1, <1>5, <3>1 DEF Good, Named
    <3>3. QED BY <2>2, <3>2 DEF Calls
  <2>3. CASE ~IsDraft(x)
    <3>1. x \in Tools(u)
      BY <2>1, <2>3, ItemIs DEF Items
    <3>2. x.call \in u.calls
      BY <3>1 DEF Tools
    <3>3. QED BY <2>3, <3>2 DEF Calls
  <2>4. QED BY <2>2, <2>3
<1>6. DOMAIN tr.pending = {run.calling} \ {NoId}
  BY <1>1 DEF CallPends
<1>7. ASSUME NEW x \in ToSet(tr.activities) PROVE x.content \in Contents \union {Nothing}
  <2>1. x \in Activity(u)
    BY <1>2, <1>7, AmongType
  <2>2. QED BY <2>1 DEF Activity, Inside, Contents
<1>8. QED BY <1>1, <1>3, <1>4, <1>5, <1>6, <1>7 DEF TypeOK

LEMMA InvStores ==
    ASSUME Inv
    PROVE  StoresWhatStreamed
<1> DEFINE u == setup
           stored == Messages
<1>1. Good(u, run.ids, wire, tr) /\ wire \in Seq(Events(u))
  BY InvTypes
<1>2. ItemsGood(u, wire, tr.items) /\ tr.items \in Seq(Items(u))
  BY <1>1, GoodTypes DEF Good
<1>3. /\ stored \in Seq(Items(u)) /\ stored = Sift(tr.items, Worth(u))
      /\ ToSet(stored) = ToSet(tr.items) \intersect Worth(u)
  BY MessagesAre
<1>4. CallsHeld(u, stored) = CallsHeld(u, tr.items) /\ StoredCalls(stored) = CallsHeld(u, stored)
  BY <1>3, MessagesHold, StoredCallsIs
<1>5. ASSUME NEW i \in Shown("text")
      PROVE  \E m \in ToSet(stored) : IsDraft(m) /\ m.id = wire[i].id /\ m.text = WireText("text", m.id)
  <2>1. wire[i] \in ToSet(wire) /\ wire[i].event = "text"
    BY <1>5 DEF Shown, ToSet
  <2>2. PICK x \in ToSet(tr.items) : x \in Drafts(u) /\ x.id = wire[i].id /\ x.text # <<>>
    BY <1>2, <2>1 DEF ItemsGood, TextsHeard
  <2>3. x \in Items(u)
    BY <2>2 DEF Items
  <2>4. IsDraft(x) /\ x \in ToSet(stored)
    BY <1>3, <2>2, <2>3, ItemIs DEF Worth
  <2>5. x.text = Said(u, wire, "text", x.id)
    BY <1>2, <2>2 DEF ItemsGood, DraftsSay
  <2>6. WireText("text", x.id) = Said(u, wire, "text", x.id)
    BY WireTextIs
  <2>7. QED BY <2>2, <2>4, <2>5, <2>6
<1>6. ASSUME NEW i \in DOMAIN stored, NEW j \in DOMAIN stored,
             IsDraft(stored[i]), IsDraft(stored[j]), stored[i].id = stored[j].id
      PROVE  i = j
  <2>1. Apart(stored, DraftId(u))
    BY <1>2, <1>3, ApartSifted DEF ItemsGood
  <2>2. stored[i] \in Items(u) /\ stored[j] \in Items(u)
    BY <1>3, ElementOfSeq, LenProperties
  <2>3. stored[i] \in Drafts(u) /\ stored[j] \in Drafts(u)
    BY <1>6, <2>2, ItemIs
  <2> HIDE DEF stored
  <2>4. QED BY <1>6, <2>1, <2>3 DEF Apart, DraftId
<1>7. \A c \in Calls : Times(c, StoredCalls(stored)) = Times(c, WireCalls)
  BY <1>2, <1>4, WireCallsIs DEF ItemsGood, CallsCounted, Calls
<1>8. QED BY <1>5, <1>6, <1>7 DEF StoresWhatStreamed

LEMMA InvLandsInOrder ==
    ASSUME Inv
    PROVE  CallsLandInOrder
<1>1. Good(setup, run.ids, wire, tr)
  BY InvTypes
<1>2. CASE setup.parentless /\ Repeats(wire)
  BY <1>2 DEF CallsLandInOrder, Parentless, Repeats, Shown
<1>3. CASE InOrder(setup, wire, tr.items)
  <2>1. StoredTrail(Messages) = Trail(setup, Messages)
    BY MessagesAre, StoredTrailIs
  <2>2. QED BY <1>3, <2>1, MessagesHold, WireTrailIs DEF InOrder, CallsLandInOrder
<1>4. QED BY <1>1, <1>2, <1>3 DEF Good, Ordered

(* Whenever a run is cut short, what is stored of it is what the client    *)
(* saw of it: each text that said something once, whole and under its id,  *)
(* each call whose arguments had ended as often as it was made, and calls  *)
(* and results in the order they ended and came, unless a call that names  *)
(* no parent used an id again (RunTranscript.messages), whatever the texts *)
(* and calls of the run and however many its parts.                        *)
THEOREM CutShortIsAlwaysStored == MCSpec => []CutShortIsStored
<1>1. Inv => CutShortIsStored
  BY InvTypeOK, InvStores, InvLandsInOrder DEF CutShortIsStored
<1>2. QED BY <1>1, TranscriptIsGood, PTL

-----------------------------------------------------------------------------
(* What an id is lent for.                                                 *)

LEMMA NthIs ==
    ASSUME NEW seq, NEW n, Nth(seq, n) # NoId
    PROVE  n \in DOMAIN seq /\ Nth(seq, n) = seq[n]
BY DEF Nth

LEMMA IdsNth ==
    ASSUME NEW seq, NEW n, Nth(Ids(seq), n) # NoId
    PROVE  n \in DOMAIN seq /\ Nth(Ids(seq), n) = seq[n].id
<1>1. n \in DOMAIN Ids(seq) /\ Nth(Ids(seq), n) = Ids(seq)[n]
  BY NthIs
<1>2. QED BY <1>1 DEF Ids

LEMMA DumpedIs ==
    ASSUME Inv, NEW i \in DOMAIN dumped
    PROVE  /\ dumped[i] \in Msgs(setup)
           /\ dumped[i].kind = "assistant" => dumped[i] \in Answering(setup)
           /\ dumped[i].kind = "reasoning" => dumped[i] \in Pondering(setup)
           /\ dumped[i].kind = "activity" => dumped[i] \in Acting(setup)
           /\ dumped[i].kind = "tool" => dumped[i] \in Telling(setup)
           /\ dumped[i].kind = "user" => dumped[i] \in Handing(setup)
           /\ dumped[i].kind \in {"assistant", "reasoning", "activity", "tool", "user"}
<1> DEFINE m == dumped[i]
           u == setup
<1>1. m \in Msgs(u)
  BY InvTypes, ElementOfSeq, LenProperties
<1> HIDE DEF m, u
<1>2. m \in Answering(u) \/ m \in Pondering(u) \/ m \in Acting(u) \/ m \in Telling(u) \/ m \in Handing(u)
  BY <1>1 DEF Msgs
<1>3. /\ m \in Answering(u) => m.kind = "assistant"
      /\ m \in Pondering(u) => m.kind = "reasoning"
      /\ m \in Acting(u) => m.kind = "activity"
      /\ m \in Telling(u) => m.kind = "tool"
      /\ m \in Handing(u) => m.kind = "user"
  BY DEF Answering, Pondering, Acting, Telling, Handing
<1>4. QED BY <1>1, <1>2, <1>3 DEF m, u

(* Where a kind pairs off, the n-th streamed has what the n-th dumped has. *)
LEMMA PairedOff ==
    ASSUME NEW streamed, NEW contents, NEW n \in DOMAIN contents, ByPosition(streamed, contents, n) # NoId
    PROVE  /\ n \in DOMAIN streamed /\ streamed[n].held = contents[n]
           /\ ByPosition(streamed, contents, n) = streamed[n].id
<1>1. [j \in DOMAIN streamed |-> streamed[j].held] = contents
  BY DEF ByPosition
<1>2. ByPosition(streamed, contents, n) = Nth(Ids(streamed), n)
  BY <1>1 DEF ByPosition
<1>3. n \in DOMAIN streamed /\ streamed[n].held = contents[n]
  BY <1>1
<1>4. QED BY <1>2, <1>3, IdsNth

(* The place a dumped message has among its kind.                          *)
LEMMA PlaceIs ==
    ASSUME Inv, NEW some, NEW i \in DOMAIN dumped, dumped[i] \in some
    PROVE  Place(i, some) \in DOMAIN Sift(dumped, some) /\ Sift(dumped, some)[Place(i, some)] = dumped[i]
<1>1. dumped \in Seq(Msgs(setup))
  BY InvTypes
<1>2. Place(i, some) = Cardinality(UpTo(dumped, some, i))
  BY DEF Place, UpTo
<1>3. QED BY <1>1, <1>2, SiftPlace

LEMMA HeldPairedOff ==
    ASSUME Inv, NEW rows, NEW some, NEW i \in DOMAIN dumped, dumped[i] \in some,
           NEW id, id = ByPosition(Held(rows), TextsOf(Sift(dumped, some)), Place(i, some)), id # NoId
    PROVE  \E n \in DOMAIN rows : rows[n].text = dumped[i].text /\ rows[n].id = id
<1> DEFINE n == Place(i, some)
           s == Sift(dumped, some)
           h == Held(rows)
           c == TextsOf(s)
<1>1. n \in DOMAIN s /\ s[n] = dumped[i]
  BY PlaceIs
<1> HIDE DEF n, s
<1>2. n \in DOMAIN c /\ c[n] = dumped[i].text
  BY <1>1 DEF TextsOf
<1>3. id = ByPosition(h, c, n)
  BY DEF n, s
<1> HIDE DEF h, c
<1>4. n \in DOMAIN h /\ h[n].held = c[n] /\ id = h[n].id
  BY <1>2, <1>3, PairedOff
<1>5. n \in DOMAIN rows /\ h[n].held = rows[n].text /\ h[n].id = rows[n].id
  BY <1>4 DEF h, Held
<1>6. QED BY <1>2, <1>4, <1>5

LEMMA LentToTool ==
    ASSUME Inv, NEW i \in DOMAIN dumped, dumped[i].kind = "tool", StreamedId(i) # NoId
    PROVE  Holds(StreamedId(i), dumped[i])
<1> DEFINE u == setup
           c == dumped[i].call
           T == {item \in ToSet(tr.items) : ~IsDraft(item) /\ item.call = c}
           s == Sift(tr.items, T)
           n == Place(i, AnswersTo(c))
           id == StreamedId(i)
<1>1. id = Nth(Ids(s), n)
  BY DEF StreamedId, ResultsOf
<1>2. tr.items \in Seq(Items(u)) /\ Good(u, run.ids, wire, tr)
  BY InvTypes, GoodTypes
<1>3. ToSet(s) = ToSet(tr.items) \intersect T
  BY <1>2, SiftHas
<1> HIDE DEF s, n, id
<1>4. n \in DOMAIN s /\ id = s[n].id
  BY <1>1, IdsNth DEF id
<1>5. s[n] \in ToSet(tr.items) /\ s[n] \in T
  BY <1>3, <1>4 DEF ToSet
<1> DEFINE x == s[n]
<1>6. x \in ToSet(tr.items) /\ ~IsDraft(x) /\ x.call = c /\ id = x.id
  BY <1>4, <1>5
<1> HIDE DEF x
<1>7. x \in Items(u)
  BY <1>2, <1>6, AmongType
<1>8. x \in Tools(u)
  BY <1>6, <1>7, ItemIs DEF Items
<1>9. Came(wire, x)
  BY <1>2, <1>6, <1>8 DEF Good, ItemsGood, ResultsCame
<1>10. \E j \in Shown("result") : wire[j].id = id /\ wire[j].call = c
  BY <1>6, <1>9 DEF Came, ToSet, Shown
<1>11. QED BY <1>10 DEF Holds, id

\* A draft of a number has been opened under it, and says what was said.
LEMMA DraftShown ==
    ASSUME Inv, NEW x \in ToSet(tr.items), IsDraft(x), x.id \in Nat
    PROVE  /\ \E j \in Shown("text_start") : wire[j].id = x.id
           /\ WireText("text", x.id) = x.text
<1> DEFINE u == setup
<1>1. tr.items \in Seq(Items(u)) /\ Good(u, run.ids, wire, tr)
  BY InvTypes, GoodTypes
<1>2. x \in Items(u)
  BY <1>1, AmongType
<1>3. x \in Drafts(u)
  BY <1>2, ItemIs
<1>4. Opened(wire, x.id) /\ x.text = Said(u, wire, "text", x.id)
  BY <1>1, <1>3 DEF Good, ItemsGood, DraftsOpened, DraftsSay
<1>5. WireText("text", x.id) = Said(u, wire, "text", x.id)
  BY WireTextIs
<1>6. \E j \in Shown("text_start") : wire[j].id = x.id
  BY <1>4 DEF Opened, ToSet, Shown
<1>7. QED BY <1>4, <1>5, <1>6

LEMMA SharedIs ==
    ASSUME Inv, NEW i, ParentShared(i) # NoId
    PROVE  ParentShared(i) \in Nat /\ DraftOf(tr.items, ParentShared(i))
<1> DEFINE found == {Nth(ParentsOf(c), Place(i, Asking(c))) : c \in ToSet(dumped[i].calls)}
           p == ParentShared(i)
<1>1. p = IF Cardinality(found) = 1 THEN CHOOSE q \in found : TRUE ELSE NoId
  BY DEF ParentShared
<1>2. Cardinality(found) = 1
  BY <1>1
<1>3. found # {}
  <2> HIDE DEF found
  <2>1. QED BY <1>2, FS_EmptySet
<1>4. p \in found
  <2> HIDE DEF found
  <2>1. QED BY <1>1, <1>2, <1>3
<1>5. PICK c \in ToSet(dumped[i].calls) : p = Nth(ParentsOf(c), Place(i, Asking(c)))
  BY <1>4
<1> DEFINE s == ParentsOf(c)
           n == Place(i, Asking(c))
           T == {act \in ToSet(tr.parents) : act[1] = c}
           of == Sift(tr.parents, T)
<1> HIDE DEF n, p, of
<1>6. n \in DOMAIN s /\ p = s[n]
  BY <1>5, NthIs DEF p, n
<1>7. s = [k \in DOMAIN of |-> of[k][2]]
  BY DEF ParentsOf, of
<1> HIDE DEF s
<1>8. n \in DOMAIN of /\ p = of[n][2]
  BY <1>6, <1>7
<1>9. tr.parents \in Seq(Parents(setup)) /\ Good(setup, run.ids, wire, tr)
  BY InvTypes, GoodTypes
<1>10. ToSet(of) = ToSet(tr.parents) \intersect T
  BY <1>9, SiftHas DEF of
<1>11. of[n] \in ToSet(tr.parents)
  BY <1>8, <1>10 DEF ToSet
<1>12. of[n] \in Parents(setup)
  BY <1>9, <1>11, AmongType
<1>13. p \in Nat
  BY <1>8, <1>12 DEF Parents
<1>14. DraftOf(tr.items, p)
  BY <1>8, <1>9, <1>11 DEF Good, ParentsGood, p
<1>15. QED BY <1>13, <1>14 DEF p

LEMMA LentToCalls ==
    ASSUME Inv, NEW i \in DOMAIN dumped, dumped[i].kind = "assistant", dumped[i].calls # <<>>,
           StreamedId(i) # NoId
    PROVE  Holds(StreamedId(i), dumped[i])
<1> DEFINE p == ParentShared(i)
           x == CHOOSE item \in ToSet(tr.items) : IsDraft(item) /\ item.id = p
<1>1. StreamedId(i) = ParentHolding(i)
  BY DEF StreamedId
<1>2. p # NoId /\ StreamedText(p) = dumped[i].text /\ StreamedId(i) = p
  BY <1>1 DEF ParentHolding
<1>3. p \in Nat /\ DraftOf(tr.items, p)
  BY <1>2, SharedIs
<1> HIDE DEF p
<1>4. x \in ToSet(tr.items) /\ IsDraft(x) /\ x.id = p
  BY <1>3 DEF DraftOf
<1>5. x.text = dumped[i].text
  BY <1>2 DEF StreamedText
<1> HIDE DEF x
<1>6. (\E j \in Shown("text_start") : wire[j].id = p) /\ WireText("text", p) = dumped[i].text
  BY <1>3, <1>4, <1>5, DraftShown
<1>7. QED BY <1>2, <1>6 DEF Holds

LEMMA LentToText ==
    ASSUME Inv, NEW i \in DOMAIN dumped, dumped[i].kind = "assistant", dumped[i].calls = <<>>,
           StreamedId(i) # NoId
    PROVE  Holds(StreamedId(i), dumped[i])
<1> DEFINE id == StreamedId(i)
           rows == Sift(tr.items, TextDrafts)
<1>1. id = ByPosition(Held(rows), TextsOf(Sift(dumped, TextAnswers)), Place(i, TextAnswers)) /\ id # NoId
  BY DEF StreamedId, TextId
<1>2. dumped[i] \in TextAnswers
  BY DEF TextAnswers, ToSet
<1> HIDE DEF id, rows
<1>3. PICK n \in DOMAIN rows : rows[n].text = dumped[i].text /\ rows[n].id = id
  BY <1>1, <1>2, HeldPairedOff
<1>4. tr.items \in Seq(Items(setup)) /\ Good(setup, run.ids, wire, tr)
  BY InvTypes, GoodTypes
<1>5. ToSet(rows) = ToSet(tr.items) \intersect TextDrafts
  BY <1>4, SiftHas DEF rows
<1> DEFINE x == rows[n]
<1>6. x \in ToSet(tr.items) /\ IsDraft(x) /\ x.calls = <<>>
  BY <1>5 DEF ToSet, TextDrafts
<1>7. x.text = dumped[i].text /\ x.id = id
  BY <1>3
<1> HIDE DEF x
<1>8. x \in Items(setup)
  BY <1>4, <1>6, AmongType
<1>9. x \in Drafts(setup)
  BY <1>6, <1>8, ItemIs
<1>10. x.id \in Nat
  BY <1>4, <1>6, <1>9 DEF Good, ItemsGood, DraftsOpened
<1>11. (\E j \in Shown("text_start") : wire[j].id = id) /\ WireText("text", id) = dumped[i].text
  BY <1>6, <1>7, <1>10, DraftShown
<1>12. QED BY <1>11 DEF Holds, id

LEMMA LentToReasoning ==
    ASSUME Inv, NEW i \in DOMAIN dumped, dumped[i].kind = "reasoning", StreamedId(i) # NoId
    PROVE  Holds(StreamedId(i), dumped[i])
<1> DEFINE id == StreamedId(i)
           rows == tr.reasoning
<1>1. id = ByPosition(Held(rows), TextsOf(Sift(dumped, Thoughts)), Place(i, Thoughts)) /\ id # NoId
  BY DEF StreamedId, ReasoningId
<1>2. dumped[i] \in Thoughts
  BY DEF Thoughts, ToSet
<1> HIDE DEF id, rows
<1>3. PICK n \in DOMAIN rows : rows[n].text = dumped[i].text /\ rows[n].id = id
  BY <1>1, <1>2, HeldPairedOff
<1>4. Good(setup, run.ids, wire, tr)
  BY InvTypes
<1> DEFINE x == rows[n]
<1>5. x \in ToSet(tr.reasoning)
  BY DEF ToSet, rows
<1>6. x.text = dumped[i].text /\ x.id = id
  BY <1>3
<1> HIDE DEF x
<1>7. x.text = Said(setup, wire, "reasoning", x.id) /\ \E e \in ToSet(wire) : e.event = "reasoning_start" /\ e.id = x.id
  BY <1>4, <1>5 DEF Good, ThoughtsGood, ThoughtsSay
<1>8. WireText("reasoning", x.id) = Said(setup, wire, "reasoning", x.id)
  BY WireTextIs
<1>9. \E j \in Shown("reasoning_start") : wire[j].id = id
  BY <1>6, <1>7 DEF ToSet, Shown
<1>10. QED BY <1>6, <1>7, <1>8, <1>9 DEF Holds, id

LEMMA ContentIs ==
    ASSUME Inv, NEW id, NEW content, Settled(wire, id, content)
    PROVE  WireContent(id) = content
<1> DEFINE S == {k \in DOMAIN wire : Settles(wire, id, k)}
<1>1. PICK k \in DOMAIN wire : /\ Settles(wire, id, k) /\ wire[k].content = content
                               /\ \A j \in DOMAIN wire : Settles(wire, id, j) => j <= k
  BY DEF Settled
<1>2. wire \in Seq(Events(setup))
  BY InvTypes
<1>3. DOMAIN wire \subseteq Nat
  BY <1>2, LenProperties
<1>4. WireContent(id) = wire[Max(S)].content
  BY DEF WireContent, Settles, Shows
<1>5. k \in S /\ S \subseteq Nat /\ \A j \in S : j <= k
  BY <1>1, <1>3
<1> HIDE DEF S
<1>6. Max(S) = k
  <2>1. \A y \in S : k >= y
    BY <1>5
  <2>2. Max(S) = CHOOSE x \in S : \A y \in S : x >= y
    BY DEF Max
  <2>3. Max(S) \in S /\ \A y \in S : Max(S) >= y
    BY <1>5, <2>1, <2>2
  <2>4. QED BY <1>5, <2>3
<1>7. QED BY <1>1, <1>4, <1>6

LEMMA LentToActivity ==
    ASSUME Inv, NEW i \in DOMAIN dumped, dumped[i].kind = "activity", StreamedId(i) # NoId
    PROVE  Holds(StreamedId(i), dumped[i])
<1> DEFINE id == StreamedId(i)
           m == dumped[i]
           some == ActivitiesOf(m.type)
           rows == StreamedOf(m.type)
           h == [j \in DOMAIN rows |-> [id |-> rows[j].id, held |-> rows[j].content]]
           s == Sift(dumped, some)
           c == ContentsOf(s)
           n == Place(i, some)
<1>1. id = ByPosition(h, c, n) /\ id # NoId
  BY DEF StreamedId, ActivityId
<1>2. m \in some
  BY DEF ActivitiesOf, ToSet
<1> HIDE DEF some, id, rows
<1>3. n \in DOMAIN s /\ s[n] = m
  BY <1>2, PlaceIs
<1> HIDE DEF n, s
<1>4. n \in DOMAIN c /\ c[n] = m.content
  BY <1>3 DEF ContentsOf
<1> HIDE DEF c, h, m
<1>5. n \in DOMAIN h /\ h[n].held = c[n] /\ id = h[n].id
  BY <1>1, <1>4, PairedOff
<1>6. n \in DOMAIN rows /\ rows[n].content = m.content /\ rows[n].id = id
  BY <1>4, <1>5 DEF h
<1>7. tr.activities \in Seq(Activity(setup)) /\ Good(setup, run.ids, wire, tr)
  BY InvTypes, GoodTypes
<1> DEFINE T == {a1 \in ToSet(tr.activities) : a1.type = m.type}
           x == rows[n]
<1>8. ToSet(rows) = ToSet(tr.activities) \intersect T
  BY <1>7, SiftHas DEF rows, StreamedOf
<1>9. x \in ToSet(tr.activities) /\ x.type = m.type
  BY <1>6, <1>8 DEF ToSet
<1>10. x.content = m.content /\ x.id = id
  BY <1>6
<1> HIDE DEF x
<1>11. m.content # Nothing
  <2>1. m \in Acting(setup) /\ setup \in Setups
    BY DumpedIs, InvTypes DEF m
  <2>2. m.content \in setup.contents
    BY <2>1 DEF Acting
  <2>3. QED BY <2>1, <2>2, SetupIs DEF Nothing
<1>12. Rests(wire, x)
  BY <1>7, <1>9 DEF Good, ActivitiesGood, ActivitiesHold
<1>13. Settled(wire, id, m.content) /\ Snapped(wire, x)
  BY <1>10, <1>11, <1>12 DEF Rests
<1>14. WireContent(id) = m.content
  BY <1>13, ContentIs
<1>15. \E j \in Shown("snapshot") : wire[j].id = id /\ wire[j].type = m.type
  BY <1>9, <1>10, <1>13 DEF Snapped, ToSet, Shown
<1>16. QED BY <1>14, <1>15 DEF Holds, id, m

LEMMA LentHolds ==
    ASSUME Inv, NEW i \in DOMAIN dumped, StreamedId(i) # NoId
    PROVE  Holds(StreamedId(i), dumped[i])
<1>1. dumped[i].kind \in {"assistant", "reasoning", "activity", "tool", "user"}
  BY DumpedIs
<1>2. dumped[i].kind # "user"
  BY DEF StreamedId
<1>3. QED BY <1>1, <1>2, LentToTool, LentToCalls, LentToText, LentToReasoning, LentToActivity

LEMMA InvLends ==
    ASSUME Inv
    PROVE  LendsWhatItHolds
<1> DEFINE streamed == [i \in DOMAIN dumped |-> StreamedId(i)]
           lent == Lent
<1>1. lent = [i \in DOMAIN dumped |->
                IF \E j \in 1 .. i - 1 : streamed[j] = streamed[i] THEN NoId ELSE streamed[i]]
  BY DEF Lent
<1>2. dumped \in Seq(Msgs(setup))
  BY InvTypes
<1>3. Len(dumped) \in Nat /\ DOMAIN dumped = 1 .. Len(dumped)
  BY <1>2, LenProperties
<1> HIDE DEF lent
<1>4. ASSUME NEW i \in DOMAIN dumped, lent[i] # NoId
      PROVE  Holds(lent[i], dumped[i]) /\ \A j \in 1 .. i - 1 : lent[j] # lent[i]
  <2>1. lent[i] = streamed[i] /\ \A j \in 1 .. i - 1 : streamed[j] # streamed[i]
    BY <1>1, <1>4
  <2>2. lent[i] = StreamedId(i) /\ StreamedId(i) # NoId
    BY <1>4, <2>1
  <2>3. Holds(lent[i], dumped[i])
    BY <2>2, LentHolds
  <2> HIDE DEF streamed
  <2>4. ASSUME NEW j \in 1 .. i - 1 PROVE lent[j] # lent[i]
    <3>1. j \in DOMAIN dumped
      BY <1>3, <2>4
    <3>2. lent[j] = NoId \/ lent[j] = streamed[j]
      BY <1>1, <3>1
    <3>3. QED BY <1>4, <2>1, <2>4, <3>2
  <2>5. QED BY <2>3, <2>4
<1>5. QED BY <1>4 DEF LendsWhatItHolds, lent

(* A message of a completed run is stored under a streamed id only when it *)
(* holds what the client was shown under it, and no two under the same     *)
(* (RunTranscript.with_streamed_ids), whatever the run streams and does    *)
(* not dump, dumps and does not stream, splits or joins.                   *)
THEOREM LentIdsHold == MCSpec => []LendsWhatItHolds
<1>1. Inv => LendsWhatItHolds
  BY InvLends
<1>2. QED BY <1>1, TranscriptIsGood, PTL

-----------------------------------------------------------------------------
(* What the results say: each one streamed is told by a dumped message, or *)
(* by an answer the run has and has yet to dump, and the other way round.  *)

Heard(w, c, went) ==
    \E e \in ToSet(w) : e.event = "result" /\ e.call = c /\ e.outcome = Forwardable(went)
TellsOf(d, e) == \E m \in ToSet(d) : m.kind = "tool" /\ m.call = e.call /\ Forwardable(m.went) = e.outcome
Answered(q, c) == q.phase = "tools" /\ c \in ToSet(q.asked) \ q.waiting

ResultsTold(w, q, d) ==
    \A e \in ToSet(w) : e.event = "result" =>
        \/ TellsOf(d, e)
        \/ Answered(q, e.call) /\ Forwardable(q.got[e.call].went) = e.outcome
ToldCame(w, q, d) ==
    /\ \A m \in ToSet(d) : m.kind = "tool" => Heard(w, m.call, m.went)
    /\ \A c : Answered(q, c) => Heard(w, c, q.got[c].went)
Tells(w, q, d) == ResultsTold(w, q, d) /\ ToldCame(w, q, d)

\* No result more, and no answer more.
Quiet(u) == {e \in Events(u) : e.event # "result"}
Grown(w, v) == ToSet(w) \subseteq ToSet(v) /\ \A e \in ToSet(v) : e.event = "result" => e \in ToSet(w)
Longer(d, f) == ToSet(d) \subseteq ToSet(f) /\ \A m \in ToSet(f) : m.kind = "tool" => m \in ToSet(d)
SameAsked(q, p) ==
    \/ q.phase = "tools" /\ p.phase = "tools" /\ p.asked = q.asked /\ p.waiting = q.waiting /\ p.got = q.got
    \/ q.phase # "tools" /\ \A c : ~Answered(p, c)

LEMMA GrownSame == ASSUME NEW s PROVE Grown(s, s) /\ Longer(s, s)
BY DEF Grown, Longer

LEMMA TellsStill ==
    ASSUME NEW w, NEW q, NEW d, Tells(w, q, d), NEW v, NEW p, NEW f,
           Grown(w, v), Longer(d, f), SameAsked(q, p)
    PROVE  Tells(v, p, f)
<1>1. \A c : Answered(q, c) <=> Answered(p, c)
  BY DEF SameAsked, Answered
<1>2. \A c : Answered(q, c) => q.got[c] = p.got[c]
  BY DEF SameAsked, Answered
<1>3. \A e : TellsOf(d, e) => TellsOf(f, e)
  BY DEF TellsOf, Longer
<1>4. \A c, went : Heard(w, c, went) => Heard(v, c, went)
  BY DEF Heard, Grown
<1>5. ResultsTold(v, p, f)
  BY <1>1, <1>2, <1>3 DEF Tells, ResultsTold, Grown
<1>6. ToldCame(v, p, f)
  BY <1>1, <1>2, <1>4 DEF Tells, ToldCame, Longer
<1>7. QED BY <1>5, <1>6 DEF Tells

LEMMA EmitsQuietly ==
    ASSUME Inv, NEW es \in Seq(Quiet(setup)), Emit(es)
    PROVE  Grown(wire, wire')
<1> DEFINE S == Events(setup)
<1>1. wire \in Seq(S)
  BY InvTypes
<1>2. \A e \in ToSet(es) : e \in Quiet(setup)
  BY AmongType
<1>3. es \in Seq(S)
  <2>1. \A e \in Quiet(setup) : e \in S
    BY DEF Quiet
  <2>2. Len(es) \in Nat /\ es \in [1 .. Len(es) -> Quiet(setup)]
    BY LenProperties
  <2> HIDE DEF S
  <2>3. es \in [1 .. Len(es) -> S]
    BY <2>1, <2>2
  <2>4. QED BY <2>2, <2>3, SeqDef
<1> HIDE DEF S
<1>4. ToSet(wire \o es) = ToSet(wire) \union ToSet(es)
  BY <1>1, <1>3, AmongBoth
<1>5. wire' = wire \o es
  BY DEF Emit
<1>6. QED BY <1>2, <1>4, <1>5 DEF Grown, Quiet

LEMMA QuietOne ==
    ASSUME NEW u, NEW e \in Events(u), e.event # "result"
    PROVE  <<e>> \in Seq(Quiet(u)) /\ <<>> \in Seq(Quiet(u))
<1>1. e \in Quiet(u)
  BY DEF Quiet
<1>2. QED BY <1>1, AloneIs, EmptySeq

LEMMA LongerByOne ==
    ASSUME NEW S, NEW d \in Seq(S), NEW m \in S, m.kind # "tool"
    PROVE  Longer(d, Append(d, m))
<1>1. ToSet(Append(d, m)) = ToSet(d) \union {m}
  BY AmongMore
<1>2. QED BY <1>1 DEF Longer

LEMMA LongerTwice ==
    ASSUME NEW d, NEW f, NEW g, Longer(d, f), Longer(f, g)
    PROVE  Longer(d, g)
BY DEF Longer

LEMMA LongerFlushed ==
    ASSUME Inv
    PROVE  Longer(dumped, Flushed)
<1> DEFINE m == [kind |-> "assistant", text |-> run.r.said, calls |-> run.r.calls, of |-> run.r.from]
<1>1. run.r \in Rs(setup) /\ dumped \in Seq(Msgs(setup))
  BY InvTypes
<1>2. m \in Answering(setup) /\ m.kind = "assistant"
  BY <1>1 DEF Rs, Answering
<1>3. Flushed = IF run.r.open \/ run.r.calls # <<>> THEN Append(dumped, m) ELSE dumped
  BY DEF Flushed
<1> HIDE DEF m
<1>4. m \in Msgs(setup)
  BY <1>2 DEF Msgs
<1>5. Longer(dumped, Append(dumped, m))
  BY <1>1, <1>2, <1>4, LongerByOne
<1>6. QED BY <1>3, <1>5, GrownSame

LEMMA RespondStays ==
    ASSUME NEW q, NEW p, q.phase = "respond", p.phase = "respond"
    PROVE  SameAsked(q, p)
BY DEF SameAsked, Answered

LEMMA TextTells ==
    ASSUME Inv, NEW x \in Say, TextPart(x)
    PROVE  Grown(wire, wire') /\ Longer(dumped, dumped') /\ SameAsked(run, run')
<1> DEFINE u == setup
           joins == run.r.last = "text"
           id == IF joins THEN run.r.text ELSE Fresh
           open == [event |-> "text_start", id |-> id]
           say == [event |-> "text", id |-> id, text |-> x]
           one == IF joins THEN <<>> ELSE <<open>>
           two == IF x = Nothing THEN <<>> ELSE <<say>>
<1>1. run \in Runs(u) /\ run.r \in Rs(u) /\ run.ids + 1 \in Nat
  BY InvTypes
<1>2. id \in Nat /\ x \in Words(u)
  BY <1>1, SayIs DEF Rs, Fresh
<1>3. open \in Events(u) /\ open.event # "result"
  <2>1. open \in Opening
    BY <1>2 DEF Opening
  <2>2. QED BY <2>1 DEF Events
<1>4. x # <<>> => say \in Events(u) /\ say.event # "result"
  <2>1. x # <<>> => say \in Speaking(u)
    BY <1>2 DEF Speaking
  <2>2. QED BY <2>1 DEF Events
<1>5. Emit(one \o two)
  BY DEF TextPart
<1>6. one \in Seq(Quiet(u)) /\ two \in Seq(Quiet(u))
  <2> HIDE DEF open, say, joins
  <2>1. <<open>> \in Seq(Quiet(u)) /\ <<>> \in Seq(Quiet(u))
    BY <1>3, QuietOne
  <2>2. x # <<>> => <<say>> \in Seq(Quiet(u))
    BY <1>4, QuietOne
  <2>3. QED BY <2>1, <2>2 DEF Nothing
<1> HIDE DEF one, two
<1>7. one \o two \in Seq(Quiet(u))
  BY <1>6, ConcatProperties
<1>8. Grown(wire, wire')
  BY <1>5, <1>7, EmitsQuietly
<1>9. dumped' = dumped /\ run.phase = "respond" /\ run'.phase = "respond"
  BY <1>1 DEF TextPart, Part, Runs
<1>10. QED BY <1>8, <1>9, GrownSame, RespondStays

LEMMA ThinkingTells ==
    ASSUME Inv, NEW x \in Say, ThinkingPart(x)
    PROVE  Grown(wire, wire') /\ Longer(dumped, dumped') /\ SameAsked(run, run')
<1> DEFINE u == setup
           m == [kind |-> "reasoning", text |-> x, of |-> {Fresh}]
           open == [event |-> "reasoning_start", id |-> Fresh]
           say == [event |-> "reasoning", id |-> Fresh, text |-> x]
           two == IF x = Nothing THEN <<>> ELSE <<say>>
           all == IF ~Forward THEN <<>> ELSE <<open>> \o two
<1>1. run \in Runs(u) /\ run.r \in Rs(u) /\ Fresh \in Nat /\ dumped \in Seq(Msgs(u))
  BY InvTypes DEF Fresh
<1>2. x \in Words(u)
  BY SayIs
<1>3. open \in Events(u) /\ open.event # "result"
  <2>1. open \in Reasoning
    BY <1>1 DEF Reasoning
  <2>2. QED BY <2>1 DEF Events
<1>4. x # <<>> => say \in Events(u) /\ say.event # "result"
  <2>1. x # <<>> => say \in Thinking(u)
    BY <1>1, <1>2 DEF Thinking
  <2>2. QED BY <2>1 DEF Events
<1>5. Emit(all)
  BY DEF ThinkingPart
<1>6. all \in Seq(Quiet(u))
  <2> HIDE DEF open, say
  <2>1. <<open>> \in Seq(Quiet(u)) /\ <<>> \in Seq(Quiet(u))
    BY <1>3, QuietOne
  <2>2. x # <<>> => <<say>> \in Seq(Quiet(u))
    BY <1>4, QuietOne
  <2>3. two \in Seq(Quiet(u))
    BY <2>1, <2>2 DEF Nothing
  <2> DEFINE one == <<open>>
  <2> HIDE DEF two, one
  <2>4. one \o two \in Seq(Quiet(u))
    BY <2>1, <2>3, ConcatProperties DEF one
  <2>5. QED BY <2>1, <2>4 DEF one
<1> HIDE DEF all
<1>7. Grown(wire, wire')
  BY <1>5, <1>6, EmitsQuietly
<1>8. m \in Msgs(u) /\ m.kind # "tool"
  <2>1. m \in Pondering(u)
    BY <1>1, <1>2 DEF Pondering
  <2>2. QED BY <2>1 DEF Msgs
<1>9. dumped' = Append(Flushed, m)
  BY DEF ThinkingPart
<1> HIDE DEF m
<1>10. Longer(Flushed, Append(Flushed, m)) /\ Longer(dumped, Flushed)
  BY <1>8, FlushedIs, LongerByOne, LongerFlushed
<1>11. Longer(dumped, dumped')
  BY <1>9, <1>10, LongerTwice
<1>12. run.phase = "respond" /\ run'.phase = "respond"
  BY <1>1 DEF ThinkingPart, Part, Runs
<1>13. QED BY <1>7, <1>11, <1>12, RespondStays

LEMMA FileTells ==
    ASSUME Inv, FilePart
    PROVE  Grown(wire, wire') /\ Longer(dumped, dumped') /\ SameAsked(run, run')
<1>1. run \in Runs(setup)
  BY InvTypes
<1>2. wire' = wire /\ dumped' = dumped /\ run.phase = "respond" /\ run'.phase = "respond"
  BY <1>1 DEF FilePart, Part, Runs
<1>3. QED BY <1>2, GrownSame, RespondStays

LEMMA CompactionTells ==
    ASSUME Inv, NEW content \in Contents, CompactionPart(content)
    PROVE  Grown(wire, wire') /\ Longer(dumped, dumped') /\ SameAsked(run, run')
<1> DEFINE u == setup
           m == [kind |-> "activity", type |-> Provider, content |-> content, of |-> {Fresh}]
           e == [event |-> "snapshot", id |-> Fresh, type |-> Provider, content |-> content,
                 replace |-> TRUE]
<1>1. run \in Runs(u) /\ Fresh \in Nat /\ dumped \in Seq(Msgs(u)) /\ content \in u.contents
  BY InvTypes DEF Fresh, Contents
<1>2. dumped' = Append(dumped, m) /\ Emit(<<e>>)
  BY DEF CompactionPart
<1>3. m \in Msgs(u) /\ m.kind # "tool"
  <2>1. m \in Acting(u)
    BY <1>1 DEF Acting, Kinds
  <2>2. QED BY <2>1 DEF Msgs
<1>4. e \in Events(u) /\ e.event # "result"
  <2>1. e \in Snapping(u)
    BY <1>1 DEF Snapping, Kinds
  <2>2. QED BY <2>1 DEF Events
<1>5. run.phase = "respond" /\ run'.phase = "respond"
  BY <1>1 DEF CompactionPart, Part, Runs
<1> HIDE DEF m, e
<1>6. Longer(dumped, dumped')
  BY <1>1, <1>2, <1>3, LongerByOne
<1>7. QED BY <1>2, <1>4, <1>5, <1>6, QuietOne, EmitsQuietly, RespondStays

LEMMA CallStartTells ==
    ASSUME Inv, NEW c \in Calls, CallStarts(c)
    PROVE  Grown(wire, wire') /\ Longer(dumped, dumped') /\ SameAsked(run, run')
<1> DEFINE u == setup
           opens == run.r.text = NoId /\ ~Parentless
           parent == IF opens THEN Fresh ELSE run.r.text
           open == [event |-> "text_start", id |-> parent]
           e == [event |-> "call_start", call |-> c, parent |-> parent]
           one == IF opens THEN <<open>> ELSE <<>>
           two == <<e>>
<1>1. run \in Runs(u) /\ run.r \in Rs(u) /\ Fresh \in Nat
  BY InvTypes DEF Fresh
<1>2. parent \in Nat /\ c \in u.calls
  BY <1>1 DEF Rs, Calls
<1>3. open \in Events(u) /\ open.event # "result"
  <2>1. open \in Opening
    BY <1>2 DEF Opening
  <2>2. QED BY <2>1 DEF Events
<1>4. e \in Events(u) /\ e.event # "result"
  <2>1. e \in Starting(u)
    BY <1>2 DEF Starting
  <2>2. QED BY <2>1 DEF Events
<1>5. Emit(one \o two)
  BY DEF CallStarts
<1>6. one \in Seq(Quiet(u)) /\ two \in Seq(Quiet(u))
  <2> HIDE DEF open, e, opens
  <2>1. <<open>> \in Seq(Quiet(u)) /\ <<>> \in Seq(Quiet(u)) /\ <<e>> \in Seq(Quiet(u))
    BY <1>3, <1>4, QuietOne
  <2>2. QED BY <2>1
<1> HIDE DEF one, two
<1>7. one \o two \in Seq(Quiet(u))
  BY <1>6, ConcatProperties
<1>8. Grown(wire, wire')
  BY <1>5, <1>7, EmitsQuietly
<1>9. dumped' = dumped /\ run.phase = "respond" /\ run'.phase = "respond"
  BY <1>1 DEF CallStarts, Part, Runs
<1>10. QED BY <1>8, <1>9, GrownSame, RespondStays

LEMMA CallEndTells ==
    ASSUME Inv, CallEnds
    PROVE  Grown(wire, wire') /\ Longer(dumped, dumped') /\ SameAsked(run, run')
<1> DEFINE u == setup
           e == [event |-> "call_end", call |-> run.calling]
<1>1. run \in Runs(u)
  BY InvTypes
<1>2. Emit(<<e>>) /\ run.calling # NoId
  BY DEF CallEnds
<1>3. e \in Events(u) /\ e.event # "result"
  <2>1. e \in Ending(u)
    BY <1>1, <1>2 DEF Ending, Runs
  <2>2. QED BY <2>1 DEF Events
<1>4. dumped' = dumped /\ run.phase = "respond" /\ run'.phase = "respond"
  BY <1>1 DEF CallEnds, Runs
<1> HIDE DEF e
<1>5. QED BY <1>2, <1>3, <1>4, QuietOne, EmitsQuietly, GrownSame, RespondStays

LEMMA ResponseEndTells ==
    ASSUME Inv, ResponseEnds
    PROVE  Grown(wire, wire') /\ Longer(dumped, dumped') /\ SameAsked(run, run')
<1>1. run \in Runs(setup) /\ AllAsked(run)
  BY InvTypes
<1>2. wire' = wire /\ dumped' = Flushed /\ run.phase = "respond"
  BY DEF ResponseEnds
<1>3. run'.asked = run.asked /\ run'.waiting = run.waiting
  BY <1>1 DEF ResponseEnds, Runs
<1>4. run.waiting = ToSet(run.asked)
  BY <1>1, <1>2 DEF AllAsked
<1>5. SameAsked(run, run')
  BY <1>2, <1>3, <1>4 DEF SameAsked, Answered
<1>6. QED BY <1>2, <1>5, GrownSame, LongerFlushed

LEMMA SpeechTells ==
    ASSUME Inv, NEW x \in Say \ {Nothing}, ToolSpeaks(x)
    PROVE  Grown(wire, wire') /\ Longer(dumped, dumped') /\ SameAsked(run, run')
<1> DEFINE u == setup
           open == [event |-> "text_start", id |-> Fresh]
           say == [event |-> "text", id |-> Fresh, text |-> x]
<1>1. run \in Runs(u) /\ Fresh \in Nat
  BY InvTypes DEF Fresh
<1>2. x \in Words(u) /\ x # <<>>
  BY SayIs DEF Nothing
<1>3. open \in Quiet(u) /\ say \in Quiet(u)
  <2>1. open \in Opening /\ say \in Speaking(u)
    BY <1>1, <1>2 DEF Opening, Speaking
  <2>2. open \in Events(u) /\ say \in Events(u)
    BY <2>1 DEF Events
  <2>3. open.event # "result" /\ say.event # "result"
    OBVIOUS
  <2> HIDE DEF open, say
  <2>4. QED BY <2>2, <2>3 DEF Quiet
<1>4. Emit(<<open, say>>)
  BY DEF ToolSpeaks
<1>5. /\ dumped' = dumped /\ run.phase = "tools" /\ run'.phase = "tools"
      /\ run'.asked = run.asked /\ run'.waiting = run.waiting /\ run'.got = run.got
  BY <1>1 DEF ToolSpeaks, Part, Runs
<1> HIDE DEF open, say
<1>6. <<open, say>> \in Seq(Quiet(u))
  BY <1>3
<1>7. Grown(wire, wire')
  BY <1>4, <1>6, EmitsQuietly
<1>8. QED BY <1>5, <1>7, GrownSame DEF SameAsked

LEMMA ShowTells ==
    ASSUME Inv, NEW event, NEW id, NEW type \in Types, NEW content, NEW replace \in BOOLEAN,
           \/ event = "snapshot" /\ content \in Contents
           \/ event = "delta" /\ content = Nothing /\ replace = TRUE,
           id \in 1 .. Fresh, ToolShows(event, id, type, content, replace)
    PROVE  Grown(wire, wire') /\ Longer(dumped, dumped') /\ SameAsked(run, run')
<1> DEFINE u == setup
           e == [event |-> event, id |-> id, type |-> type, content |-> content, replace |-> replace]
<1>1. run \in Runs(u) /\ id \in Nat /\ type \in Kinds(u)
  BY InvTypes DEF Kinds, Types
<1>2. e \in Events(u) /\ e.event # "result"
  <2>1. CASE event = "snapshot" /\ content \in Contents
    <3>1. e \in Snapping(u)
      BY <1>1, <2>1 DEF Snapping, Contents
    <3>2. QED BY <2>1, <3>1 DEF Events
  <2>2. CASE event = "delta" /\ content = Nothing /\ replace = TRUE
    <3>1. e \in Changing(u)
      BY <1>1, <2>2 DEF Changing
    <3>2. QED BY <2>2, <3>1 DEF Events
  <2>3. QED BY <2>1, <2>2
<1>3. Emit(<<e>>)
  BY DEF ToolShows
<1>4. /\ dumped' = dumped /\ run.phase = "tools" /\ run'.phase = "tools"
      /\ run'.asked = run.asked /\ run'.waiting = run.waiting /\ run'.got = run.got
  BY <1>1 DEF ToolShows, Part, Runs
<1> HIDE DEF e
<1>5. Grown(wire, wire')
  BY <1>2, <1>3, QuietOne, EmitsQuietly
<1>6. QED BY <1>4, <1>5, GrownSame DEF SameAsked

\* What the answers of the calls asked tell, those left aside.
AnswersTell(w, asked, left, got, d) ==
    /\ \A c \in ToSet(asked) \ left : Heard(w, c, got[c].went)
    /\ \A e \in ToSet(w) : e.event = "result" =>
          \/ TellsOf(d, e)
          \/ e.call \in ToSet(asked) \ left /\ Forwardable(got[e.call].went) = e.outcome

LEMMA AnswersHave ==
    ASSUME NEW u, NEW asked \in Seq(u.calls), NEW got
    PROVE  /\ \A m \in ToSet(Answers(asked, got)) :
                m.kind = "tool" /\ m.call \in ToSet(asked) /\ m.went = got[m.call].went
           /\ \A c \in ToSet(asked) : \E m \in ToSet(Answers(asked, got)) :
                m.kind = "tool" /\ m.call = c /\ m.went = got[c].went
<1> DEFINE s == Answers(asked, got)
<1>1. DOMAIN s = DOMAIN asked
  BY DEF Answers
<1>2. ASSUME NEW i \in DOMAIN asked
      PROVE  s[i].kind = "tool" /\ s[i].call = asked[i] /\ s[i].went = got[asked[i]].went
  BY DEF Answers
<1> HIDE DEF s
<1>3. \A m \in ToSet(s) : m.kind = "tool" /\ m.call \in ToSet(asked) /\ m.went = got[m.call].went
  BY <1>1, <1>2 DEF ToSet
<1>4. \A c \in ToSet(asked) : \E m \in ToSet(s) : m.kind = "tool" /\ m.call = c /\ m.went = got[c].went
  BY <1>1, <1>2 DEF ToSet
<1>5. QED BY <1>3, <1>4 DEF s

LEMMA AnsweredOne ==
    ASSUME NEW w, NEW q, NEW d, Tells(w, q, d), q.phase = "tools", NEW c \in q.waiting,
           q.waiting \subseteq ToSet(q.asked), ToSet(q.asked) \ q.waiting \subseteq DOMAIN q.got,
           NEW got, Stay(q.got, got, c), NEW outcome, got[c].went = outcome,
           NEW v, NEW e, ToSet(v) = ToSet(w) \union {e}, e.event = "result", e.call = c,
           e.outcome = Forwardable(outcome)
    PROVE  AnswersTell(v, q.asked, q.waiting \ {c}, got, d)
<1> DEFINE left == q.waiting \ {c}
<1>1. \A x \in ToSet(q.asked) \ q.waiting : x # c /\ x \in ToSet(q.asked) \ left /\ got[x] = q.got[x] /\ Answered(q, x)
  BY DEF Stay, Answered
<1>2. \A x \in ToSet(q.asked) \ left : x = c \/ x \in ToSet(q.asked) \ q.waiting
  OBVIOUS
<1>3. c \in ToSet(q.asked) \ left
  OBVIOUS
<1> HIDE DEF left
<1>4. ASSUME NEW x \in ToSet(q.asked) \ left PROVE Heard(v, x, got[x].went)
  <2>1. CASE x = c
    BY <2>1 DEF Heard
  <2>2. CASE x # c
    <3>1. Answered(q, x) /\ got[x] = q.got[x]
      BY <1>1, <1>2, <2>2
    <3>2. Heard(w, x, q.got[x].went)
      BY <3>1 DEF Tells, ToldCame
    <3>3. Heard(w, x, got[x].went)
      BY <3>1, <3>2
    <3>4. QED BY <3>3 DEF Heard
  <2>3. QED BY <2>1, <2>2
<1>5. ASSUME NEW f \in ToSet(v), f.event = "result"
      PROVE  TellsOf(d, f) \/ (f.call \in ToSet(q.asked) \ left /\ Forwardable(got[f.call].went) = f.outcome)
  <2>1. CASE f = e
    BY <1>3, <2>1
  <2>2. CASE f \in ToSet(w)
    <3>1. TellsOf(d, f) \/ (Answered(q, f.call) /\ Forwardable(q.got[f.call].went) = f.outcome)
      BY <1>5, <2>2 DEF Tells, ResultsTold
    <3>2. CASE Answered(q, f.call) /\ Forwardable(q.got[f.call].went) = f.outcome
      <4>1. f.call \in ToSet(q.asked) \ q.waiting
        BY <3>2 DEF Answered
      <4>2. f.call \in ToSet(q.asked) \ left /\ got[f.call] = q.got[f.call]
        BY <1>1, <4>1
      <4>3. QED BY <3>2, <4>2
    <3>3. QED BY <3>1, <3>2
  <2>3. QED BY <2>1, <2>2
<1>6. QED BY <1>4, <1>5 DEF AnswersTell, left

LEMMA AnswerTells ==
    ASSUME Inv, Tells(wire, run, dumped), NEW c \in run.waiting, NEW outcome \in setup.outcomes,
           NEW parts \in setup.files, Answer(c, outcome, parts)
    PROVE  Tells(wire', run', dumped')
<1> DEFINE u == setup
           got == GotNow(c, outcome, parts)
           left == run.waiting \ {c}
           e == [event |-> "result", id |-> Fresh, call |-> c, outcome |-> Forwardable(outcome)]
           A == Answers(run.asked, got)
           H == Handed(run.asked, got)
<1>1. /\ run \in Runs(u) /\ AllAsked(run) /\ dumped \in Seq(Msgs(u)) /\ Fresh \in Nat
      /\ wire \in Seq(Events(u))
  BY InvTypes DEF Fresh
<1>2. /\ run.phase = "tools" /\ Emit(<<e>>)
      /\ run' = [run EXCEPT !.waiting = left, !.got = got, !.ids = Fresh,
                             !.phase = IF left = {} THEN "respond" ELSE @,
                             !.asked = IF left = {} THEN <<>> ELSE @]
      /\ dumped' = IF left # {} THEN dumped ELSE dumped \o A \o H
  BY DEF Answer, GotNow
<1>3. /\ c \in u.calls /\ run.asked \in Seq(u.calls) /\ got \in Gots(u)
      /\ Stay(run.got, got, c) /\ got[c] = [id |-> Fresh, went |-> outcome, parts |-> parts]
      /\ ToSet(run.asked) \ left \subseteq DOMAIN got
  <2>1. run.phase = "tools"
    BY <1>2
  <2>2. c \in u.calls /\ run.asked \in Seq(u.calls) /\ got \in Gots(u)
        /\ ToSet(run.asked) \ left \subseteq DOMAIN got
    BY <2>1, GotNowIs
  <2>3. Stay(run.got, got, c)
    BY <2>1, GotNowIs
  <2>4. got[c] = [id |-> Fresh, went |-> outcome, parts |-> parts]
    <3> DEFINE x == [id |-> Fresh, went |-> outcome, parts |-> parts]
    <3> HIDE DEF x
    <3>1. Finished(run.got, c, x)[c] = x
      BY DEF Finished
    <3>2. QED BY <3>1 DEF GotNow, x
  <2>5. QED BY <2>2, <2>3, <2>4
<1> HIDE DEF got
<1>4. got[c].went = outcome
  BY <1>3
<1>5. e \in Events(u) /\ e.event = "result" /\ e.call = c /\ e.outcome = Forwardable(outcome)
  <2>1. e \in Resulting(u)
    BY <1>1, <1>3, ForwardableIs DEF Resulting
  <2>2. QED BY <2>1 DEF Events
<1>6. /\ left # {} => run'.phase = "tools" /\ run'.asked = run.asked /\ run'.waiting = left /\ run'.got = got
      /\ left = {} => run'.phase = "respond"
  <2> HIDE DEF left
  <2>1. QED BY <1>1, <1>2 DEF Runs
<1> HIDE DEF e
<1>7. ToSet(wire') = ToSet(wire) \union {e}
  <2>1. wire' = Append(wire, e)
    BY <1>1, <1>2, <1>5, EmitsOne
  <2>2. QED BY <1>1, <1>5, <2>1, AmongMore
<1>8. run.waiting \subseteq ToSet(run.asked) /\ ToSet(run.asked) \ run.waiting \subseteq DOMAIN run.got
  BY <1>1, <1>2 DEF AllAsked
<1>9. AnswersTell(wire', run.asked, left, got, dumped)
  <2> DEFINE v == wire'
  <2>1. ToSet(v) = ToSet(wire) \union {e}
    BY <1>7
  <2> HIDE DEF v
  <2>2. AnswersTell(v, run.asked, left, got, dumped)
    BY <1>2, <1>3, <1>4, <1>5, <1>8, <2>1, AnsweredOne
  <2>3. QED BY <2>2 DEF v
<1>10. ASSUME left # {} PROVE Tells(wire', run', dumped')
  <2>1. \A x : Answered(run', x) <=> x \in ToSet(run.asked) \ left
    BY <1>6, <1>10 DEF Answered
  <2>2. dumped' = dumped /\ run'.got = got
    BY <1>2, <1>6, <1>10
  <2>3. \A m \in ToSet(dumped) : m.kind = "tool" => Heard(wire', m.call, m.went)
    BY <1>7 DEF Tells, ToldCame, Heard
  <2> HIDE DEF left
  <2>4. ToldCame(wire', run', dumped')
    BY <1>9, <2>1, <2>2, <2>3 DEF ToldCame, AnswersTell
  <2>5. ResultsTold(wire', run', dumped')
    BY <1>9, <2>1, <2>2 DEF ResultsTold, AnswersTell
  <2>6. QED BY <2>4, <2>5 DEF Tells
<1>11. ASSUME left = {} PROVE Tells(wire', run', dumped')
  <2>1. ToSet(run.asked) \subseteq DOMAIN got
    BY <1>3, <1>11
  <2>2. A \in Seq(Msgs(u)) /\ H \in Seq(Msgs(u)) /\ \A m \in ToSet(H) : m \in Handing(u)
    BY <1>3, <2>1, AnswersAre, HandedIs
  <2>3. /\ \A m \in ToSet(A) : m.kind = "tool" /\ m.call \in ToSet(run.asked) /\ m.went = got[m.call].went
        /\ \A x \in ToSet(run.asked) : \E m \in ToSet(A) : m.kind = "tool" /\ m.call = x /\ m.went = got[x].went
    BY <1>3, AnswersHave
  <2> HIDE DEF A, H
  <2>4. ToSet(dumped') = ToSet(dumped) \union ToSet(A) \union ToSet(H)
    <3>1. dumped \o A \in Seq(Msgs(u))
      BY <1>1, <2>2, ConcatProperties
    <3>2. ToSet(dumped \o A) = ToSet(dumped) \union ToSet(A)
      BY <1>1, <2>2, AmongBoth
    <3> DEFINE f == dumped \o A
    <3> HIDE DEF f
    <3>3. ToSet(f \o H) = ToSet(f) \union ToSet(H)
      BY <2>2, <3>1, AmongBoth DEF f
    <3>4. dumped' = f \o H
      BY <1>2, <1>11 DEF f
    <3>5. QED BY <3>2, <3>3, <3>4 DEF f
  <2>5. \A m \in ToSet(H) : m.kind # "tool"
    BY <2>2 DEF Handing
  <2>6. \A x : ~Answered(run', x)
    BY <1>6, <1>11 DEF Answered
  <2>7. \A m \in ToSet(dumped) : m.kind = "tool" => Heard(wire', m.call, m.went)
    BY <1>7 DEF Tells, ToldCame, Heard
  <2>8. \A x \in ToSet(run.asked) : Heard(wire', x, got[x].went)
    BY <1>9, <1>11 DEF AnswersTell
  <2>9. ToldCame(wire', run', dumped')
    BY <2>3, <2>4, <2>5, <2>6, <2>7, <2>8 DEF ToldCame
  <2>10. ASSUME NEW f \in ToSet(wire'), f.event = "result" PROVE TellsOf(dumped', f)
    <3>1. CASE TellsOf(dumped, f)
      BY <2>4, <3>1 DEF TellsOf
    <3>2. CASE f.call \in ToSet(run.asked) /\ Forwardable(got[f.call].went) = f.outcome
      BY <2>3, <2>4, <3>2 DEF TellsOf
    <3>3. QED BY <1>9, <2>10, <3>1, <3>2 DEF AnswersTell
  <2>11. ResultsTold(wire', run', dumped')
    BY <2>10 DEF ResultsTold
  <2>12. QED BY <2>9, <2>11 DEF Tells
<1>12. QED BY <1>10, <1>11

LEMMA TellsIsKept ==
    ASSUME Inv, Tells(wire, run, dumped), [Next]_vars
    PROVE  Tells(wire', run', dumped')
<1> DEFINE Goal == Tells(wire', run', dumped')
<1>0. ASSUME Grown(wire, wire') /\ Longer(dumped, dumped') /\ SameAsked(run, run') PROVE Goal
  <2> DEFINE v == wire'
             p == run'
             f == dumped'
  <2>1. Grown(wire, v) /\ Longer(dumped, f) /\ SameAsked(run, p)
    BY <1>0
  <2> HIDE DEF v, p, f
  <2>2. Tells(v, p, f)
    BY <2>1, TellsStill
  <2>3. QED BY <2>2 DEF v, p, f
<1>1. CASE UNCHANGED vars
  BY <1>1 DEF vars
<1>2. CASE Next
  <2> HIDE DEF Goal
  <2>2. ASSUME NEW x \in Say, TextPart(x) \/ ThinkingPart(x) PROVE Goal
    BY <1>0, <2>2, TextTells, ThinkingTells
  <2>3. ASSUME FilePart PROVE Goal
    BY <1>0, <2>3, FileTells
  <2>4. ASSUME NEW content \in Contents, CompactionPart(content) PROVE Goal
    BY <1>0, <2>4, CompactionTells
  <2>5. ASSUME NEW c \in Calls, CallStarts(c) PROVE Goal
    BY <1>0, <2>5, CallStartTells
  <2>6. ASSUME NEW c \in run.waiting, NEW outcome \in setup.outcomes, NEW parts \in setup.files,
               Answer(c, outcome, parts)
        PROVE  Goal
    BY <2>6, AnswerTells DEF Goal
  <2>7. ASSUME CallEnds PROVE Goal
    BY <1>0, <2>7, CallEndTells
  <2>8. ASSUME ResponseEnds PROVE Goal
    BY <1>0, <2>8, ResponseEndTells
  <2>9. ASSUME NEW x \in Say \ {Nothing}, ToolSpeaks(x) PROVE Goal
    BY <1>0, <2>9, SpeechTells
  <2>10. ASSUME NEW type \in Types, NEW id \in 1 .. Fresh, NEW content \in Contents,
                NEW replace \in BOOLEAN, ToolShows("snapshot", id, type, content, replace)
         PROVE  Goal
    BY <1>0, <2>10, ShowTells
  <2>11. ASSUME NEW type \in Types, NEW id \in 1 .. Fresh, ToolShows("delta", id, type, Nothing, TRUE)
         PROVE  Goal
    BY <1>0, <2>11, ShowTells
  <2>12. ASSUME Over PROVE Goal
    BY <2>12 DEF Over, vars, Goal
  <2>13. QED
    BY <1>2, <2>2, <2>3, <2>4, <2>5, <2>6, <2>7, <2>8, <2>9, <2>10, <2>11, <2>12 DEF Next, Goal
<1>3. QED BY <1>1, <1>2

LEMMA TellsAlways == MCSpec => [](Inv /\ Tells(wire, run, dumped))
<1>1. MCInit => Inv /\ Tells(wire, run, dumped)
  <2> SUFFICES ASSUME MCInit PROVE Inv /\ Tells(wire, run, dumped)
    OBVIOUS
  <2>1. Init
    BY DEF MCInit
  <2>2. ToSet(<<>>) = {}
    BY AmongNone
  <2>3. ToSet(wire) = {} /\ ToSet(dumped) = {} /\ run.phase = "respond"
    BY <2>1, <2>2 DEF Init
  <2>4. Tells(wire, run, dumped)
    BY <2>3 DEF Tells, ResultsTold, ToldCame, Answered
  <2>5. QED BY <2>1, <2>4, InvAtFirst
<1>2. Inv /\ Tells(wire, run, dumped) /\ [MCNext]_<<part, vars, threadVars>> => (Inv /\ Tells(wire, run, dumped))'
  <2> SUFFICES ASSUME Inv, Tells(wire, run, dumped), [MCNext]_<<part, vars, threadVars>>
               PROVE  (Inv /\ Tells(wire, run, dumped))'
    OBVIOUS
  <2>1. [Next]_vars
    BY DEF MCNext
  <2>2. Inv'
    BY <2>1, InvIsKept
  <2>3. Tells(wire', run', dumped')
    BY <2>1, TellsIsKept
  <2>4. Tells(wire, run, dumped)'
    BY <2>3
  <2>5. QED BY <2>2, <2>4
<1>3. QED BY <1>1, <1>2, PTL DEF MCSpec

LEMMA InvOutcomes ==
    ASSUME Inv, Tells(wire, run, dumped)
    PROVE  OutcomesAsStreamed
<1> DEFINE u == setup
<1>1. /\ Good(u, run.ids, wire, tr) /\ tr.items \in Seq(Items(u)) /\ dumped \in Seq(Msgs(u))
  BY InvTypes, GoodTypes
<1>2. ASSUME NEW x \in ToSet(Messages), ~IsDraft(x) PROVE x.outcome \in WireOutcomes(x.call)
  <2>1. x \in ToSet(tr.items) /\ x \in Items(u)
    BY <1>1, MessagesAre, AmongType
  <2>2. x \in Tools(u)
    BY <1>2, <2>1, ItemIs DEF Items
  <2>3. Came(wire, x)
    BY <1>1, <2>1, <2>2 DEF Good, ItemsGood, ResultsCame
  <2>4. QED BY <2>3 DEF Came, WireOutcomes, Shown, ToSet
<1>3. ASSUME run.phase = "done", NEW i \in DOMAIN dumped, dumped[i].kind = "tool",
             ~\E j \in DOMAIN dumped : j # i /\ dumped[j].kind = "tool" /\ dumped[j].call = dumped[i].call
      PROVE  WireOutcomes(dumped[i].call) = {StoredOutcome(i)}
  <2> DEFINE m == dumped[i]
             c == m.call
             out == Forwardable(m.went)
             W == {n \in AnswersTo(c) : Forwardable(n.went) # "none"}
             told == Sift(dumped, W)
  <2>1. m \in ToSet(dumped) /\ m.kind = "tool"
    BY <1>3 DEF ToSet
  <2>2. \A n \in ToSet(dumped) : n.kind = "tool" /\ n.call = c => n = m
    BY <1>3 DEF ToSet
  <2>3. AnswersTo(c) = {m}
    BY <2>1, <2>2 DEF AnswersTo
  <2>4. WireOutcomes(c) = {out}
    <3>1. Heard(wire, c, m.went)
      BY <2>1 DEF Tells, ToldCame
    <3>2. out \in WireOutcomes(c)
      BY <3>1 DEF Heard, WireOutcomes, Shown, ToSet
    <3>3. ASSUME NEW k \in Shown("result"), wire[k].call = c PROVE wire[k].outcome = out
      <4>1. wire[k] \in ToSet(wire) /\ wire[k].event = "result"
        BY DEF Shown, ToSet
      <4>2. ~Answered(run, c)
        BY <1>3 DEF Answered
      <4>3. TellsOf(dumped, wire[k])
        BY <3>3, <4>1, <4>2 DEF Tells, ResultsTold
      <4>4. QED BY <2>2, <3>3, <4>3 DEF TellsOf
    <3>4. \A x \in WireOutcomes(c) : x = out
      BY <3>3 DEF WireOutcomes
    <3>5. QED BY <3>2, <3>4
  <2>5. StoredOutcome(i) = IF told = <<>> THEN "none" ELSE Forwardable(Last(told).went)
    BY DEF StoredOutcome
  <2>6. told \in Seq(Msgs(u)) /\ ToSet(told) = ToSet(dumped) \intersect W
    BY <1>1, SiftType, SiftHas
  <2> HIDE DEF told
  <2>7. CASE out = "none"
    <3>1. W = {}
      BY <2>3, <2>7
    <3>2. told = <<>>
      <4>1. ToSet(told) = {}
        BY <2>6, <3>1
      <4>2. ASSUME told # <<>> PROVE FALSE
        <5>1. Len(told) \in DOMAIN told
          BY <2>6, <4>2, LenProperties, EmptySeq
        <5>2. told[Len(told)] \in ToSet(told)
          BY <5>1 DEF ToSet
        <5>3. QED BY <4>1, <5>2
      <4>3. QED BY <4>2
    <3>3. QED BY <2>4, <2>5, <2>7, <3>2
  <2>8. CASE out # "none"
    <3>1. W = {m}
      BY <2>3, <2>8
    <3>2. ToSet(told) = {m}
      BY <2>1, <2>6, <3>1
    <3>3. told # <<>>
      BY <3>2, AmongNone
    <3>4. Last(told) = m
      <4>1. Len(told) \in DOMAIN told
        BY <2>6, <3>3, LenProperties, EmptySeq
      <4>2. told[Len(told)] \in ToSet(told)
        BY <4>1 DEF ToSet
      <4>3. QED BY <3>2, <4>2 DEF Last
    <3>5. QED BY <2>4, <2>5, <3>3, <3>4
  <2>9. QED BY <2>7, <2>8
<1>4. QED BY <1>2, <1>3 DEF OutcomesAsStreamed

LEMMA InvNoBytes ==
    ASSUME Inv
    PROVE  NoBytesStored
<1> SUFFICES ASSUME NEW m \in ToSet(dumped), m.kind = "user"
             PROVE  UNION {n.parts : n \in Strip(m)} = m.parts \ {"data"}
  BY DEF NoBytesStored
<1>1. PICK i \in DOMAIN dumped : dumped[i] = m
  BY DEF ToSet
<1>2. m \in Handing(setup)
  BY <1>1, DumpedIs
<1> DEFINE x == [m EXCEPT !.parts = @ \ {"data"}]
<1>3. x.parts = m.parts \ {"data"}
  BY <1>2 DEF Handing
<1>4. Strip(m) = {n \in {x} : n.parts # {}}
  BY DEF Strip
<1> HIDE DEF x
<1>5. CASE x.parts = {}
  BY <1>3, <1>4, <1>5
<1>6. CASE x.parts # {}
  <2>1. Strip(m) = {x}
    BY <1>4, <1>6
  <2>2. QED BY <1>3, <2>1
<1>7. QED BY <1>5, <1>6

(* A stored result says of its call what the stream said, also when tools  *)
(* finish out of order, unless the run used the call's id again            *)
(* (_with_stored_outcome), and a file a tool handed the model is stored    *)
(* without its bytes and with all else of its message                      *)
(* (strip_binary_content), however many the calls and the ways they end.   *)
THEOREM OutcomesAreStoredAsStreamed == MCSpec => []StoredAsStreamed
<1>1. Inv /\ Tells(wire, run, dumped) => StoredAsStreamed
  BY InvOutcomes, InvNoBytes DEF StoredAsStreamed
<1>2. QED BY <1>1, TellsAlways, PTL
==============================================================================
