---------------------------- MODULE ResumedThread ----------------------------
(***************************************************************************)
(* One thread whose later runs take their history from the step ledger:    *)
(* what continued_history keeps of a snapshot and of the client's post,    *)
(* and the ids lend_stored_ids gives the dumped history back before        *)
(* AgentSession._prior_messages stores it ahead of the run's own messages. *)
(*                                                                         *)
(* Ids and call ids are drawn from one counter.  A user message's text is  *)
(* the number of its turn; an answer says one of Texts.                    *)
(***************************************************************************)
EXTENDS Naturals, Sequences, SequencesExt, FiniteSetsExt

CONSTANTS
    Texts,    \* what an answer can say
    MaxTurns  \* bound: runs of the thread

ThreadAssumption == MaxTurns \in Nat

NoId == 0

VARIABLES
    runs,  \* the snapshots of the runs that can be continued, in order
    row,   \* the stored conversation
    shown, \* the messages as the client has them
    turn,  \* runs so far
    ids,   \* ids drawn so far
    whole,    \* history: the last run to store the row left a snapshot too
    diverged  \* history: a run went on from another conversation than its page's

vars == <<runs, row, shown, turn, ids, whole, diverged>>

-----------------------------------------------------------------------------
(* Messages of the wire, and of the model's history.  of is history: the   *)
(* id under which the client was first shown a message or a part.          *)

Message(kind, id, text, calls, of) ==
    [kind |-> kind, id |-> id, text |-> text, calls |-> calls, of |-> of]

User(id) == Message("user", id, turn, <<>>, id)
Text(id, t) == Message("text", id, t, <<>>, id)
Calling(id, calls) == Message("calls", id, "none", calls, id)
Result(id, c) == Message("tool", id, "none", <<c>>, id)

\* A ModelRequest or ModelResponse: its parts, as messages, and the id
\* recorded when it was loaded from the client's.
Part(request, parts, id) == [request |-> request, parts |-> parts, id |-> id]

IsResponse(m) == m.kind \in {"text", "calls"}
IsUser(m) == m.kind = "user"
IsResult(m) == m.kind = "tool"

\* AGUIAdapter.load_messages: neighbours of the request side fold into one,
\* which has the id of the last.
LoadOne(h, m) ==
    IF ~IsResponse(m) /\ h # <<>> /\ Last(h).request
    THEN Append(Front(h), Part(TRUE, Append(Last(h).parts, m), m.id))
    ELSE Append(h, Part(~IsResponse(m), <<m>>, m.id))

Load(h, messages) == FoldLeft(LoadOne, h, messages)

\* AGUIAdapter.dump_messages: a loaded message's id is restored on the last
\* message it dumps as, the others get fresh ones.
Dump(h) ==
    LET sent == FlattenSeq([i \in DOMAIN h |->
                  [j \in DOMAIN h[i].parts |->
                     [h[i].parts[j] EXCEPT !.id = IF j = Len(h[i].parts) THEN h[i].id ELSE NoId]]])
    IN [k \in DOMAIN sent |-> IF sent[k].id = NoId THEN [sent[k] EXCEPT !.id = ids + 4 + k] ELSE sent[k]]

ResultCalls(messages) == {m.calls[1] : m \in {n \in ToSet(messages) : IsResult(n)}}

CallsIn(messages) == UNION {ToSet(m.calls) : m \in {n \in ToSet(messages) : n.kind = "calls"}}

PartsOf(h) == FlattenSeq([i \in DOMAIN h |-> h[i].parts])

\* pending_tool_calls
Pending(h) == CallsIn(PartsOf(h)) \ ResultCalls(PartsOf(h))

-----------------------------------------------------------------------------
(* continued_history.                                                      *)

\* _after_last_response
NewTurn(posted) ==
    SubSeq(posted, Max({0} \union {i \in DOMAIN posted : IsResponse(posted[i])}) + 1, Len(posted))

\* _turn_id: the last message of the new turn that loads into a part.
TurnId(h, posted) ==
    LET loads(m) == IsUser(m) \/ m.calls[1] \in CallsIn(posted) \union Pending(h)
        naming == SelectSeq(NewTurn(posted), loads)
    IN IF naming = <<>> THEN NoId ELSE Last(naming).id

\* _names
Names(part, id) == part.request /\ (\E m \in ToSet(part.parts) : IsUser(m)) /\ part.id = id

(* The cut leaves nothing of the request it is at.                         *)
KeptShort(h, posted) ==
    LET at == {i \in DOMAIN h : Names(h[i], TurnId(h, posted))}
    IN IF at = {} THEN h ELSE SubSeq(h, 1, Min(at) - 1)

Kept(h, posted) ==
    LET at == {i \in DOMAIN h : Names(h[i], TurnId(h, posted))}
        cut == Min(at)
        results == SelectSeq(h[cut].parts, IsResult)
    IN IF at = {} THEN h
       ELSE SubSeq(h, 1, cut - 1) \o (IF results = <<>> THEN <<>> ELSE <<Part(TRUE, results, NoId)>>)

(* The client's turn with every result it holds.                           *)
ResubmittedAll(h, posted) == NewTurn(posted)

Resubmitted(h, posted) ==
    LET answered == ResultCalls(PartsOf(Kept(h, posted)))
    IN SelectSeq(NewTurn(posted), LAMBDA m : ~(IsResult(m) /\ m.calls[1] \in answered))

-----------------------------------------------------------------------------
(* lend_stored_ids.                                                        *)

\* _kind_and_key
Key(m) == CASE IsUser(m) -> <<"none">>
            [] IsResult(m) -> <<"tool", m.calls>>
            [] m.kind = "calls" -> <<"calls", m.calls>>
            [] m.kind = "text" -> <<"text", m.text>>

(* The next row message of the kind, whatever it says.                     *)
NextOfKind(stored, after, m) ==
    {i \in DOMAIN stored : ~IsUser(m) /\ i > after[m.kind] /\ stored[i].kind = m.kind}

(* Any row message with the key, the first one there is.                   *)
FirstMatch(stored, after, m) == {i \in DOMAIN stored : ~IsUser(m) /\ Key(stored[i]) = Key(m)}

\* _next_match: the row messages of the kind, past the last one taken.
NextMatch(stored, after, m) ==
    {i \in DOMAIN stored : ~IsUser(m) /\ i > after[m.kind] /\ Key(stored[i]) = Key(m)}

Under(m, id) == IF id = NoId THEN m ELSE [m EXCEPT !.id = id]

LendStoredIds(messages, stored, reserved) ==
    LET carried == {m.id : m \in ToSet(messages)}
        lend(s, m) ==
            LET at == NextMatch(stored, s.after, m)
                found == IF at = {} THEN NoId ELSE stored[Min(at)].id
                lent == IF found \in s.taken \union carried THEN NoId ELSE found
            IN [after |-> IF at = {} THEN s.after ELSE [s.after EXCEPT ![m.kind] = Min(at)],
                taken |-> s.taken \union {lent},
                out |-> Append(s.out, Under(m, lent))]
    IN FoldLeft(lend, [after |-> [k \in {"user", "text", "calls", "tool"} |-> 0],
                       taken |-> reserved, out |-> <<>>], messages).out

\* _prior_messages, of a run whose history is the server's.
Prior(h, posted) ==
    LET newTurn == Resubmitted(h, posted)
    IN LendStoredIds(Dump(Kept(h, posted)), row, {m.id : m \in ToSet(newTurn)}) \o newTurn

-----------------------------------------------------------------------------
(* The runs.  The adapter decides on its own: it loads the new turn, less  *)
(* the results nothing waits for, into one request; a stored request with  *)
(* a prompt and the same id is where the history ends, its results kept.   *)
RunHistory(h, posted) ==
    LET waited(m) == IsUser(m) \/ m.calls[1] \in CallsIn(posted) \union Pending(h)
        loaded == Load(<<>>, SelectSeq(NewTurn(posted), waited))
        resent(part) == /\ loaded # <<>>
                        /\ part.id = loaded[1].id
                        /\ \E m \in ToSet(part.parts) : IsUser(m)
        cut == SelectInSeq(h, resent)
        kept == IF cut = 0 THEN h ELSE Load(SubSeq(h, 1, cut - 1), SelectSeq(h[cut].parts, IsResult))
        sent(m) == waited(m) /\ ~(IsResult(m) /\ m.calls[1] \in ResultCalls(PartsOf(kept)))
    IN Load(kept, SelectSeq(NewTurn(posted), sent))

\* The ids before this are the client's and the dump's.
Drawn == ids + 5 + 4 * MaxTurns

\* What a run makes of it: an answer, a call of one of the server's tools and
\* an answer, or two calls for the client to answer.
Outcomes ==
    {<<Text(Drawn, t)>> : t \in Texts}
      \union {<<Calling(Drawn, <<Drawn + 1>>), Result(Drawn + 2, Drawn + 1), Text(Drawn + 3, t)>> : t \in Texts}
      \union {<<Calling(Drawn, <<Drawn + 1, Drawn + 2>>)>>}

\* What a run generated carries no id of the client's.
Generated(h, made) == h \o [i \in DOMAIN made |-> Part(~IsResponse(made[i]), <<made[i]>>, NoId)]

Completes(prior, h, made) ==
    /\ row' = prior \o made
    /\ runs' = Append(runs, Generated(h, made))
    /\ whole' = TRUE

\* What a run that failed or was cancelled has streamed by then: a text, or a
\* call, its result (that it was interrupted, where there was none), perhaps
\* what was said of it.
Streamed ==
    LET called == <<Calling(Drawn, <<Drawn + 1>>), Result(Drawn + 2, Drawn + 1)>>
    IN {<<Text(Drawn, t)>> : t \in Texts} \union {called}
         \union {Append(called, Text(Drawn + 3, t)) : t \in Texts}

\* Where the capability checkpoints a run ("a run that never reached a
\* provider-valid boundary has no snapshot"): past its first answer, wherever
\* no call is pending.
Boundaries(h, made) ==
    {k \in DOMAIN made : Pending(Generated(h, SubSeq(made, 1, k))) = {}}

\* Stored from the transcript, with the last snapshot the run has left, if any.
Fails(prior, h, made) ==
    /\ row' = prior \o made
    /\ \/ UNCHANGED runs /\ whole' = FALSE
       \/ \E k \in Boundaries(h, made) :
            /\ runs' = Append(runs, Generated(h, SubSeq(made, 1, k)))
            /\ whole' = (k = Len(made))

\* A thread's content; a result of a call that is nowhere in it, which the
\* adapter drops and the row keeps as posted, apart.
Content(messages) ==
    LET told == SelectSeq(messages, LAMBDA m : IsResult(m) => m.calls[1] \in CallsIn(messages))
    IN [i \in DOMAIN told |-> [told[i] EXCEPT !.id = NoId]]

Turn(view, prior, h) ==
    /\ turn < MaxTurns
    /\ turn' = turn + 1
    /\ ids' = Drawn + 4
    /\ diverged' = (diverged \/ Content(view) # Content(PartsOf(h)))
    /\ \/ \E made \in Outcomes : Completes(prior, h, made) /\ shown' = view \o made
       \/ \E made \in Streamed : Fails(prior, h, made) /\ shown' = view \o made

Init ==
    /\ runs = <<>> /\ row = <<>> /\ shown = <<>>
    /\ turn = 1 /\ ids = 0 /\ whole = TRUE /\ diverged = FALSE

\* The client's next message: the results of the calls it was left with, a
\* question, or one it asked before, edited.
Waiting == SetToSeq(CallsIn(shown) \ ResultCalls(shown))

Answers == [i \in DOMAIN Waiting |-> Result(ids + 2 + i, Waiting[i])]

Views ==
    (IF Waiting = <<>> THEN {} ELSE {shown \o Answers})
      \union {shown \o Answers \o <<User(ids + 1)>>}
      \union {Append(SubSeq(shown, 1, k - 1), User(shown[k].id)) :
                k \in {i \in DOMAIN shown : IsUser(shown[i])}}

\* A run on what the client posted.
PlainRun == \E view \in Views : Turn(view, view, Load(<<>>, view))

\* A run on the last snapshot: the client posts all it has, its new turn, or
\* no more than its question.
ResumedRun ==
    /\ runs # <<>>
    /\ \E view \in Views :
       \E posted \in {view, NewTurn(view)} \union (IF Waiting = <<>> THEN {<<Last(view)>>} ELSE {}) :
        Turn(view, Prior(Last(runs), posted), RunHistory(Last(runs), posted))

\* A run picked from the list, into the thread as it is shown.
EarlierRun ==
    /\ \E r \in DOMAIN runs :
        /\ Pending(runs[r]) = {}
        /\ LET posted == <<User(ids + 1)>>
           IN Turn(shown \o posted, Prior(runs[r], posted), RunHistory(runs[r], posted))

\* The client loads the thread again.
Reload ==
    /\ shown # row
    /\ shown' = row
    /\ UNCHANGED <<runs, row, turn, ids, whole, diverged>>

Over == turn = MaxTurns /\ UNCHANGED vars

Next == PlainRun \/ ResumedRun \/ EarlierRun \/ Reload \/ Over

Spec == Init /\ [][Next]_vars

-----------------------------------------------------------------------------
TypeOK ==
    /\ turn \in 1 .. MaxTurns
    /\ \A m \in ToSet(row \o shown) :
        /\ m.kind \in {"user", "text", "calls", "tool"}
        /\ m.id \in 1 .. ids /\ m.of \in 1 .. ids
    /\ \A r \in DOMAIN runs : \A i \in DOMAIN runs[r] : runs[r][i].id \in 0 .. ids

(* No id names two messages of the stored thread, and no call is answered  *)
(* twice in it, however much of the thread the client posts back and       *)
(* whatever it had edited: a rating finds one message, and the next run    *)
(* loads a history a provider takes.                                       *)
RowNamesApart ==
    \A i, j \in DOMAIN row : i # j =>
        /\ row[i].id # row[j].id
        /\ ~(IsResult(row[i]) /\ IsResult(row[j]) /\ row[i].calls = row[j].calls)

(* After a run completes the stored thread reads the way the run did: the  *)
(* snapshot's messages, cut where the client resubmitted one of them, then *)
(* its new turn, then what the run made, nothing twice and nothing left    *)
(* out.                                                                    *)
RowReadsAsTheRun == whole /\ runs # <<>> => Content(row) = Content(PartsOf(Last(runs)))

(* A thread whose runs each continue what its page shows keeps every       *)
(* message under the id the client was first shown it by, however often    *)
(* its answers repeat: nothing is named afresh, or by another's id.        *)
KeepsShownIds == ~diverged => \A m \in ToSet(row) : m.id = m.of

(* Even when earlier runs are resumed and the row no longer is the         *)
(* conversation of the snapshot, an answer, a call or a result is never    *)
(* stored under an id under which the client holds another one's words.    *)
IdKeepsItsWords ==
    \A m \in ToSet(row), n \in ToSet(shown) :
        m.id = n.id => m.kind = n.kind /\ (~IsUser(m) => Key(m) = Key(n))
=============================================================================
