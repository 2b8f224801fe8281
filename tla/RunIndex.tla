------------------------------- MODULE RunIndex -------------------------------
(***************************************************************************)
(* GET runs/ (agent/runs_view.py): the newest runs of a user, each with    *)
(* whether it can be continued and the question it was started to answer,  *)
(* read from the newest snapshot of its message history.  Runs go on       *)
(* while the view awaits one snapshot after another.                       *)
(*                                                                         *)
(* A message is a sequence of parts.  A run's question is known to the     *)
(* model's history only (asked); the view has to find it in the parts.     *)
(***************************************************************************)
EXTENDS Naturals, Sequences, FiniteSets, SequencesExt

CONSTANTS
    MaxRuns,    \* bound: runs of the user
    MaxLength,  \* bound: messages of a history
    Limit       \* run_list_limit

ASSUME RunIndexAssumption == {MaxRuns, MaxLength, Limit} \subseteq Nat

VARIABLES
    runs,       \* every run, oldest first
    listed,     \* what list_runs returned, cut to the limit; run numbers
    rows,       \* the rows made of it so far, oldest first
    reading,    \* the view is between two snapshots
    index       \* the last answer

vars == <<runs, listed, rows, reading, index>>

Numbers == 1 .. MaxRuns
None == 0

\* A user prompt holds words, its run's number, or none: a picture, or the
\* file a tool handed over, which is filed as a user prompt as well.
Prompt(w) == [kind |-> "prompt", words |-> w]
Return    == [kind |-> "return", words |-> None]
Reply     == [kind |-> "reply", words |-> None]
Call      == [kind |-> "call", words |-> None]
Parts     == {Prompt(w) : w \in Numbers \union {None}} \union {Return, Reply, Call}

\* joined: the question has no words and shares its request with a round's
\* returns, where nothing tells it from a file one of the tools handed over.
Run(h, q, joined) == [history |-> h, snapshot |-> <<>>, asked |-> q, joined |-> joined]
Row(n, c, p) == [run |-> n, continuable |-> c, preview |-> p]

TypeOK ==
    /\ \A n \in DOMAIN runs :
          /\ runs[n].history \in Seq(Seq(Parts))
          /\ runs[n].snapshot \in Seq(Seq(Parts))
          /\ runs[n].asked \in Numbers \union {None}
          /\ runs[n].joined \in BOOLEAN
          /\ IsPrefix(runs[n].snapshot, runs[n].history)
    /\ listed \in Seq(DOMAIN runs)
    /\ Limit > 0 => Len(listed) <= Limit
    /\ \A r \in Range(rows) \union Range(index) :
          r \in [run : DOMAIN runs, continuable : BOOLEAN, preview : Numbers \union {None}]
    /\ Len(rows) <= Len(listed)
    /\ reading \in BOOLEAN

Init ==
    /\ runs = <<>> /\ listed = <<>> /\ rows = <<>> /\ index = <<>>
    /\ reading = FALSE

-----------------------------------------------------------------------------
\* Runs, as pydantic-ai and the step store keep their histories.

AfterRound(h) == h # <<>> /\ Last(Last(h)) # Reply

\* A new turn joins the request before it, when that is still unanswered.
Ask(h, p) ==
    IF AfterRound(h) THEN Front(h) \o <<Append(Last(h), p)>> ELSE Append(h, <<p>>)

Bases == {<<>>} \union {runs[n].snapshot : n \in DOMAIN runs}

Start ==
    /\ Len(runs) < MaxRuns
    /\ \E h \in Bases, w \in {Len(runs) + 1, None} :
          runs' = Append(runs, Run(Ask(h, Prompt(w)), w, w = None /\ AfterRound(h)))
    /\ UNCHANGED <<listed, rows, reading, index>>

\* An approval answered: the call's return is posted, and no new question.
Continue(n) ==
    /\ Len(runs) < MaxRuns
    /\ runs[n].history # <<>> /\ Last(runs[n].history) = <<Call>>
    /\ Len(runs[n].history) < MaxLength
    /\ runs' = Append(runs, Run(Append(runs[n].history, <<Return>>),
                                runs[n].asked, runs[n].joined))
    /\ UNCHANGED <<listed, rows, reading, index>>

Grow(n, m, saved) ==
    LET h == Append(runs[n].history, m)
    IN  /\ Len(h) <= MaxLength
        /\ runs' = [runs EXCEPT ![n].history = h, ![n].snapshot = IF saved THEN h ELSE @]
        /\ UNCHANGED <<listed, rows, reading, index>>

\* The model answers, or calls a tool; the tool returns, perhaps with a file
\* to read.  A snapshot is saved where every call has its return.
Answered(n) ==
    /\ Last(runs[n].history) \notin {<<Reply>>, <<Call>>}
    /\ Grow(n, <<Reply>>, TRUE) \/ Grow(n, <<Call>>, FALSE)

Returned(n) ==
    /\ Last(runs[n].history) = <<Call>>
    /\ Grow(n, <<Return>>, TRUE) \/ Grow(n, <<Return, Prompt(None)>>, TRUE)

-----------------------------------------------------------------------------
\* The view.

AnswersATool(m) == Return \in Range(m)

(* The oldest prompt in the place of the newest.                           *)
PreviewFirst(h) ==
    LET at == {p \in (DOMAIN h) \X (1 .. 3) :
                  /\ p[2] \in DOMAIN h[p[1]] /\ h[p[1]][p[2]].kind = "prompt"
                  /\ h[p[1]][p[2]].words = None => ~AnswersATool(h[p[1]])}
        oldest == CHOOSE p \in at : \A q \in at : \/ p[1] < q[1]
                                                  \/ p[1] = q[1] /\ p[2] <= q[2]
    IN  IF at = {} THEN None ELSE h[oldest[1]][oldest[2]].words

\* _preview: the newest user prompt of a history, passing over one without
\* words beside a tool's return.  A message here has three parts at most.
Preview(h) ==
    LET at == {p \in (DOMAIN h) \X (1 .. 3) :
                  /\ p[2] \in DOMAIN h[p[1]] /\ h[p[1]][p[2]].kind = "prompt"
                  /\ h[p[1]][p[2]].words = None => ~AnswersATool(h[p[1]])}
        newest == CHOOSE p \in at : \A q \in at : \/ p[1] > q[1]
                                                  \/ p[1] = q[1] /\ p[2] >= q[2]
    IN  IF at = {} THEN None ELSE h[newest[1]][newest[2]].words

(* The oldest runs, of an ascending list.                                  *)
NewestHead(s) == IF Limit = 0 THEN s ELSE SubSeq(s, 1, IF Limit < Len(s) THEN Limit ELSE Len(s))

\* _newest.
NewestRuns(s) ==
    IF Limit = 0 \/ Len(s) <= Limit THEN s ELSE SubSeq(s, Len(s) - Limit + 1, Len(s))

List ==
    /\ ~reading
    /\ listed' = NewestRuns([i \in DOMAIN runs |-> i])
    /\ reading' = TRUE
    /\ index' = <<>>
    /\ UNCHANGED <<runs, rows>>

Read ==
    LET n == listed[Len(rows) + 1]
    IN  /\ reading /\ Len(rows) < Len(listed)
        /\ rows' = Append(rows, Row(n, runs[n].snapshot # <<>>, Preview(runs[n].snapshot)))
        /\ UNCHANGED <<runs, listed, reading, index>>

Respond ==
    /\ reading /\ Len(rows) = Len(listed)
    /\ index' = Reverse(rows)
    /\ reading' = FALSE
    /\ listed' = <<>> /\ rows' = <<>>
    /\ UNCHANGED runs

Next ==
    \/ Start
    \/ \E n \in DOMAIN runs : Continue(n) \/ Answered(n) \/ Returned(n)
    \/ List \/ Read \/ Respond

Spec == Init /\ [][Next]_vars

-----------------------------------------------------------------------------
(* A row is named by its own run's question, however long the conversation *)
(* before it, whatever its tools handed over, and through an approval that *)
(* asks nothing new; by nothing when that question has no words ("it does  *)
(* not fall back to an older prompt, which would name this run after an    *)
(* earlier run's question"), but for one joined to a round's returns.      *)
NamedByItsOwnQuestion ==
    \A r \in Range(rows) :
        r.continuable /\ ~runs[r.run].joined => r.preview = runs[r.run].asked

(* The answer has each of the newest runs once, newest first, none left    *)
(* out between two and none too many, of the runs there were when it was   *)
(* asked for, whatever started meanwhile.                                  *)
NewestFirst ==
    [][/\ List /\ runs # <<>> => Last(listed') = Len(runs)
       /\ Respond =>
         /\ listed # <<>> => index'[1].run = Last(listed)
         /\ \A i, j \in DOMAIN index' : i < j => index'[i].run = index'[j].run + (j - i)
         /\ Limit > 0 => Len(index') <= Limit
         /\ listed # <<>> /\ Last(index').run > 1 => Len(index') = Limit]_vars
=============================================================================
