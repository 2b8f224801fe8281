------------------------------ MODULE MCMessages ------------------------------
(***************************************************************************)
(* What a run's messages are stored as: the ids and the words of the run's *)
(* own (Transcript), and those of the history before it where the server   *)
(* has that (ResumedThread).  The two meet in AgentSession._on_complete,   *)
(* which appends the one to the other; each is explored with the other at  *)
(* rest.                                                                   *)
(***************************************************************************)
EXTENDS Transcript

CONSTANTS a, b, c1, c2, k1, k2, Sayings, MaxTurns

VARIABLES
    part,       \* which of the two is explored
    runs, row, shown, turn, ids, whole, diverged

History == INSTANCE ResumedThread WITH Texts <- Sayings

ASSUME History!ThreadAssumption

threadVars == <<runs, row, shown, turn, ids, whole, diverged>>

\* Two texts, so that ones that should differ may agree, and two call ids to
\* finish out of order and to use again.
Varied == [texts |-> {a, b}, calls |-> {c1, c2}, types |-> {}, contents |-> {},
           outcomes |-> {"success"}, files |-> {{}},
           forward |-> TRUE, parentless |-> FALSE, maxParts |-> 5]

\* One text, in enough parts for a split and a join to cancel out.
Repeated == [Varied EXCEPT !.texts = {a}, !.calls = {c1}, !.maxParts = 6]

\* Activities of the provider and of tools, thoughts withheld.
Active == [Repeated EXCEPT !.types = {Provider, "chart"}, !.contents = {k1, k2},
                           !.forward = FALSE, !.maxParts = 4]

\* Calls that name no parent.
Orphan == [Repeated EXCEPT !.calls = {c1, c2}, !.parentless = TRUE, !.maxParts = 4]

\* Calls that end in every way and hand over what a tool can.
Judged == [Orphan EXCEPT !.parentless = FALSE, !.maxParts = 2,
                         !.outcomes = {"success", "failed", "denied", "interrupted", "retried"},
                         !.files = {{}, {"text", "data"}, {"data"}, {"url"}}]

Written == {Varied, Repeated, Active, Orphan, Judged}

MCInit ==
    /\ Init /\ History!Init
    /\ \/ part = "run"
       \/ part = "history" /\ setup = Varied

MCNext ==
    /\ UNCHANGED part
    /\ \/ part = "run" /\ Next /\ UNCHANGED threadVars
       \/ part = "history" /\ History!Next /\ UNCHANGED vars

MCSpec == MCInit /\ [][MCNext]_<<part, vars, threadVars>>

-----------------------------------------------------------------------------
(* A run cut short is stored as it streamed, calls and results in order.   *)
CutShortIsStored == TypeOK /\ StoresWhatStreamed /\ CallsLandInOrder

(* A stored message says how its call went as the stream did, and holds no *)
(* bytes of the server's own.                                              *)
StoredAsStreamed == OutcomesAsStreamed /\ NoBytesStored

(* A stored thread reads the way its last run did.                         *)
RowReadsAsTheRun == History!TypeOK /\ History!RowReadsAsTheRun

(* No id or call names two messages of a stored thread, none names words   *)
(* the client has under another, and a message keeps the id the client was *)
(* first shown it by.                                                      *)
IdsAreKept == History!RowNamesApart /\ History!KeepsShownIds /\ History!IdKeepsItsWords
=============================================================================
