------------------------------ MODULE ThreadStore ------------------------------
(***************************************************************************)
(* Threads and the requests that meet in them: fresh runs, runs that       *)
(* resume or fork an earlier run from its step snapshot (agui_view), the   *)
(* whole-row save of every exit (agent_session), and the thread list's     *)
(* reload and delete (threads_view); a rename changes a title only, which  *)
(* is left out.                                                            *)
(*                                                                         *)
(* A conversation is the sequence of its turns, and a turn is the run that *)
(* made it: the client's message and what was answered.                    *)
(***************************************************************************)
EXTENDS Naturals, Sequences, SequencesExt

CONSTANTS
    Threads,
    Runs,       \* bound: the runs one user starts, each with a fresh id
    NoRun,      \* a run that is nobody's source
    NoThread,
    Late,       \* TRUE: a disconnected run may be finalized after the
                \* client has gone on in its thread
    Overlap     \* TRUE: a second request may enter a thread, from another
                \* page of the same user, while one is in flight in it

ASSUME ThreadStoreAssumption ==
    /\ NoRun \notin Runs
    /\ NoThread \notin Threads
    /\ Late \in BOOLEAN
    /\ Overlap \in BOOLEAN

VARIABLES
    exists,     \* which threads have a stored row
    row,        \* what it holds
    screen,     \* what the client shows of each thread
    run,        \* where each run is
    target,     \* the thread it was posted to
    source,     \* the run it resumes or forks
    prior,      \* what it continues from
    snapshot,   \* the step ledger: a run's latest snapshot, <<>> for none
    apart       \* history: whose page showed, as the run set out, another
                \* conversation than the one it is saved onto or continues

vars == <<exists, row, screen, run, target, source, prior, snapshot, apart>>

InFlight == {"gating", "streaming", "ending"}
RunStates == {"idle", "missing", "refused", "leaving", "done"} \union InFlight

TypeOK ==
    /\ exists \in [Threads -> BOOLEAN]
    /\ row \in [Threads -> Seq(Runs)]
    /\ screen \in [Threads -> Seq(Runs)]
    /\ run \in [Runs -> RunStates]
    /\ target \in [Runs -> Threads \union {NoThread}]
    /\ source \in [Runs -> Runs \union {NoRun}]
    /\ prior \in [Runs -> Seq(Runs)]
    /\ snapshot \in [Runs -> Seq(Runs)]
    /\ apart \in [Runs -> BOOLEAN]
    /\ \A t \in Threads : exists[t] <=> row[t] # <<>>

Init ==
    /\ exists = [t \in Threads |-> FALSE]
    /\ row = [t \in Threads |-> <<>>]
    /\ screen = [t \in Threads |-> <<>>]
    /\ run = [r \in Runs |-> "idle"]
    /\ target = [r \in Runs |-> NoThread]
    /\ source = [r \in Runs |-> NoRun]
    /\ prior = [r \in Runs |-> <<>>]
    /\ snapshot = [r \in Runs |-> <<>>]
    /\ apart = [r \in Runs |-> FALSE]

-----------------------------------------------------------------------------
\* The client's side: one request at a time in a thread, unless Overlap; and a
\* store that finalizes what was left before it is asked anything else, unless
\* Late.
Free(t) ==
    /\ Overlap \/ \A r \in Runs : target[r] = t => run[r] \notin InFlight
    /\ Late \/ \A r \in Runs : target[r] = t => run[r] # "leaving"

\* A run on what the client posts: everything its page shows, and a new turn.
Fresh(r, t) ==
    /\ run[r] = "idle"
    /\ Free(t)
    /\ run' = [run EXCEPT ![r] = "streaming"]
    /\ target' = [target EXCEPT ![r] = t]
    /\ prior' = [prior EXCEPT ![r] = screen[t]]
    /\ screen' = [screen EXCEPT ![t] = Append(@, r)]
    /\ apart' = [apart EXCEPT ![r] = exists[t] /\ row[t] # screen[t]]
    /\ UNCHANGED <<exists, row, source, snapshot>>

\* _load_resume_history: no snapshot, no run.
ResumeMissing(r, s, t) ==
    /\ run[r] = "idle"
    /\ run[s] # "idle"
    /\ Free(t)
    /\ snapshot[s] = <<>>
    /\ run' = [run EXCEPT ![r] = "missing"]
    /\ UNCHANGED <<exists, row, screen, target, source, prior, snapshot, apart>>

Resume(r, s, t) ==
    /\ run[r] = "idle"
    /\ Free(t)
    /\ snapshot[s] # <<>>
    /\ run' = [run EXCEPT ![r] = "gating"]
    /\ target' = [target EXCEPT ![r] = t]
    /\ source' = [source EXCEPT ![r] = s]
    /\ prior' = [prior EXCEPT ![r] = snapshot[s]]
    /\ UNCHANGED <<exists, row, screen, snapshot, apart>>

\* The source run belongs to another thread than the one it is resumed into.
Branches(r) == source[r] # NoRun /\ target[source[r]] # target[r]

\* The run begins on its snapshot and the client's new turn; the page, which
\* posts that turn alone, goes on from what it shows.
Continue(r) ==
    /\ run' = [run EXCEPT ![r] = "streaming"]
    /\ screen' = [screen EXCEPT ![target[r]] = Append(@, r)]
    /\ apart' = [apart EXCEPT ![r] = screen[target[r]] # prior[r]]

(* A gate that only asks whether there is a source to resume.              *)
GateAnyway(r) ==
    /\ run[r] = "gating"
    /\ Continue(r)
    /\ UNCHANGED <<exists, row, target, source, prior, snapshot>>

\* _would_overwrite_another_thread, and the 409 it is answered with.
Gate(r) ==
    /\ run[r] = "gating"
    /\ IF Branches(r) /\ exists[target[r]]
       THEN run' = [run EXCEPT ![r] = "refused"] /\ UNCHANGED <<screen, apart>>
       ELSE Continue(r)
    /\ UNCHANGED <<exists, row, target, source, prior, snapshot>>

\* The step-persistence capability checkpoints the run's history.
Checkpoint(r) ==
    /\ run[r] = "streaming"
    /\ snapshot' = [snapshot EXCEPT ![r] = Append(prior[r], r)]
    /\ UNCHANGED <<exists, row, screen, run, target, source, prior, apart>>

(* A save of the new turn alone.                                           *)
SaveTurnOnly(r) ==
    /\ exists' = [exists EXCEPT ![target[r]] = TRUE]
    /\ row' = [row EXCEPT ![target[r]] =
                   IF run[r] = "leaving" THEN <<r>> ELSE Append(prior[r], r)]

\* Every exit saves the row whole: what came before and this run's turn.
Save(r) ==
    /\ exists' = [exists EXCEPT ![target[r]] = TRUE]
    /\ row' = [row EXCEPT ![target[r]] = Append(prior[r], r)]

\* Completed or failed: saved inside the stream, before its terminal event.
Finish(r) ==
    /\ run[r] = "streaming"
    /\ Save(r)
    /\ run' = [run EXCEPT ![r] = "ending"]
    /\ UNCHANGED <<screen, target, source, prior, snapshot, apart>>

\* The client has the terminal event, and the stream ends.
Return(r) ==
    /\ run[r] = "ending"
    /\ run' = [run EXCEPT ![r] = "done"]
    /\ UNCHANGED <<exists, row, screen, target, source, prior, snapshot, apart>>

\* guarded_stream knows no saved run from another: one that is left at its
\* terminal event is finalized as well.
Disconnect(r) ==
    /\ run[r] \in {"streaming", "ending"}
    /\ run' = [run EXCEPT ![r] = "leaving"]
    /\ UNCHANGED <<exists, row, screen, target, source, prior, snapshot, apart>>

\* The disconnected run's finalizer, a task of its own.
Finalize(r) ==
    /\ run[r] = "leaving"
    /\ Save(r)
    /\ run' = [run EXCEPT ![r] = "done"]
    /\ UNCHANGED <<screen, target, source, prior, snapshot, apart>>

-----------------------------------------------------------------------------
(* ThreadsView.                                                            *)

Reload(t) ==
    /\ Free(t)
    /\ exists[t]
    /\ screen' = [screen EXCEPT ![t] = row[t]]
    /\ UNCHANGED <<exists, row, run, target, source, prior, snapshot, apart>>

Delete(t) ==
    /\ Free(t)
    /\ exists' = [exists EXCEPT ![t] = FALSE]
    /\ row' = [row EXCEPT ![t] = <<>>]
    /\ screen' = [screen EXCEPT ![t] = <<>>]
    /\ UNCHANGED <<run, target, source, prior, snapshot, apart>>

Over == (\A r \in Runs : run[r] \notin {"idle", "leaving"} \union InFlight) /\ UNCHANGED vars

Next ==
    \/ \E r \in Runs, t \in Threads :
        \/ Fresh(r, t)
        \/ \E s \in Runs : ResumeMissing(r, s, t) \/ Resume(r, s, t)
    \/ \E r \in Runs :
        \/ Gate(r) \/ Checkpoint(r)
        \/ Finish(r) \/ Return(r) \/ Disconnect(r) \/ Finalize(r)
    \/ \E t \in Threads : Reload(t) \/ Delete(t)
    \/ Over

Spec == Init /\ [][Next]_vars

-----------------------------------------------------------------------------
\* The steps that save a run.
Saved(r) == <<run[r], run'[r]>> \in {<<"streaming", "ending">>, <<"leaving", "done">>}

Quiet(t) == \A r \in Runs : target[r] = t => run[r] \notin InFlight \union {"leaving"}

\* What is stored is what the last run on the screen went on from, and that run.
MatchesClient(t) ==
    /\ screen[t] # <<>>
    /\ LET r == Last(screen[t])
       IN /\ row[t] = Append(prior[r], r)
          /\ row[t] = screen[t] \/ (source[r] # NoRun /\ apart[r])

(* The durable thread reads like the client's, whichever way each of its   *)
(* runs ended: "a durable thread reflects the truncated exchange, matching *)
(* the client, which keeps the partial assistant bubble".  Only after a    *)
(* resume on a page that showed anything else than the snapshot does the   *)
(* page show another conversation than the one that ends in the same run.  *)
ThreadMatchesClient == \A t \in Threads : Quiet(t) /\ exists[t] => MatchesClient(t)

(* No turn leaves a stored thread but by being deleted with it, by a run   *)
(* resumed from an earlier point of that same thread, or by a page that    *)
(* never loaded it: not by a fresh run on what is stored, not by a branch, *)
(* and not by a run that failed or was left.                               *)
NoTurnLost ==
    [][\A t \in Threads : exists[t] /\ exists'[t] =>
          \/ ToSet(row[t]) \subseteq ToSet(row'[t])
          \/ \E r \in Runs : /\ Saved(r)
                             /\ target[r] = t
                             /\ IF source[r] = NoRun THEN apart[r] ELSE ~Branches(r)]_vars

(* A branch may not land on top of an existing conversation ("A branch may *)
(* not land on top of an existing conversation"): what it saves is a new   *)
(* row, or once more the one it made, when it is left after its save.      *)
BranchLandsOnNothing ==
    [][\A r \in Runs :
          Saved(r) /\ Branches(r) =>
              ~exists[target[r]] \/ row[target[r]] = Append(prior[r], r)]_vars
=============================================================================
