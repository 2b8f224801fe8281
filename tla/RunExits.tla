------------------------------- MODULE RunExits -------------------------------
(***************************************************************************)
(* The three exits of one run (AgentSession): on_complete inside the       *)
(* stream, RUN_ERROR in _persist_on_error, and a disconnect through        *)
(* guarded_stream's on_cancel, which runs as a task of its own, shielded,  *)
(* and waited for no longer than _FINALIZE_TIMEOUT_SECONDS.  What each     *)
(* leaves in the thread's row and in the audit log.                        *)
(*                                                                         *)
(* The stream is one actor here; how a disconnect unwinds it is Teardown.  *)
(***************************************************************************)
EXTENDS Naturals, Sequences

CONSTANT NEvents    \* bound: the events of the run the transcript records

ASSUME RunAssumption == NEvents \in Nat \ {0}

VARIABLES
    store,          \* what its saves do
    run,            \* where the stream of events is
    terminal,       \* the terminal event the client was handed
    transcript,     \* how many events RunTranscript has recorded
    row,            \* the thread as stored: which exit wrote it, and how much
    audits,         \* the agent.run records, in order
    guard,          \* guarded_stream
    finalizer       \* its on_cancel task

vars == <<store, run, terminal, transcript, row, audits, guard, finalizer>>

\* NullConversationStore; a store that refuses this anonymous request; one
\* that works; one whose saves may raise; one that may never answer.
Stores == {"null", "refusing", "working", "failing", "hanging"}
Storing == {"working", "failing", "hanging"}

Rows == [by : {"nobody", "complete", "error", "cancel"}, upto : 0 .. NEvents]

RunStates == {"streaming", "saving", "completed", "failing", "at_finished",
              "at_error", "returned", "broken", "closed"}

TypeOK ==
    /\ store \in Stores
    /\ run \in RunStates
    /\ terminal \in {"none", "finished", "error"}
    /\ transcript \in 0 .. NEvents
    /\ row \in Rows
    /\ audits \in Seq({"failed", "cancelled"})
    /\ guard \in {"watching", "finalizing", "over"}
    /\ finalizer \in {"none", "saving", "done"}
    /\ store \notin Storing => row.by = "nobody"

Init ==
    /\ store \in Stores
    /\ run = "streaming"
    /\ terminal = "none"
    /\ transcript = 0
    /\ row = [by |-> "nobody", upto |-> 0]
    /\ audits = <<>>
    /\ guard = "watching"
    /\ finalizer = "none"

-----------------------------------------------------------------------------
(* _save: a whole-row replace.  A store that refuses an anonymous request  *)
(* raises AnonymousOperationError, which is swallowed.                     *)
Save(by) ==
    row' = IF store \in Storing THEN [by |-> by, upto |-> transcript] ELSE row

\* A save that raises anything else.
SaveRaises == store = "failing"

Observe ==
    /\ run = "streaming"
    /\ transcript < NEvents
    /\ transcript' = transcript + 1
    /\ UNCHANGED <<store, run, terminal, row, audits, guard, finalizer>>

\* The adapter has the run's result: on_complete is None when nothing
\* persists, and otherwise saves.
Result ==
    /\ run = "streaming"
    /\ run' = IF store = "null" THEN "completed" ELSE "saving"
    /\ UNCHANGED <<store, terminal, transcript, row, audits, guard, finalizer>>

CompleteSaved ==
    /\ run = "saving"
    /\ Save("complete")
    /\ run' = "completed"
    /\ UNCHANGED <<store, terminal, transcript, audits, guard, finalizer>>

\* The adapter turns what on_complete raises into RUN_ERROR.
CompleteRaises ==
    /\ run = "saving"
    /\ SaveRaises
    /\ run' = "failing"
    /\ UNCHANGED <<store, terminal, transcript, row, audits, guard, finalizer>>

Fail ==
    /\ run = "streaming"
    /\ run' = "failing"
    /\ UNCHANGED <<store, terminal, transcript, row, audits, guard, finalizer>>

(* A RUN_ERROR handed on like any other event.                             *)
PassErrorOn ==
    /\ run = "failing"
    /\ run' = "at_error"
    /\ terminal' = "error"
    /\ UNCHANGED <<store, transcript, row, audits, guard, finalizer>>

\* _persist_on_error: save, then audit, then hand RUN_ERROR on.
RecordError ==
    /\ run = "failing"
    /\ Save("error")
    /\ audits' = Append(audits, "failed")
    /\ run' = "at_error"
    /\ terminal' = "error"
    /\ UNCHANGED <<store, transcript, guard, finalizer>>

\* Its save raised: the exception ends the stream where it stands.
RecordErrorRaises ==
    /\ run = "failing"
    /\ SaveRaises
    /\ run' = "broken"
    /\ guard' = "over"
    /\ UNCHANGED <<store, terminal, transcript, row, audits, finalizer>>

YieldFinished ==
    /\ run = "completed"
    /\ run' = "at_finished"
    /\ terminal' = "finished"
    /\ UNCHANGED <<store, transcript, row, audits, guard, finalizer>>

\* The client takes the terminal event and asks for more; there is none.
Return ==
    /\ run \in {"at_finished", "at_error"}
    /\ run' = "returned"
    /\ guard' = "over"
    /\ UNCHANGED <<store, terminal, transcript, row, audits, finalizer>>

Stream ==
    \/ Observe \/ Result \/ CompleteSaved \/ CompleteRaises \/ Fail
    \/ RecordError \/ RecordErrorRaises \/ YieldFinished \/ Return

-----------------------------------------------------------------------------
(* A guard that starts on_cancel beside a stream it has not closed.        *)
DisconnectStreamOpen ==
    /\ guard = "watching"
    /\ guard' = "finalizing"
    /\ finalizer' = "saving"
    /\ UNCHANGED <<store, run, terminal, transcript, row, audits>>

\* The client goes away at any await or yield of the stream.  A save that is
\* under way is cancelled with it, and may or may not have reached the row.
Disconnect ==
    /\ guard = "watching"
    /\ \/ UNCHANGED row
       \/ run = "saving" /\ Save("complete")
       \/ run = "failing" /\ Save("error")
    /\ run' = "closed"
    /\ guard' = "finalizing"
    /\ finalizer' = "saving"
    /\ UNCHANGED <<store, terminal, transcript, audits>>

\* The finalizer's _finalize: save, then audit.
FinalizerRecords ==
    /\ finalizer = "saving"
    /\ Save("cancel")
    /\ audits' = Append(audits, "cancelled")
    /\ finalizer' = "done"
    /\ UNCHANGED <<store, run, terminal, transcript, guard>>

\* _finalize_quietly logs what its save raises; the audit is not reached.
FinalizerRaises ==
    /\ finalizer = "saving"
    /\ SaveRaises
    /\ finalizer' = "done"
    /\ UNCHANGED <<store, run, terminal, transcript, row, audits, guard>>

\* wait_for returns: the cancellation is re-raised.
Settled ==
    /\ guard = "finalizing"
    /\ finalizer = "done"
    /\ guard' = "over"
    /\ UNCHANGED <<store, run, terminal, transcript, row, audits, finalizer>>

(* A wait without the shield: what ends the wait ends the write.           *)
LetGoUnshielded ==
    /\ guard = "finalizing"
    /\ finalizer = "saving"
    /\ guard' = "over"
    /\ finalizer' = "done"
    /\ UNCHANGED <<store, run, terminal, transcript, row, audits>>

(* A wait with no bound.                                                   *)
LetGoWhenDone ==
    /\ guard = "finalizing"
    /\ finalizer = "done"
    /\ guard' = "over"
    /\ UNCHANGED <<store, run, terminal, transcript, row, audits, finalizer>>

\* Five seconds, or a second cancellation: only the wait ends.
LetGo ==
    /\ guard = "finalizing"
    /\ finalizer = "saving"
    /\ guard' = "over"
    /\ UNCHANGED <<store, run, terminal, transcript, row, audits, finalizer>>

Finalizer == FinalizerRecords \/ FinalizerRaises

Quiescent == guard = "over" /\ finalizer \in {"none", "done"}

Over == Quiescent /\ UNCHANGED vars

Next == Stream \/ Disconnect \/ Finalizer \/ Settled \/ LetGo \/ Over

Spec == Init /\ [][Next]_vars

(* The finalizer's task runs, and a wait that is over ends.  The timeout   *)
(* is the clock's; a store is not required to answer before it, and one    *)
(* that hangs is not required to answer at all.                            *)
Fairness ==
    /\ WF_vars(store # "hanging" /\ Finalizer)
    /\ WF_vars(Settled)
    /\ WF_vars(LetGo)

FairSpec == Spec /\ Fairness

-----------------------------------------------------------------------------
(* No run reads as neither completed nor failed nor cancelled: when        *)
(* everything of it is over, either its client was handed RUN_FINISHED, or *)
(* an agent.run record says what became of it, unless a save raised.       *)
EveryExitRecorded ==
    Quiescent /\ audits = <<>> => terminal = "finished" \/ store = "failing"

(* With a store that takes what it is given, what the transcript had when  *)
(* the run left is in the row, whichever way it left and whoever stopped   *)
(* waiting for the save.                                                   *)
ExchangeStored ==
    Quiescent /\ store \in {"working", "hanging"} => row.by # "nobody" /\ row.upto = transcript

(* One writer at a time: once the disconnected run is being finalized,     *)
(* nothing but the finalizer writes its row or its audit record.           *)
FinalizerWritesAlone ==
    [][finalizer # "none" /\ <<row, audits>>' # <<row, audits>>
         => finalizer = "saving" /\ finalizer' = "done"]_vars

(* A disconnect is recorded in the end, though the client's task stopped   *)
(* waiting for it after five seconds or was cancelled again, with a store  *)
(* that answers.                                                           *)
DisconnectRecorded ==
    (guard = "finalizing" /\ store \notin {"failing", "hanging"})
        ~> (audits # <<>> /\ audits[Len(audits)] = "cancelled")

(* A store that never answers does not park the disconnected request.      *)
RequestNotParked == guard = "finalizing" ~> guard = "over"
=============================================================================
