------------------------------- MODULE Teardown -------------------------------
(***************************************************************************)
(* A disconnected run being torn down: guarded_stream, the heartbeat and   *)
(* subagent stages under it, their two pumps, and the provider's stream,   *)
(* nested as AgentSession.stream composes them:                            *)
(*                                                                         *)
(*   guarded_stream > heartbeat_stream |pump 1| encode_stream > ... >      *)
(*       inject_subagent_events |pump 2| ... > native_events               *)
(*                                                                         *)
(* An async generator is running (some task is inside it), suspended at a  *)
(* yield, or closed, and only a suspended one can be closed: closing a     *)
(* running one raises "already running".  A GeneratorExit closes the one   *)
(* generator it is delivered to, and what that one's finally closes.       *)
(*                                                                         *)
(* Two saves are awaited inside the stack: _on_complete's, in pump 2 and   *)
(* under transform_stream, with the provider's stream suspended at its     *)
(* result; and _persist_on_error's, under the encoder, with the racing     *)
(* stage suspended at RUN_ERROR.  Either may be cancelled, or may raise.   *)
(***************************************************************************)
VARIABLES
    guard,      \* where guarded_stream, and with it the request's task, is
    heart,      \* heartbeat_stream, absent when heartbeat_seconds is 0
    pump1,      \* its pump task
    frame,      \* what pump 1 has put and heartbeat_stream not yet taken
    encoder,    \* encode_stream and the plain generators under it
    stage,      \* inject_subagent_events
    pump2,      \* its pump task
    event,      \* what pump 2 has put and the stage not yet taken
    native,     \* the provider's stream; "left" is suspended for good, with
                \* transform_stream past its loop
    shape,      \* how the disconnect was delivered
    refused     \* history: generators a close found running

vars == <<guard, heart, pump1, frame, encoder, stage, pump2, event, native,
          shape, refused>>

PumpStates == {"unborn", "born", "pulling", "saving", "joining", "released",
               "cancelled_pulling", "cancelled_saving", "cancelled_joining",
               "unwinding", "done"}
Generator == {"unstarted", "running", "suspended", "closed"}

TypeOK ==
    /\ guard \in {"inside", "at_yield", "unwinding", "closing_stream",
                  "closing_stage", "closing_native", "finalizing", "over"}
    /\ heart \in {"absent", "waiting", "at_frame", "at_beat", "discarding", "closed"}
    /\ pump1 \in PumpStates
    /\ frame \in {"none", "frame", "end"}
    /\ encoder \in Generator \union {"saving"}
    /\ stage \in {"unstarted", "waiting", "at_event", "at_progress",
                  "discarding", "closed"}
    /\ pump2 \in PumpStates
    /\ event \in {"none", "item", "error", "end"}
    /\ native \in Generator \union {"left"}
    /\ shape \in {"none", "cancelled", "exit"}
    /\ refused \subseteq {"stage", "native"}
    /\ heart = "absent" => pump1 = "unborn" /\ frame = "none"

Heartbeat == heart # "absent"

\* The client has pulled the response for the first time.
Init ==
    /\ guard = "inside"
    /\ heart \in {"absent", "waiting"}
    /\ pump1 = IF Heartbeat THEN "born" ELSE "unborn"
    /\ frame = "none"
    /\ encoder = IF Heartbeat THEN "unstarted" ELSE "running"
    /\ stage = IF Heartbeat THEN "unstarted" ELSE "waiting"
    /\ pump2 = IF Heartbeat THEN "unborn" ELSE "born"
    /\ event = "none"
    /\ native = "unstarted"
    /\ shape = "none"
    /\ refused = {}

-----------------------------------------------------------------------------
(* The run as it streams.                                                  *)

Pump1Begins ==
    /\ pump1 = "born"
    /\ pump1' = "pulling"
    /\ encoder' = "running"
    /\ stage' = "waiting"
    /\ pump2' = "born"
    /\ UNCHANGED <<guard, heart, frame, event, native, shape, refused>>

\* transform_stream opens with RUN_STARTED, before it asks the provider.
Pump2Begins ==
    /\ pump2 = "born"
    /\ pump2' = "joining"
    /\ event' = "item"
    /\ UNCHANGED <<guard, heart, pump1, frame, encoder, stage, native, shape, refused>>

\* What pump 2 drives hands an event on, an ordinary one or RUN_ERROR, or is
\* over.
HandsOn(e) == pump2' = "joining" /\ event' = e
IsOver     == pump2' = "done" /\ event' = "end"

NativeYields ==
    /\ pump2 = "pulling"
    /\ native' = "suspended"
    /\ HandsOn("item")
    /\ UNCHANGED <<guard, heart, pump1, frame, encoder, stage, shape, refused>>

\* It ends or raises; the adapter closes what is open and hands its terminal
\* event on, if it has one.
NativeEnds ==
    /\ pump2 = "pulling"
    /\ native' = "closed"
    /\ HandsOn("item") \/ HandsOn("error") \/ IsOver
    /\ UNCHANGED <<guard, heart, pump1, frame, encoder, stage, shape, refused>>

\* The run's result: _on_complete is awaited before anything else is asked.
NativeResult ==
    /\ pump2 = "pulling"
    /\ native' = "suspended"
    /\ pump2' = "saving"
    /\ UNCHANGED <<guard, heart, pump1, frame, encoder, stage, event, shape, refused>>

ResultSaved ==
    /\ pump2 = "saving"
    /\ pump2' = "pulling"
    /\ native' = "running"
    /\ UNCHANGED <<guard, heart, pump1, frame, encoder, stage, event, shape, refused>>

\* The adapter makes RUN_ERROR of what the save raised, and asks the
\* provider's stream for nothing more.
ResultRaises ==
    /\ pump2 = "saving"
    /\ native' = "left"
    /\ HandsOn("error")
    /\ UNCHANGED <<guard, heart, pump1, frame, encoder, stage, shape, refused>>

\* join() has returned.
Pump2Joins ==
    /\ pump2 = "released"
    /\ native \in {"unstarted", "suspended"}
    /\ pump2' = "pulling"
    /\ native' = "running"
    /\ UNCHANGED <<guard, heart, pump1, frame, encoder, stage, event, shape, refused>>

\* Past the provider's stream there may be more to hand on, RUN_FINISHED or
\* RUN_ERROR say.
Pump2Finishes ==
    /\ pump2 = "released"
    /\ native \in {"closed", "left"}
    /\ HandsOn("item") \/ HandsOn("error") \/ IsOver
    /\ UNCHANGED <<guard, heart, pump1, frame, encoder, stage, native, shape, refused>>

\* Whoever iterates the encoder hands its frame on: pump 1 puts it and joins,
\* or, with no heartbeat, the guard yields it.
FrameOut ==
    /\ encoder' = "suspended"
    /\ IF Heartbeat
       THEN /\ pump1' = "joining"
            /\ frame' = "frame"
            /\ UNCHANGED guard
       ELSE /\ guard' = "at_yield"
            /\ UNCHANGED <<pump1, frame>>

\* The stage and its driver are live: not being cancelled.
StageDriven == IF Heartbeat THEN pump1 = "pulling" ELSE guard = "inside"

StageEvent ==
    /\ stage = "waiting"
    /\ StageDriven
    /\ event \in {"item", "error"}
    /\ event' = "none"
    /\ stage' = "at_event"
    /\ FrameOut
    /\ UNCHANGED <<heart, pump2, native, shape, refused>>

\* RUN_ERROR, with a store: _persist_on_error awaits its save before it
\* hands the event on, so the stage is at its yield and no frame is out.
ErrorSaves ==
    /\ stage = "waiting"
    /\ StageDriven
    /\ event = "error"
    /\ event' = "none"
    /\ stage' = "at_event"
    /\ encoder' = "saving"
    /\ UNCHANGED <<guard, heart, pump1, frame, pump2, native, shape, refused>>

ErrorSaved ==
    /\ encoder = "saving"
    /\ StageDriven
    /\ FrameOut
    /\ UNCHANGED <<heart, stage, pump2, event, native, shape, refused>>

\* What that save raises ends the encoder, and with no heartbeat the guard,
\* which looks for a disconnect only.  Nobody closes the stage at its yield.
ErrorSaveRaises ==
    /\ encoder = "saving"
    /\ StageDriven
    /\ encoder' = "closed"
    /\ IF Heartbeat
       THEN pump1' = "done" /\ frame' = "end" /\ UNCHANGED guard
       ELSE guard' = "over" /\ UNCHANGED <<pump1, frame>>
    /\ UNCHANGED <<heart, stage, pump2, event, native, shape, refused>>

\* A delegation announces; pump 2 may well be inside the provider's stream.
StageProgress ==
    /\ stage = "waiting"
    /\ StageDriven
    /\ native \in {"running", "suspended"}
    /\ stage' = "at_progress"
    /\ FrameOut
    /\ UNCHANGED <<heart, pump2, event, native, shape, refused>>

StageEnds ==
    /\ stage = "waiting"
    /\ StageDriven
    /\ event = "end"
    /\ event' = "none"
    /\ stage' = "discarding"
    /\ UNCHANGED <<guard, heart, pump1, frame, encoder, pump2, native, shape, refused>>

\* The stage is resumed after its yield; after an event that is task_done().
ResumeStage ==
    /\ encoder' = "running"
    /\ stage' = "waiting"
    /\ pump2' = IF stage = "at_event" THEN "released" ELSE pump2

Pump1Joins ==
    /\ pump1 = "released"
    /\ pump1' = "pulling"
    /\ ResumeStage
    /\ UNCHANGED <<guard, heart, frame, event, native, shape, refused>>

HeartFrame ==
    /\ guard = "inside"
    /\ heart = "waiting"
    /\ frame = "frame"
    /\ frame' = "none"
    /\ heart' = "at_frame"
    /\ guard' = "at_yield"
    /\ UNCHANGED <<pump1, encoder, stage, pump2, event, native, shape, refused>>

HeartBeat ==
    /\ guard = "inside"
    /\ heart = "waiting"
    /\ heart' = "at_beat"
    /\ guard' = "at_yield"
    /\ UNCHANGED <<pump1, frame, encoder, stage, pump2, event, native, shape, refused>>

HeartEnds ==
    /\ guard = "inside"
    /\ heart = "waiting"
    /\ frame = "end"
    /\ frame' = "none"
    /\ heart' = "discarding"
    /\ UNCHANGED <<guard, pump1, encoder, stage, pump2, event, native, shape, refused>>

ClientReads ==
    /\ guard = "at_yield"
    /\ guard' = "inside"
    /\ IF Heartbeat
       THEN /\ heart' = "waiting"
            /\ pump1' = IF heart = "at_frame" THEN "released" ELSE pump1
            /\ UNCHANGED <<encoder, stage, pump2>>
       ELSE /\ ResumeStage
            /\ UNCHANGED <<heart, pump1>>
    /\ UNCHANGED <<frame, event, native, shape, refused>>

Streaming ==
    \/ Pump1Begins \/ Pump2Begins \/ NativeYields \/ NativeEnds \/ NativeResult
    \/ ResultSaved \/ ResultRaises \/ Pump2Joins \/ Pump2Finishes
    \/ StageEvent \/ StageProgress \/ StageEnds
    \/ ErrorSaves \/ ErrorSaved \/ ErrorSaveRaises
    \/ Pump1Joins \/ HeartFrame \/ HeartBeat \/ HeartEnds
    \/ ClientReads

-----------------------------------------------------------------------------
(* discard_tasks: the pump is told to stop, and the generator that told it *)
(* waits in gather until the pump is done.  A second cancellation of the   *)
(* waiting task only cancels the pump once more: gather does not return    *)
(* before its children have, so it changes nothing here.                   *)

Cancelled(pump) ==
    CASE pump = "born"                  -> "done"
      [] pump = "pulling"               -> "cancelled_pulling"
      [] pump = "saving"                -> "cancelled_saving"
      [] pump \in {"joining", "released"} -> "cancelled_joining"
      [] OTHER                          -> pump

DiscardPump1 == heart' = "discarding" /\ pump1' = Cancelled(pump1)
DiscardPump2 == stage' = "discarding" /\ pump2' = Cancelled(pump2)

\* Cancelled inside the encoder, whose innermost await is the stage's: the
\* stage's finally discards pump 2 while pump 1 waits for it.
Pump1Unwinds ==
    /\ pump1 = "cancelled_pulling"
    /\ encoder # "saving"
    /\ pump1' = "unwinding"
    /\ IF stage = "waiting" THEN DiscardPump2 ELSE UNCHANGED <<stage, pump2>>
    /\ UNCHANGED <<guard, heart, frame, encoder, event, native, shape, refused>>

\* Cancelled in _persist_on_error's save: that unwinds the encoder, and the
\* stage under it stays at its yield.
Pump1LeavesSave ==
    /\ pump1 = "cancelled_pulling"
    /\ encoder = "saving"
    /\ encoder' = "closed"
    /\ pump1' = "done"
    /\ UNCHANGED <<guard, heart, frame, stage, pump2, event, native, shape, refused>>

\* Cancelled in join(): its finally closes the encoder, suspended at its
\* yield, and that closes nothing beneath it.
Pump1ClosesEncoder ==
    /\ pump1 = "cancelled_joining"
    /\ encoder' = "closed"
    /\ pump1' = "done"
    /\ UNCHANGED <<guard, heart, frame, stage, pump2, event, native, shape, refused>>

\* The stage is over, and with it the encoder and the pump that drove it.
Pump1Ends ==
    /\ pump1 \in {"pulling", "unwinding"}
    /\ encoder = "running"
    /\ stage = "closed"
    /\ encoder' = "closed"
    /\ pump1' = "done"
    /\ frame' = "end"
    /\ UNCHANGED <<guard, heart, stage, pump2, event, native, shape, refused>>

\* Cancelled inside the provider's stream, which unwinds with it.
Pump2Unwinds ==
    /\ pump2 = "cancelled_pulling"
    /\ native' = "closed"
    /\ pump2' = "done"
    /\ UNCHANGED <<guard, heart, pump1, frame, encoder, stage, event, shape, refused>>

\* Cancelled in _on_complete's save: that unwinds transform_stream, and the
\* provider's stream under it stays suspended.
Pump2LeavesSave ==
    /\ pump2 = "cancelled_saving"
    /\ pump2' = "done"
    /\ UNCHANGED <<guard, heart, pump1, frame, encoder, stage, event, native, shape, refused>>

(* A pump that swallows its cancellation and waits on in join().           *)
Pump2Swallows ==
    /\ pump2 = "cancelled_joining"
    /\ UNCHANGED vars

\* Cancelled in join(): the generator it closes is the outermost of those
\* around the provider's stream, which stays suspended.
Pump2LeavesNative ==
    /\ pump2 = "cancelled_joining"
    /\ pump2' = "done"
    /\ UNCHANGED <<guard, heart, pump1, frame, encoder, stage, event, native, shape, refused>>

(* A stage that cancels its pump and does not wait for it.                 *)
StageSettlesAtOnce ==
    /\ stage = "discarding"
    /\ stage' = "closed"
    /\ UNCHANGED <<guard, heart, pump1, frame, encoder, pump2, event, native, shape, refused>>

StageSettles ==
    /\ stage = "discarding"
    /\ pump2 \in {"unborn", "done"}
    /\ stage' = "closed"
    /\ UNCHANGED <<guard, heart, pump1, frame, encoder, pump2, event, native, shape, refused>>

HeartSettles ==
    /\ heart = "discarding"
    /\ pump1 = "done"
    /\ heart' = "closed"
    /\ UNCHANGED <<guard, pump1, frame, encoder, stage, pump2, event, native, shape, refused>>

Discarding ==
    \/ Pump1Unwinds \/ Pump1LeavesSave \/ Pump1ClosesEncoder \/ Pump1Ends
    \/ Pump2Unwinds \/ Pump2LeavesSave \/ Pump2LeavesNative
    \/ StageSettles \/ HeartSettles

-----------------------------------------------------------------------------
(* guarded_stream.                                                         *)

\* What it wraps has run out, or has been unwound.
StreamOver ==
    IF Heartbeat THEN heart = "closed" ELSE stage = "closed" \/ encoder = "closed"

RunEnds ==
    /\ guard = "inside"
    /\ StreamOver
    /\ guard' = "over"
    /\ encoder' = "closed"
    /\ UNCHANGED <<heart, pump1, frame, stage, pump2, event, native, shape, refused>>

\* asyncio.CancelledError at the innermost await of the request's own task:
\* heartbeat_stream's wait, or with no heartbeat the stage's, or the save that
\* _persist_on_error awaits above it, which unwinds the encoder alone.
CancelRequest ==
    /\ guard = "inside"
    /\ ~StreamOver
    /\ shape' = "cancelled"
    /\ guard' = "unwinding"
    /\ IF Heartbeat
       THEN /\ IF heart = "waiting" THEN DiscardPump1 ELSE UNCHANGED <<heart, pump1>>
            /\ UNCHANGED <<encoder, stage, pump2>>
       ELSE /\ IF stage = "waiting" THEN DiscardPump2 ELSE UNCHANGED <<stage, pump2>>
            /\ encoder' = IF encoder = "saving" THEN "closed" ELSE encoder
            /\ UNCHANGED <<heart, pump1>>
    /\ UNCHANGED <<frame, event, native, refused>>

\* The error has unwound to the guard's own except clause.
Caught ==
    /\ guard = "unwinding"
    /\ StreamOver
    /\ guard' = "closing_stream"
    /\ encoder' = "closed"
    /\ UNCHANGED <<heart, pump1, frame, stage, pump2, event, native, shape, refused>>

\* GeneratorExit: the guard is aclose()d at its yield.
CloseResponse ==
    /\ guard = "at_yield"
    /\ shape' = "exit"
    /\ guard' = "closing_stream"
    /\ UNCHANGED <<heart, pump1, frame, encoder, stage, pump2, event, native, refused>>

\* for stage in (stream, *racing_stages): first the stream itself.
CloseStream ==
    /\ guard = "closing_stream"
    /\ IF Heartbeat
       THEN /\ IF heart \in {"at_frame", "at_beat"} THEN DiscardPump1 ELSE UNCHANGED <<heart, pump1>>
            /\ guard' = IF heart = "closed" THEN "closing_stage" ELSE guard
            /\ heart # "discarding"
            /\ UNCHANGED encoder
       ELSE /\ encoder' = "closed"
            /\ guard' = "closing_stage"
            /\ UNCHANGED <<heart, pump1>>
    /\ UNCHANGED <<frame, stage, pump2, event, native, shape, refused>>

(* A guard that closes the stream and the provider, and no racing stage.   *)
SkipStage ==
    /\ guard = "closing_stage"
    /\ guard' = "closing_native"
    /\ UNCHANGED <<heart, pump1, frame, encoder, stage, pump2, event, native, shape, refused>>

\* Then the racing stage, suspended at its yield if its driver has let go.
CloseStage ==
    /\ guard = "closing_stage"
    /\ stage # "discarding"
    /\ IF stage \in {"at_event", "at_progress"}
       THEN /\ DiscardPump2
            /\ UNCHANGED <<guard, refused>>
       ELSE /\ refused' = IF stage = "waiting" THEN refused \union {"stage"} ELSE refused
            /\ guard' = "closing_native"
            /\ UNCHANGED <<stage, pump2>>
    /\ UNCHANGED <<heart, pump1, frame, encoder, event, native, shape>>

\* And the provider's stream last.
CloseNative ==
    /\ guard = "closing_native"
    /\ IF native = "running"
       THEN /\ refused' = refused \union {"native"}
            /\ UNCHANGED native
       ELSE /\ native' = "closed"
            /\ UNCHANGED refused
    /\ guard' = "finalizing"
    /\ UNCHANGED <<heart, pump1, frame, encoder, stage, pump2, event, shape>>

\* on_cancel, whose own course RunExits models; the error is re-raised.
Finalize ==
    /\ guard = "finalizing"
    /\ guard' = "over"
    /\ UNCHANGED <<heart, pump1, frame, encoder, stage, pump2, event, native, shape, refused>>

Guarding == RunEnds \/ Caught \/ CloseStream \/ CloseStage \/ CloseNative \/ Finalize

Disconnect == CancelRequest \/ CloseResponse

Settled ==
    /\ native \in {"unstarted", "closed"}
    /\ pump1 \in {"unborn", "done"}
    /\ pump2 \in {"unborn", "done"}

\* A save raised and the client stayed: what it left suspended falls to the
\* loop's finalizer of async generators, which is not modelled.
SaveRaised ==
    /\ shape = "none"
    /\ native = "left" \/ (stage = "at_event" /\ encoder = "closed")

Over == guard = "over" /\ (Settled \/ SaveRaised) /\ UNCHANGED vars

Next == Streaming \/ Discarding \/ Guarding \/ Disconnect \/ Over

Spec == Init /\ [][Next]_vars

(* Tasks that are cancelled, or that wait for one that was, get their turn *)
(* from the loop, and so does the guard's except clause.                   *)
Fairness == WF_vars(Discarding) /\ WF_vars(Guarding)

FairSpec == Spec /\ Fairness

-----------------------------------------------------------------------------
(* By the time a disconnected run is finalized the provider's stream is    *)
(* closed, so an orphaned generation stops billing, and no pump of the run *)
(* is left to drive anything, wherever the disconnect found the five       *)
(* generators, the two tasks and the two saves.  A run that nobody left is *)
(* settled at its end, too, unless one of its saves raised.                *)
ProviderClosedFirst ==
    /\ guard = "finalizing" => Settled
    /\ guard = "over" => Settled \/ SaveRaised

(* Every close finds its generator suspended or already closed: closing    *)
(* the stages outermost first means none is still running when its turn    *)
(* comes.                                                                  *)
NoCloseRefused == refused = {}

(* A disconnect is always carried through to the guard's re-raise, with    *)
(* nothing waiting for ever on a task that waits for it.                   *)
TeardownEnds == (shape # "none") ~> (guard = "over" /\ Settled)
=============================================================================
