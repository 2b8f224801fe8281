------------------------------ MODULE RunEndProofs ------------------------------
(***************************************************************************)
(* What holds of the end of every run: of its exits, for a transcript of   *)
(* any length, of its teardown, wherever the disconnect finds the          *)
(* generators and the tasks, and of its heartbeat, for any number of       *)
(* chunks and any interval.                                                *)
(*                                                                         *)
(* The exits: ExitsInv says for each place the stream, the guard and the   *)
(* finalizer can be at what has been written by then.  The properties      *)
(* speak of a run that is over, and are far from inductive: whether        *)
(* nothing is left to write depends on who was to write it.                *)
(*                                                                         *)
(* The teardown: the two pumps and the generators they drive are nested,   *)
(* and TeardownInv gives, outermost first, where each may be for every     *)
(* place its driver is at.  From it each close in guarded_stream finds the *)
(* generator it is for suspended, since its driver is done.                *)
(*                                                                         *)
(* The heartbeat: the argument is about the one chunk that is on its way,  *)
(* from the pump's hand to the queue to the get() task to the client.      *)
(* OnItsWay says where it can be for each place the pump is suspended at.  *)
(* A beat must not disturb it, though it goes out in the middle of the     *)
(* wait for it and leaves the get() task standing: BeatsAside is the lemma *)
(* for that, and it covers the timer, the beat and the return from it at   *)
(* once.                                                                   *)
(***************************************************************************)
EXTENDS MCRunEnd, SequenceTheorems, TLAPS

-----------------------------------------------------------------------------
(* The three exits.                                                        *)

\* The finalizer is there exactly when a disconnect has closed the stream,
\* and a stream that ended by itself has said how.
ExitTaken ==
    /\ run = "closed" <=> finalizer # "none"
    /\ guard = "watching" => finalizer = "none"
    /\ guard = "finalizing" => finalizer # "none"
    /\ guard = "over" /\ finalizer = "none" => run \in {"returned", "broken"}

\* Whoever is to say what became of the run has said it.
Recorded ==
    /\ run = "at_finished" => terminal = "finished"
    /\ run = "at_error" => audits # <<>>
    /\ run = "returned" => terminal = "finished" \/ audits # <<>>
    /\ run = "broken" => store = "failing"
    /\ finalizer = "done" => audits # <<>> \/ store = "failing"

\* Past its save, a run's row has all of its transcript.
Stored ==
    /\ run = "saving" => store # "null"
    /\ /\ store \in {"working", "hanging"}
       /\ \/ finalizer = "done"
          \/ run \in {"completed", "at_finished", "at_error", "returned"}
       => row.by # "nobody" /\ row.upto = transcript

ExitsInv == TypeOK /\ ExitTaken /\ Recorded /\ Stored

LEMMA ExitsStart == Init => ExitsInv
BY RunAssumption, EmptySeq
   DEF Init, ExitsInv, TypeOK, Stores, RunStates, Rows, ExitTaken, Recorded,
       Stored, Storing

\* An audit record more.
LEMMA AuditMore ==
    ASSUME audits \in Seq({"failed", "cancelled"}), NEW what \in {"failed", "cancelled"},
           audits' = Append(audits, what)
    PROVE  audits' \in Seq({"failed", "cancelled"}) /\ audits' # <<>>
BY AppendProperties

\* A save leaves a row, with what the transcript has.
LEMMA Saved ==
    ASSUME TypeOK, NEW by \in {"complete", "error", "cancel"}, Save(by)
    PROVE  /\ row' \in Rows
           /\ store \notin Storing => row'.by = "nobody"
           /\ store \in Storing => row'.by = by /\ row'.upto = transcript
BY DEF TypeOK, Save, Rows, Storing

LEMMA ExitsKept == ExitsInv /\ [Next]_vars => ExitsInv'
<1> SUFFICES ASSUME ExitsInv, [Next]_vars PROVE ExitsInv'
  OBVIOUS
<1> USE DEF ExitsInv, TypeOK, ExitTaken, Recorded, Stored, Storing
<1>1. CASE Observe
  BY <1>1, RunAssumption DEF Observe
<1>2. CASE Result
  BY <1>2 DEF Result, RunStates
<1>3. CASE CompleteSaved
  <2>1. Save("complete")
    BY <1>3 DEF CompleteSaved
  <2>2. QED BY <1>3, <2>1, Saved DEF CompleteSaved, RunStates
<1>4. CASE CompleteRaises
  BY <1>4 DEF CompleteRaises, RunStates
<1>5. CASE Fail
  BY <1>5 DEF Fail, RunStates
<1>6. CASE RecordError
  <2>1. Save("error") /\ audits' = Append(audits, "failed")
    BY <1>6 DEF RecordError
  <2>2. audits' \in Seq({"failed", "cancelled"}) /\ audits' # <<>>
    BY <2>1, AuditMore DEF TypeOK
  <2>3. QED BY <1>6, <2>1, <2>2, Saved DEF RecordError, RunStates
<1>7. CASE RecordErrorRaises
  BY <1>7 DEF RecordErrorRaises, SaveRaises, RunStates
<1>8. CASE YieldFinished
  BY <1>8 DEF YieldFinished, RunStates
<1>9. CASE Return
  BY <1>9 DEF Return, RunStates
<1>10. CASE Disconnect
  <2>1. /\ row' \in Rows
        /\ store \notin Storing => row'.by = "nobody"
    <3>1. row' = row \/ Save("complete") \/ Save("error")
      BY <1>10 DEF Disconnect
    <3>2. QED BY <3>1, Saved DEF TypeOK
  <2>2. QED BY <1>10, <2>1 DEF Disconnect, RunStates
<1>11. CASE FinalizerRecords
  <2>1. Save("cancel") /\ audits' = Append(audits, "cancelled")
    BY <1>11 DEF FinalizerRecords
  <2>2. audits' \in Seq({"failed", "cancelled"}) /\ audits' # <<>>
    BY <2>1, AuditMore DEF TypeOK
  <2>3. QED BY <1>11, <2>1, <2>2, Saved DEF FinalizerRecords
<1>12. CASE FinalizerRaises
  BY <1>12 DEF FinalizerRaises, SaveRaises
<1>13. CASE Settled \/ LetGo
  BY <1>13 DEF Settled, LetGo
<1>14. CASE UNCHANGED vars
  BY <1>14 DEF vars
<1>15. QED
  BY <1>1, <1>2, <1>3, <1>4, <1>5, <1>6, <1>7, <1>8, <1>9, <1>10, <1>11, <1>12, <1>13, <1>14
     DEF Next, Stream, Finalizer, Over

LEMMA ExitsAlways == MCSpec => []ExitsInv
<1>1. MCInit => ExitsInv
  BY ExitsStart DEF MCInit
<1>2. ExitsInv /\ [MCNext]_mcvars => ExitsInv'
  <2>1. [MCNext]_mcvars => [Next]_vars
    BY DEF MCNext, mcvars
  <2>2. QED BY <2>1, ExitsKept
<1>3. QED BY <1>1, <1>2, PTL DEF MCSpec

(* Whichever of the three exits a run takes, and whoever has stopped       *)
(* waiting for it (AgentSession, guarded_stream): when everything of it is *)
(* over it completed, or an audit record says that it did not, or a save   *)
(* raised; and a store that takes what it is given has all of the          *)
(* transcript in the row.                                                  *)
THEOREM ExitsAreAlwaysRecorded == MCSpec => []ExitRecorded
<1>1. ExitsInv => ExitRecorded
  BY DEF ExitsInv, ExitRecorded, EveryExitRecorded, ExchangeStored, Quiescent,
         TypeOK, ExitTaken, Recorded, Stored
<1>2. QED BY <1>1, ExitsAlways, PTL

(* Once on_cancel has been started for a disconnected run, nothing but     *)
(* that task writes the run's row or its audit record, and it writes them  *)
(* in the one step that ends it.                                           *)
THEOREM TheFinalizerWritesAlone == MCSpec => FinalizerWritesAlone
<1>1. ExitsInv /\ [MCNext]_mcvars =>
        [finalizer # "none" /\ <<row, audits>>' # <<row, audits>>
           => finalizer = "saving" /\ finalizer' = "done"]_vars
  <2> SUFFICES ASSUME ExitsInv, [MCNext]_mcvars, finalizer # "none", <<row, audits>>' # <<row, audits>>
               PROVE  finalizer = "saving" /\ finalizer' = "done"
    OBVIOUS
  <2>1. Next
    BY DEF MCNext, mcvars, vars
  <2>2. run = "closed" /\ guard # "watching"
    BY DEF ExitsInv, ExitTaken
  <2>3. QED
    BY <2>1, <2>2
       DEF Next, Stream, Observe, Result, CompleteSaved, CompleteRaises, Fail,
           RecordError, RecordErrorRaises, YieldFinished, Return, Disconnect,
           Finalizer, FinalizerRecords, FinalizerRaises, Settled, LetGo, Over, vars
<1>2. QED BY <1>1, ExitsAlways, PTL DEF MCSpec, FinalizerWritesAlone

-----------------------------------------------------------------------------
(* The teardown.                                                           *)

\* Nobody has disconnected, or closed the response.
Undisturbed == shape = "none"

Stopping == {"cancelled_pulling", "cancelled_joining", "unwinding"}
Stopping2 == {"cancelled_pulling", "cancelled_saving", "cancelled_joining"}

\* The provider's stream and pump 2, by which alone it runs, and the stage
\* that starts that pump and sees it through.
ProviderDriven ==
    /\ native = "running" <=> pump2 \in {"pulling", "cancelled_pulling"}
    /\ event = "end" => pump2 = "done" /\ native \in {"closed", "left"}
    /\ pump2 # "unwinding"
    /\ stage = "unstarted" <=> pump2 = "unborn"
    /\ pump2 \in Stopping2 => stage = "discarding"
    /\ stage = "discarding" => pump2 \in Stopping2 \union {"done"}
    /\ stage = "closed" => pump2 = "done"
    /\ Undisturbed /\ stage \in {"discarding", "closed"} => native \in {"closed", "left"}

\* The item pump 2 waits to see taken.
ItemAwaited ==
    /\ pump2 \in {"unborn", "born"} => event = "none"
    /\ event \in {"item", "error"} /\ stage \in {"waiting", "at_progress"} =>
          pump2 = "joining"
    /\ stage = "at_event" => pump2 = "joining" /\ event = "none"

\* Where a driver of the encoder that is inside it finds the stage: at
\* RUN_ERROR while _persist_on_error awaits its save, else running too.
Within ==
    IF encoder = "saving"
    THEN stage = "at_event"
    ELSE encoder = "running" /\ stage \in {"waiting", "discarding", "closed"}

\* The encoder has gone and has left the stage at its yield.
LeftBehind == stage = "at_event" /\ encoder = "closed"

\* Pump 1, by which the stage runs when there is a heartbeat, and the
\* heartbeat, which starts that pump and sees it through.
StageDrivenByPump ==
    heart # "absent" =>
        /\ pump1 \notin {"unborn", "saving", "cancelled_saving"}
        /\ pump1 = "born" => stage = "unstarted" /\ encoder = "unstarted"
        /\ pump1 \in {"pulling", "cancelled_pulling"} => Within
        /\ pump1 \in {"joining", "released", "cancelled_joining"} =>
              stage \in {"at_event", "at_progress"} /\ encoder = "suspended"
        /\ pump1 = "unwinding" => stage \in {"discarding", "closed"} /\ encoder = "running"
        /\ pump1 = "done" => stage # "waiting" /\ encoder # "saving"
        /\ pump1 \in Stopping => heart = "discarding"
        /\ heart = "discarding" => pump1 \in Stopping \union {"done"}
        /\ heart = "closed" => pump1 = "done"
        /\ frame = "end" => pump1 = "done"
        /\ Undisturbed /\ pump1 = "done" => stage = "closed" \/ LeftBehind
        /\ Undisturbed => pump1 \notin Stopping

\* The frame pump 1 waits to see taken.
FrameAwaited ==
    heart # "absent" /\ Undisturbed =>
        /\ frame = "frame" => pump1 = "joining"
        /\ heart = "at_frame" => pump1 = "joining" /\ frame = "none"

\* The guard, and the generator it iterates: the heartbeat, or the encoder
\* down to the stage.
GuardOutermost ==
    /\ closing \in {"inside", "at_yield"} => Undisturbed
    /\ Undisturbed => closing \in {"inside", "at_yield", "over"}
    /\ IF heart = "absent"
       THEN /\ stage # "unstarted"
            /\ closing = "inside" => Within
            /\ closing = "at_yield" =>
                  stage \in {"at_event", "at_progress"} /\ encoder = "suspended"
            /\ closing = "unwinding" =>
                  \/ stage \in {"discarding", "closed"} /\ encoder = "running"
                  \/ LeftBehind
            /\ closing = "closing_stream" => stage \in {"at_event", "at_progress", "closed"}
            /\ closing = "closing_stage" =>
                  stage \in {"at_event", "at_progress", "discarding", "closed"}
            /\ encoder = "saving" => closing = "inside"
       ELSE /\ closing = "inside" => heart \in {"waiting", "discarding", "closed"}
            /\ closing = "at_yield" => heart \in {"at_frame", "at_beat"}
            /\ closing = "unwinding" => heart \in {"discarding", "closed"}
            /\ closing = "closing_stream" => heart # "waiting"
            /\ closing \in {"closing_stage", "closing_native", "finalizing", "over"} =>
                  heart = "closed"
    /\ closing \in {"closing_native", "finalizing"} => stage \in {"unstarted", "closed"}
    /\ closing = "over" =>
          \/ stage \in {"unstarted", "closed"}
          \/ Undisturbed /\ LeftBehind
    /\ closing \in {"finalizing", "over"} /\ ~Undisturbed => native = "closed"
    /\ refused = {}

TeardownInv ==
    /\ Unwinding!TypeOK
    /\ ProviderDriven
    /\ ItemAwaited
    /\ StageDrivenByPump
    /\ FrameAwaited
    /\ GuardOutermost

LEMMA TeardownStarts == Unwinding!Init => TeardownInv
BY DEF Unwinding!Init, Unwinding!Heartbeat, Unwinding!TypeOK, Unwinding!PumpStates,
       Unwinding!Generator, TeardownInv, ProviderDriven, ItemAwaited,
       StageDrivenByPump, FrameAwaited, GuardOutermost, Undisturbed, Stopping,
       Stopping2, Within, LeftBehind

LEMMA TeardownKept == TeardownInv /\ [Unwinding!Next]_unwindingVars => TeardownInv'
<1> SUFFICES ASSUME TeardownInv, [Unwinding!Next]_unwindingVars PROVE TeardownInv'
  OBVIOUS
<1> USE DEF TeardownInv, ProviderDriven, ItemAwaited, StageDrivenByPump, FrameAwaited,
            GuardOutermost, Undisturbed, Stopping, Stopping2, Within, LeftBehind,
            Unwinding!TypeOK,
            Unwinding!PumpStates, Unwinding!Generator, Unwinding!Heartbeat
<1>1. CASE Unwinding!Pump1Begins
  BY <1>1 DEF Unwinding!Pump1Begins
<1>2. CASE Unwinding!Pump2Begins
  BY <1>2 DEF Unwinding!Pump2Begins
<1>3. CASE Unwinding!NativeYields
  BY <1>3 DEF Unwinding!NativeYields, Unwinding!HandsOn
<1>4. CASE Unwinding!NativeEnds
  BY <1>4 DEF Unwinding!NativeEnds, Unwinding!HandsOn, Unwinding!IsOver
<1>5. CASE Unwinding!NativeResult
  BY <1>5 DEF Unwinding!NativeResult
<1>6. CASE Unwinding!ResultSaved
  BY <1>6 DEF Unwinding!ResultSaved
<1>7. CASE Unwinding!ResultRaises
  BY <1>7 DEF Unwinding!ResultRaises, Unwinding!HandsOn
<1>8. CASE Unwinding!Pump2Joins
  BY <1>8 DEF Unwinding!Pump2Joins
<1>9. CASE Unwinding!Pump2Finishes
  BY <1>9 DEF Unwinding!Pump2Finishes, Unwinding!HandsOn, Unwinding!IsOver
<1>10. CASE Unwinding!StageEvent
  BY <1>10 DEF Unwinding!StageEvent, Unwinding!StageDriven, Unwinding!FrameOut
<1>11. CASE Unwinding!StageProgress
  BY <1>11 DEF Unwinding!StageProgress, Unwinding!StageDriven, Unwinding!FrameOut
<1>12. CASE Unwinding!StageEnds
  BY <1>12 DEF Unwinding!StageEnds, Unwinding!StageDriven
<1>13. CASE Unwinding!ErrorSaves
  BY <1>13 DEF Unwinding!ErrorSaves, Unwinding!StageDriven
<1>14. CASE Unwinding!ErrorSaved
  BY <1>14 DEF Unwinding!ErrorSaved, Unwinding!StageDriven, Unwinding!FrameOut
<1>15. CASE Unwinding!ErrorSaveRaises
  BY <1>15 DEF Unwinding!ErrorSaveRaises, Unwinding!StageDriven
<1>16. CASE Unwinding!Pump1Joins
  BY <1>16 DEF Unwinding!Pump1Joins, Unwinding!ResumeStage
<1>17. CASE Unwinding!HeartFrame
  BY <1>17 DEF Unwinding!HeartFrame
<1>18. CASE Unwinding!HeartBeat
  BY <1>18 DEF Unwinding!HeartBeat
<1>19. CASE Unwinding!HeartEnds
  BY <1>19 DEF Unwinding!HeartEnds
<1>20. CASE Unwinding!ClientReads
  BY <1>20 DEF Unwinding!ClientReads, Unwinding!ResumeStage
<1>21. CASE Unwinding!Pump1Unwinds
  BY <1>21 DEF Unwinding!Pump1Unwinds, Unwinding!DiscardPump2, Unwinding!Cancelled
<1>22. CASE Unwinding!Pump1LeavesSave
  BY <1>22 DEF Unwinding!Pump1LeavesSave
<1>23. CASE Unwinding!Pump1ClosesEncoder
  BY <1>23 DEF Unwinding!Pump1ClosesEncoder
<1>24. CASE Unwinding!Pump1Ends
  BY <1>24 DEF Unwinding!Pump1Ends
<1>25. CASE Unwinding!Pump2Unwinds
  BY <1>25 DEF Unwinding!Pump2Unwinds
<1>26. CASE Unwinding!Pump2LeavesSave
  BY <1>26 DEF Unwinding!Pump2LeavesSave
<1>27. CASE Unwinding!Pump2LeavesNative
  BY <1>27 DEF Unwinding!Pump2LeavesNative
<1>28. CASE Unwinding!StageSettles
  BY <1>28 DEF Unwinding!StageSettles
<1>29. CASE Unwinding!HeartSettles
  BY <1>29 DEF Unwinding!HeartSettles
<1>30. CASE Unwinding!RunEnds
  BY <1>30 DEF Unwinding!RunEnds, Unwinding!StreamOver
<1>31. CASE Unwinding!CancelRequest
  BY <1>31
     DEF Unwinding!CancelRequest, Unwinding!StreamOver, Unwinding!DiscardPump1,
         Unwinding!DiscardPump2, Unwinding!Cancelled
<1>32. CASE Unwinding!Caught
  BY <1>32 DEF Unwinding!Caught, Unwinding!StreamOver
<1>33. CASE Unwinding!CloseResponse
  BY <1>33 DEF Unwinding!CloseResponse
<1>34. CASE Unwinding!CloseStream
  BY <1>34 DEF Unwinding!CloseStream, Unwinding!DiscardPump1, Unwinding!Cancelled
<1>35. CASE Unwinding!CloseStage
  BY <1>35 DEF Unwinding!CloseStage, Unwinding!DiscardPump2, Unwinding!Cancelled
<1>36. CASE Unwinding!CloseNative
  BY <1>36 DEF Unwinding!CloseNative
<1>37. CASE Unwinding!Finalize
  BY <1>37 DEF Unwinding!Finalize
<1>38. CASE UNCHANGED unwindingVars
  BY <1>38 DEF unwindingVars
<1> HIDE DEF TeardownInv
<1>39. QED
  BY <1>1, <1>2, <1>3, <1>4, <1>5, <1>6, <1>7, <1>8, <1>9, <1>10, <1>11, <1>12, <1>13,
     <1>14, <1>15, <1>16, <1>17, <1>18, <1>19, <1>20, <1>21, <1>22, <1>23, <1>24, <1>25, <1>26,
     <1>27, <1>28, <1>29, <1>30, <1>31, <1>32, <1>33, <1>34, <1>35, <1>36, <1>37, <1>38
     DEF Unwinding!Next, Unwinding!Streaming, Unwinding!Discarding,
         Unwinding!Guarding, Unwinding!Disconnect, Unwinding!Over,
         Unwinding!vars, unwindingVars

LEMMA TeardownAlways == MCSpec => []TeardownInv
<1>1. MCInit => TeardownInv
  BY TeardownStarts DEF MCInit
<1>2. TeardownInv /\ [MCNext]_mcvars => TeardownInv'
  <2>1. [MCNext]_mcvars => [Unwinding!Next]_unwindingVars
    BY DEF MCNext, mcvars
  <2>2. QED BY <2>1, TeardownKept
<1>3. QED BY <1>1, <1>2, PTL DEF MCSpec

(* By the time guarded_stream runs on_cancel for a disconnected run the    *)
(* provider's stream is closed and neither pump is left, and no aclose()   *)
(* on the way has met a generator that is still running: wherever the      *)
(* disconnect found the stages, in the save of _on_complete or of          *)
(* _persist_on_error as well, with a heartbeat and without.  A run nobody  *)
(* left is settled at its end too, or one of those saves raised.           *)
THEOREM ProviderIsAlwaysClosedFirst == MCSpec => []ProviderClosedFirst
<1>1. TeardownInv => ProviderClosedFirst
  BY DEF TeardownInv, ProviderDriven, StageDrivenByPump, GuardOutermost, Stopping,
         Undisturbed, LeftBehind, Unwinding!TypeOK, Unwinding!PumpStates,
         Unwinding!Generator, ProviderClosedFirst, Unwinding!ProviderClosedFirst,
         Unwinding!Settled, Unwinding!SaveRaised, Unwinding!NoCloseRefused
<1>2. QED BY <1>1, TeardownAlways, PTL

-----------------------------------------------------------------------------
(* heartbeat_stream.                                                       *)

\* The generator has not begun to discard its tasks.
Live == beating \notin {"discarding", "closed"}

\* The client has all that upstream has yielded, and has come back for more.
NothingOut ==
    /\ unfinished = 0
    /\ queue = <<>>
    /\ held = Beating!NoItem
    /\ beating # "at_chunk"
    /\ sent = produced

\* x is the one thing the client has not been handed.
Undelivered(x) ==
    /\ x \in Beating!Items
    /\ x.kind = "item" => x.n = produced /\ produced = sent + 1
    /\ x.kind # "item" => sent = produced

\* x is in the queue, or with the get() task.
Passing(x) ==
    /\ unfinished = 1
    /\ beating # "at_chunk"
    /\ \/ queue = <<x>> /\ held = Beating!NoItem
       \/ queue = <<>> /\ held = x

AtClient ==
    /\ unfinished = 1
    /\ queue = <<>>
    /\ held = Beating!NoItem
    /\ beating = "at_chunk"
    /\ sent = produced

OnItsWay ==
    /\ Live => pump # "cancelled"
    /\ ~Live => pump \in {"cancelled", "done"}
    /\ beating = "unstarted" <=> pump = "unborn"
    /\ Live /\ pump \in {"unborn", "pulling"} => NothingOut
    /\ Live /\ pump = "putting" =>
          /\ unfinished = 0
          /\ queue = <<>>
          /\ held = Beating!NoItem
          /\ beating # "at_chunk"
          /\ Undelivered(inHand)
    /\ Live /\ pump = "joining" =>
          \/ NothingOut
          \/ AtClient
          \/ \E x \in Beating!Items : x.kind = "item" /\ Undelivered(x) /\ Passing(x)
    /\ Live /\ pump = "done" =>
          \E x \in Beating!Items : x.kind # "item" /\ Undelivered(x) /\ Passing(x)

\* A get() task that is not done holds nothing.
HeldByTheDone == getter # "done" => held = Beating!NoItem

ChunkInv == Beating!TypeOK /\ OnItsWay /\ HeldByTheDone

-----------------------------------------------------------------------------
(* What a step that leaves a variable alone leaves of the argument.        *)

LEMMA WayKept ==
    ASSUME OnItsWay,
           UNCHANGED <<pump, inHand, queue, unfinished, produced, held, beating, sent>>
    PROVE  OnItsWay'
BY DEF OnItsWay, Live, NothingOut, Undelivered, Passing, AtClient

\* A beat, its timer and its end: the generator moves, the chunk does not.
LEMMA BeatsAside ==
    ASSUME OnItsWay, Live, beating \notin {"unstarted", "at_chunk"},
           beating' \in {"waiting", "at_beat"},
           UNCHANGED <<pump, inHand, queue, unfinished, produced, held, sent>>
    PROVE  OnItsWay'
<1>1. Live' /\ beating' \notin {"unstarted", "at_chunk"}
  BY DEF Live
<1>2. \A x : Undelivered(x)' = Undelivered(x) /\ Passing(x)' = Passing(x)
  BY <1>1 DEF Undelivered, Passing
<1>3. NothingOut' = NothingOut /\ AtClient' = AtClient
  BY <1>1 DEF NothingOut, AtClient
<1>4. Undelivered(inHand)' = Undelivered(inHand)
  BY DEF Undelivered
<1>5. QED BY <1>1, <1>2, <1>3, <1>4 DEF OnItsWay

\* Into the finally: from here on the chunk on its way is nobody's.
LEMMA LeavingDrops ==
    ASSUME Beating!TypeOK, OnItsWay, beating # "closed",
           NEW how \in {"ended", "failed", "abandoned"}, Beating!EnterFinally(how),
           UNCHANGED <<inHand, queue, unfinished, produced, upstreamOpen, elapsed, sent>>
    PROVE  ChunkInv'
<1>1. /\ beating' = "discarding" /\ verdict' = how /\ getter' = "none"
      /\ held' = Beating!NoItem /\ ready' = <<>>
      /\ pump' \in {"done", "cancelled"}
  BY DEF Beating!EnterFinally
<1>2. Beating!TypeOK'
  <2>1. ready' \in Seq(Beating!Tasks)
    BY <1>1, EmptySeq
  <2>2. QED BY <1>1, <2>1
         DEF Beating!TypeOK, Beating!PumpTypeOK, Beating!PumpStates,
             Beating!GetterStates, Beating!StageStates
<1>3. OnItsWay'
  BY <1>1 DEF OnItsWay, Live
<1>4. HeldByTheDone'
  BY <1>1 DEF HeldByTheDone
<1>5. QED BY <1>2, <1>3, <1>4 DEF ChunkInv

\* What the get() task holds is what the client is to have next.
LEMMA HeldIsNext ==
    ASSUME Beating!TypeOK, OnItsWay, Live, held # Beating!NoItem
    PROVE  /\ pump \in {"joining", "done"}
           /\ Undelivered(held)
           /\ unfinished = 1
           /\ queue = <<>>
           /\ held.kind = "item" <=> pump = "joining"
<1>1. pump \in {"joining", "done"}
  BY DEF Beating!TypeOK, Beating!PumpTypeOK, Beating!PumpStates, OnItsWay, NothingOut
<1>2. PICK x \in Beating!Items :
        Undelivered(x) /\ Passing(x) /\ (x.kind = "item" <=> pump = "joining")
  <2>1. CASE pump = "joining"
    BY <2>1 DEF OnItsWay, NothingOut, AtClient
  <2>2. CASE pump = "done"
    BY <2>2 DEF OnItsWay
  <2>3. QED BY <1>1, <2>1, <2>2
<1>3. held = x /\ queue = <<>> /\ unfinished = 1
  BY <1>2 DEF Passing
<1>4. QED BY <1>1, <1>2, <1>3

LEMMA RemoveAtType ==
    ASSUME NEW S, NEW s \in Seq(S), NEW i \in DOMAIN s
    PROVE  Beating!RemoveAt(s, i) \in Seq(S)
<1>1. Len(s) \in Nat /\ DOMAIN s = 1 .. Len(s)
  BY LenProperties
<1>2. SubSeq(s, 1, i - 1) \in Seq(S) /\ SubSeq(s, i + 1, Len(s)) \in Seq(S)
  BY <1>1, SubSeqProperties
<1>3. QED BY <1>2, ConcatProperties DEF Beating!RemoveAt

\* One task more, readied behind the others.
LEMMA ReadiedType ==
    ASSUME NEW rq \in Seq(Beating!Tasks), NEW task \in Beating!Tasks
    PROVE  Append(rq, task) \in Seq(Beating!Tasks) /\ rq \o <<task>> \in Seq(Beating!Tasks)
<1>1. Append(rq, task) \in Seq(Beating!Tasks)
  BY AppendProperties
<1>2. <<task>> \in Seq(Beating!Tasks)
  OBVIOUS
<1>3. QED BY <1>1, <1>2, ConcatProperties

-----------------------------------------------------------------------------
(* The pump.                                                               *)

LEMMA UpstreamKeeps == ASSUME ChunkInv, Beating!Upstream PROVE ChunkInv'
<1>1. PICK kind \in {"item", "end", "error"} : Beating!Produce(kind)
  BY DEF Beating!Upstream
<1>2. /\ pump = "pulling" /\ pump' = "putting"
      /\ kind = "item" => produced < NItems
      /\ inHand' = [kind |-> kind, n |-> produced + 1]
      /\ produced' = IF kind = "item" THEN produced + 1 ELSE produced
      /\ upstreamOpen' \in BOOLEAN
      /\ UNCHANGED <<queue, unfinished, getter, held, ready>>
      /\ UNCHANGED <<beating, elapsed, sent, verdict>>
  BY <1>1 DEF Beating!Produce, Beating!Upstream, Beating!stageVars
<1>3. Live /\ NothingOut /\ produced \in 0 .. NItems
  BY <1>2 DEF ChunkInv, OnItsWay, Beating!TypeOK, Beating!PumpTypeOK
<1>4. inHand' \in Beating!Items /\ inHand'.kind = kind /\ inHand'.n = produced + 1
  BY <1>2, <1>3, BeatingAssumption DEF Beating!Items
<1>5. Undelivered(inHand)'
  <2>1. sent' = produced
    BY <1>2, <1>3 DEF NothingOut
  <2>2. produced \in Nat
    BY <1>3
  <2>3. QED BY <1>2, <1>4, <2>1, <2>2 DEF Undelivered
<1>6. Beating!TypeOK'
  <2>1. produced' \in 0 .. NItems
    BY <1>2, <1>3, BeatingAssumption
  <2>2. QED BY <1>2, <1>4, <2>1
         DEF ChunkInv, Beating!TypeOK, Beating!PumpTypeOK, Beating!PumpStates
<1>7. OnItsWay'
  BY <1>2, <1>3, <1>5 DEF ChunkInv, OnItsWay, Live, NothingOut
<1>8. QED BY <1>2, <1>6, <1>7 DEF ChunkInv, HeldByTheDone

LEMMA PutKeeps ==
    ASSUME ChunkInv, Beating!Put, UNCHANGED <<beating, elapsed, sent, verdict>>
    PROVE  ChunkInv'
<1> DEFINE x == inHand
<1>1. /\ pump = "putting"
      /\ queue' = Append(queue, x)
      /\ unfinished' = unfinished + 1
      /\ inHand' = Beating!NoItem
      /\ pump' = IF x.kind = "item" THEN "joining" ELSE "done"
      /\ getter' \in {getter, "scheduled"} /\ (getter = "done" => getter' = "done")
      /\ ready' \in {ready, Append(ready, "chunk_getter")}
      /\ UNCHANGED <<produced, upstreamOpen, held>>
  BY DEF Beating!Put
<1>2. /\ Live /\ beating # "at_chunk" /\ beating # "unstarted"
      /\ unfinished = 0 /\ queue = <<>> /\ held = Beating!NoItem
      /\ Undelivered(x)
  BY <1>1 DEF ChunkInv, OnItsWay, Beating!TypeOK, Beating!PumpTypeOK
<1>3. queue' = <<x>> /\ unfinished' = 1
  BY <1>1, <1>2
<1>4. x \in Beating!Items
  BY <1>2 DEF Undelivered
<1>5. \A y : y = x => Undelivered(y)' /\ Passing(y)'
  BY <1>1, <1>2, <1>3 DEF Undelivered, Passing
<1>6. Beating!TypeOK'
  <2>1. queue' \in Seq(Beating!Items)
    BY <1>3, <1>4
  <2>2. ready' \in Seq(Beating!Tasks)
    <3>1. ready \in Seq(Beating!Tasks) /\ "chunk_getter" \in Beating!Tasks
      BY DEF ChunkInv, Beating!TypeOK, Beating!PumpTypeOK, Beating!Tasks
    <3>2. QED BY <1>1, <3>1, ReadiedType
  <2>3. QED BY <1>1, <1>3, <2>1, <2>2
         DEF ChunkInv, Beating!TypeOK, Beating!PumpTypeOK, Beating!PumpStates,
             Beating!GetterStates
<1>7. OnItsWay'
  <2>1. Live' /\ beating' # "unstarted"
    BY <1>2 DEF Live
  <2>2. CASE x.kind = "item"
    <3>1. pump' = "joining"
      BY <1>1, <2>2
    <3>2. \E y \in Beating!Items : y.kind = "item" /\ Undelivered(y)' /\ Passing(y)'
      BY <1>4, <1>5, <2>2
    <3>3. QED BY <2>1, <3>1, <3>2 DEF OnItsWay
  <2>3. CASE x.kind # "item"
    <3>1. pump' = "done"
      BY <1>1, <2>3
    <3>2. \E y \in Beating!Items : y.kind # "item" /\ Undelivered(y)' /\ Passing(y)'
      BY <1>4, <1>5, <2>3
    <3>3. QED BY <2>1, <3>1, <3>2 DEF OnItsWay
  <2>4. QED BY <2>2, <2>3
<1>8. QED BY <1>1, <1>2, <1>6, <1>7 DEF ChunkInv, HeldByTheDone

\* join() returns once the client has come back for more.
LEMMA JoinKeeps ==
    ASSUME ChunkInv, Beating!Join, UNCHANGED <<beating, elapsed, sent, verdict>>
    PROVE  ChunkInv'
<1>1. /\ pump = "joining" /\ unfinished = 0 /\ pump' = "pulling"
      /\ UNCHANGED <<inHand, queue, unfinished, produced, upstreamOpen, getter, held, ready>>
  BY DEF Beating!Join
<1>2. Live /\ beating # "unstarted" /\ NothingOut
  BY <1>1 DEF ChunkInv, OnItsWay, AtClient, Passing
<1>3. NothingOut' /\ Live'
  BY <1>1, <1>2 DEF NothingOut, Live
<1>4. Beating!TypeOK'
  BY <1>1 DEF ChunkInv, Beating!TypeOK, Beating!PumpTypeOK, Beating!PumpStates
<1>5. OnItsWay'
  BY <1>1, <1>2, <1>3 DEF OnItsWay
<1>6. QED BY <1>1, <1>4, <1>5 DEF ChunkInv, HeldByTheDone

LEMMA UnwindKeeps ==
    ASSUME ChunkInv, Beating!Unwind, UNCHANGED <<beating, elapsed, sent, verdict>>
    PROVE  ChunkInv'
<1>1. /\ pump = "cancelled" /\ pump' = "done" /\ upstreamOpen' = FALSE
      /\ inHand' = Beating!NoItem
      /\ UNCHANGED <<queue, unfinished, produced, getter, held, ready>>
  BY DEF Beating!Unwind
<1>2. ~Live /\ ~Live'
  BY <1>1 DEF ChunkInv, OnItsWay, Live
<1>3. Beating!TypeOK'
  BY <1>1 DEF ChunkInv, Beating!TypeOK, Beating!PumpTypeOK, Beating!PumpStates
<1>4. OnItsWay'
  BY <1>1, <1>2 DEF ChunkInv, OnItsWay, Live
<1>5. QED BY <1>1, <1>3, <1>4 DEF ChunkInv, HeldByTheDone

\* get() moves the chunk from the queue into the hand of its task.
LEMMA GetterKeeps == ASSUME ChunkInv, Beating!RunGetter PROVE ChunkInv'
<1>1. /\ getter = "scheduled"
      /\ UNCHANGED <<pump, inHand, unfinished, produced, upstreamOpen>>
      /\ UNCHANGED <<beating, elapsed, sent, verdict>>
      /\ \E i \in DOMAIN ready :
            ready' \in {Beating!RemoveAt(ready, i), Append(Beating!RemoveAt(ready, i), "stage")}
  BY DEF Beating!RunGetter, Beating!RunChunkGetter, Beating!CanRunGetter,
         Beating!CanRunGetterAndWake, Beating!stageVars
<1>2. ready' \in Seq(Beating!Tasks)
  <2>1. PICK i \in DOMAIN ready :
          ready' \in {Beating!RemoveAt(ready, i), Append(Beating!RemoveAt(ready, i), "stage")}
    BY <1>1
  <2>2. ready \in Seq(Beating!Tasks) /\ "stage" \in Beating!Tasks
    BY DEF ChunkInv, Beating!TypeOK, Beating!PumpTypeOK, Beating!Tasks
  <2>3. Beating!RemoveAt(ready, i) \in Seq(Beating!Tasks)
    BY <2>2, RemoveAtType
  <2>4. QED BY <2>1, <2>2, <2>3, ReadiedType
<1>3. held = Beating!NoItem
  BY <1>1 DEF ChunkInv, HeldByTheDone
<1>4. CASE queue = <<>>
  <2>1. getter' = "parked" /\ UNCHANGED <<queue, held>>
    BY <1>4 DEF Beating!RunGetter, Beating!RunChunkGetter
  <2>2. Beating!TypeOK'
    BY <1>1, <1>2, <2>1
       DEF ChunkInv, Beating!TypeOK, Beating!PumpTypeOK, Beating!GetterStates
  <2>3. OnItsWay'
    BY <1>1, <2>1, WayKept DEF ChunkInv
  <2>4. QED BY <1>3, <2>1, <2>2, <2>3 DEF ChunkInv, HeldByTheDone
<1>5. CASE queue # <<>>
  <2>1. getter' = "done" /\ held' = Head(queue) /\ queue' = Tail(queue)
    BY <1>5 DEF Beating!RunGetter, Beating!RunChunkGetter
  <2>2. Head(queue) \in Beating!Items /\ Tail(queue) \in Seq(Beating!Items)
    BY <1>5, HeadTailProperties DEF ChunkInv, Beating!TypeOK, Beating!PumpTypeOK
  <2>3. Beating!TypeOK'
    BY <1>1, <1>2, <2>1, <2>2
       DEF ChunkInv, Beating!TypeOK, Beating!PumpTypeOK, Beating!GetterStates
  <2>4. CASE ~Live
    BY <1>1, <2>1, <2>3, <2>4 DEF ChunkInv, OnItsWay, Live, HeldByTheDone
  <2>5. CASE Live
    <3>1. pump \in {"joining", "done"}
      BY <1>5, <2>5
         DEF ChunkInv, Beating!TypeOK, Beating!PumpTypeOK, Beating!PumpStates,
             OnItsWay, NothingOut
    <3>2. PICK x \in Beating!Items :
            Undelivered(x) /\ Passing(x) /\ (x.kind = "item" <=> pump = "joining")
      BY <1>5, <2>5, <3>1 DEF ChunkInv, OnItsWay, NothingOut, AtClient
    <3>3. queue = <<x>> /\ unfinished = 1 /\ beating # "at_chunk"
      BY <1>5, <3>2 DEF Passing
    <3>4. held' = x /\ queue' = <<>>
      BY <2>1, <3>3
    <3>5. Undelivered(x)' /\ Passing(x)' /\ Live'
      BY <1>1, <2>5, <3>2, <3>3, <3>4 DEF Undelivered, Passing, Live
    <3>6. OnItsWay'
      BY <1>1, <3>1, <3>2, <3>5 DEF ChunkInv, OnItsWay
    <3>7. QED BY <2>1, <2>3, <3>6 DEF ChunkInv, HeldByTheDone
  <2>6. QED BY <2>4, <2>5
<1>6. QED BY <1>4, <1>5

-----------------------------------------------------------------------------
(* The generator.                                                          *)

LEMMA BeginKeeps == ASSUME ChunkInv, Beating!Begin PROVE ChunkInv'
<1>1. /\ beating = "unstarted" /\ beating' = "waiting" /\ pump' = "pulling"
      /\ getter' = "scheduled" /\ ready' = <<"chunk_getter">>
      /\ UNCHANGED <<inHand, queue, unfinished, produced, upstreamOpen, held,
                     elapsed, sent, verdict>>
  BY DEF Beating!Begin
<1>2. Live /\ NothingOut
  BY <1>1 DEF ChunkInv, OnItsWay, Live
<1>3. NothingOut' /\ Live'
  BY <1>1, <1>2 DEF NothingOut, Live
<1>4. Beating!TypeOK'
  <2>1. ready' \in Seq(Beating!Tasks)
    BY <1>1 DEF Beating!Tasks
  <2>2. QED BY <1>1, <2>1
         DEF ChunkInv, Beating!TypeOK, Beating!PumpTypeOK, Beating!PumpStates,
             Beating!GetterStates, Beating!StageStates
<1>5. OnItsWay' /\ HeldByTheDone'
  BY <1>1, <1>2, <1>3 DEF OnItsWay, HeldByTheDone, NothingOut
<1>6. QED BY <1>4, <1>5 DEF ChunkInv

\* The clock, its timer, and a beat: nothing of the pump's changes.
LEMMA BeatKeeps ==
    ASSUME ChunkInv, Beating!Tick \/ Beating!TimerExpires \/ Beating!Beat
    PROVE  ChunkInv'
<1>1. /\ beating = "waiting" /\ beating' \in {"waiting", "at_beat"}
      /\ elapsed' = elapsed \/ (elapsed < Interval /\ elapsed' = elapsed + 1)
      /\ \/ ready' \in {ready, Append(ready, "stage")}
         \/ ready # <<>> /\ ready' = Tail(ready)
      /\ UNCHANGED <<pump, inHand, queue, unfinished, produced, upstreamOpen,
                     getter, held, sent, verdict>>
  BY DEF Beating!Tick, Beating!TimerExpires, Beating!Beat, Beating!Awake,
         Beating!pumpVars, Beating!stageVars
<1>2. OnItsWay'
  BY <1>1, BeatsAside DEF ChunkInv, Live
<1>3. ready' \in Seq(Beating!Tasks)
  <2>1. ready \in Seq(Beating!Tasks) /\ "stage" \in Beating!Tasks
    BY DEF ChunkInv, Beating!TypeOK, Beating!PumpTypeOK, Beating!Tasks
  <2>2. CASE ready' = Tail(ready) /\ ready # <<>>
    BY <2>1, <2>2, HeadTailProperties
  <2>3. CASE ready' \in {ready, Append(ready, "stage")}
    BY <2>1, <2>3, ReadiedType
  <2>4. QED BY <1>1, <2>2, <2>3
<1>4. elapsed' \in 0 .. Interval
  BY <1>1, BeatingAssumption
     DEF ChunkInv, Beating!TypeOK, Beating!IntervalAssumption
<1>5. Beating!TypeOK' /\ HeldByTheDone'
  <2>1. /\ beating' \in Beating!StageStates
        /\ UNCHANGED <<pump, inHand, queue, unfinished, produced, upstreamOpen,
                       getter, held, sent, verdict>>
    BY <1>1 DEF Beating!StageStates, Beating!AtYield
  <2>2. QED BY <1>3, <1>4, <2>1
         DEF ChunkInv, HeldByTheDone, Beating!TypeOK, Beating!PumpTypeOK
<1>6. QED BY <1>2, <1>5 DEF ChunkInv

\* A chunk handed on is the successor of the last.
LEMMA TakeChunkKeeps == ASSUME ChunkInv, Beating!TakeChunk PROVE ChunkInv' /\ sent' = sent + 1
<1>1. /\ beating = "waiting" /\ beating' = "at_chunk"
      /\ held.kind = "item" /\ held' = Beating!NoItem /\ sent' = held.n
      /\ getter' = "none" /\ ready' = Tail(ready) /\ ready # <<>>
      /\ UNCHANGED <<pump, inHand, queue, unfinished, produced, upstreamOpen,
                     elapsed, verdict>>
  BY DEF Beating!TakeChunk, Beating!Awake
<1>2. Live /\ held # Beating!NoItem
  BY <1>1 DEF Live, Beating!NoItem
<1>3. /\ pump = "joining" /\ Undelivered(held)
      /\ unfinished = 1 /\ queue = <<>>
  BY <1>1, <1>2, HeldIsNext DEF ChunkInv
<1>4. sent' = produced /\ produced = sent + 1
  BY <1>1, <1>3 DEF Undelivered
<1>5. AtClient' /\ Live'
  BY <1>1, <1>3, <1>4 DEF AtClient, Live
<1>6. Beating!TypeOK'
  <2>1. ready' \in Seq(Beating!Tasks)
    BY <1>1, HeadTailProperties DEF ChunkInv, Beating!TypeOK, Beating!PumpTypeOK
  <2>2. QED BY <1>1, <1>4, <2>1
         DEF ChunkInv, Beating!TypeOK, Beating!PumpTypeOK, Beating!GetterStates,
             Beating!StageStates, Beating!AtYield
<1>7. OnItsWay' /\ HeldByTheDone'
  BY <1>1, <1>3, <1>5 DEF OnItsWay, HeldByTheDone
<1>8. QED BY <1>4, <1>6, <1>7 DEF ChunkInv

\* The end, an error, a client that leaves.
LEMMA LeaveKeeps == ASSUME ChunkInv, Beating!TakeEnd \/ Beating!Abandon PROVE ChunkInv'
<1>1. /\ \E how \in {"ended", "failed", "abandoned"} : Beating!EnterFinally(how)
      /\ beating # "closed"
      /\ UNCHANGED <<inHand, queue, unfinished, produced, upstreamOpen, elapsed, sent>>
  BY DEF Beating!TakeEnd, Beating!Abandon, Beating!Awake, Beating!AtYield
<1>2. QED BY <1>1, LeavingDrops DEF ChunkInv

\* The head of the loop readies the tasks it makes, and no others.
LEMMA WaitType ==
    ASSUME Beating!TypeOK, Beating!Wait(getter)
    PROVE  /\ ready' \in Seq(Beating!Tasks)
           /\ getter' \in Beating!GetterStates
           /\ getter = "done" => getter' = "done"
           /\ elapsed' \in 0 .. Interval
           /\ beating' = "waiting"
<1>1. /\ getter' \in {getter, "scheduled"}
      /\ getter = "done" => getter' = "done"
      /\ elapsed' = 0 /\ beating' = "waiting"
      /\ ready' = ready \o (IF getter = "none" THEN <<"chunk_getter">> ELSE <<>>)
                        \o (IF getter = "done" THEN <<"stage">> ELSE <<>>)
  BY DEF Beating!Wait
<1>2. /\ ready \in Seq(Beating!Tasks)
      /\ (IF getter = "none" THEN <<"chunk_getter">> ELSE <<>>) \in Seq(Beating!Tasks)
      /\ (IF getter = "done" THEN <<"stage">> ELSE <<>>) \in Seq(Beating!Tasks)
  <2>1. ready \in Seq(Beating!Tasks)
    BY DEF Beating!TypeOK, Beating!PumpTypeOK
  <2>2. <<"chunk_getter">> \in Seq(Beating!Tasks) /\ <<"stage">> \in Seq(Beating!Tasks)
    BY DEF Beating!Tasks
  <2>3. <<>> \in Seq(Beating!Tasks)
    BY EmptySeq
  <2>4. QED BY <2>1, <2>2, <2>3
<1>3. ready' \in Seq(Beating!Tasks)
  BY <1>1, <1>2, ConcatProperties
<1>4. 0 \in 0 .. Interval
  BY BeatingAssumption DEF Beating!IntervalAssumption
<1>5. QED BY <1>1, <1>3, <1>4
       DEF Beating!TypeOK, Beating!PumpTypeOK, Beating!GetterStates

LEMMA ResumeBeatKeeps == ASSUME ChunkInv, Beating!ResumeBeat PROVE ChunkInv'
<1>1. /\ beating = "at_beat" /\ Beating!Wait(getter)
      /\ UNCHANGED <<pump, inHand, queue, unfinished, produced, upstreamOpen,
                     held, sent, verdict>>
  BY DEF Beating!ResumeBeat
<1>2. /\ ready' \in Seq(Beating!Tasks) /\ getter' \in Beating!GetterStates
      /\ getter = "done" => getter' = "done"
      /\ elapsed' \in 0 .. Interval /\ beating' = "waiting"
  BY <1>1, WaitType DEF ChunkInv
<1>3. OnItsWay'
  BY <1>1, <1>2, BeatsAside DEF ChunkInv, Live
<1>4. Beating!TypeOK'
  BY <1>1, <1>2 DEF ChunkInv, Beating!TypeOK, Beating!PumpTypeOK, Beating!StageStates
<1>5. HeldByTheDone'
  BY <1>1, <1>2 DEF ChunkInv, HeldByTheDone
<1>6. QED BY <1>3, <1>4, <1>5 DEF ChunkInv

\* task_done(), and nothing is out.
LEMMA ResumeChunkKeeps == ASSUME ChunkInv, Beating!ResumeChunk PROVE ChunkInv'
<1>1. /\ beating = "at_chunk" /\ Beating!Wait(getter)
      /\ unfinished' = unfinished - 1
      /\ UNCHANGED <<pump, inHand, queue, produced, upstreamOpen, held, sent, verdict>>
  BY DEF Beating!ResumeChunk
<1>2. /\ ready' \in Seq(Beating!Tasks) /\ getter' \in Beating!GetterStates
      /\ getter = "done" => getter' = "done"
      /\ elapsed' \in 0 .. Interval /\ beating' = "waiting"
  BY <1>1, WaitType DEF ChunkInv
<1>3. pump = "joining" /\ AtClient
  BY <1>1
     DEF ChunkInv, OnItsWay, Live, NothingOut, Passing, Beating!TypeOK,
         Beating!PumpTypeOK, Beating!PumpStates
<1>4. unfinished' = 0
  BY <1>1, <1>3 DEF AtClient
<1>5. NothingOut' /\ Live'
  BY <1>1, <1>2, <1>3, <1>4 DEF NothingOut, AtClient, Live
<1>6. Beating!TypeOK'
  BY <1>1, <1>2, <1>4
     DEF ChunkInv, Beating!TypeOK, Beating!PumpTypeOK, Beating!StageStates
<1>7. OnItsWay' /\ HeldByTheDone'
  BY <1>1, <1>2, <1>3, <1>5 DEF OnItsWay, HeldByTheDone, NothingOut
<1>8. QED BY <1>6, <1>7 DEF ChunkInv

LEMMA SettleKeeps == ASSUME ChunkInv, Beating!Settle PROVE ChunkInv'
<1>1. /\ beating = "discarding" /\ beating' = "closed" /\ pump = "done"
      /\ UNCHANGED <<pump, inHand, queue, unfinished, produced, upstreamOpen,
                     getter, held, ready, elapsed, sent, verdict>>
  BY DEF Beating!Settle, Beating!pumpVars
<1>2. QED BY <1>1
       DEF ChunkInv, Beating!TypeOK, Beating!PumpTypeOK, Beating!StageStates,
           OnItsWay, Live, HeldByTheDone

-----------------------------------------------------------------------------
LEMMA ChunksStart == Beating!Init => ChunkInv
<1> SUFFICES ASSUME Beating!Init PROVE ChunkInv
  OBVIOUS
<1>1. queue \in Seq(Beating!Items) /\ ready \in Seq(Beating!Tasks)
  BY EmptySeq DEF Beating!Init, Beating!PumpInit
<1>2. QED BY <1>1, BeatingAssumption
       DEF Beating!Init, Beating!PumpInit, Beating!IntervalAssumption, ChunkInv,
           Beating!TypeOK, Beating!PumpTypeOK, Beating!PumpStates,
           Beating!GetterStates, Beating!StageStates, OnItsWay, Live, NothingOut,
           HeldByTheDone

LEMMA ChunksKept ==
    ASSUME ChunkInv, [Beating!Next]_beatingVars
    PROVE  ChunkInv' /\ Beating!InOrder
<1> USE DEF Beating!InOrder, Beating!HandsOver
<1>1. CASE Beating!Upstream
  BY <1>1, UpstreamKeeps DEF Beating!Upstream, Beating!stageVars
<1>2. CASE Beating!PumpSteps
  BY <1>2, PutKeeps, JoinKeeps, UnwindKeeps DEF Beating!PumpSteps, Beating!stageVars
<1>3. CASE Beating!RunGetter
  BY <1>3, GetterKeeps DEF Beating!RunGetter, Beating!stageVars
<1>4. CASE Beating!Tick \/ Beating!TimerExpires \/ Beating!Beat
  <2>1. sent' = sent /\ (beating' = beating \/ beating' = "at_beat")
    BY <1>4 DEF Beating!Tick, Beating!TimerExpires, Beating!Beat, Beating!stageVars
  <2>2. QED BY <1>4, <2>1, BeatKeeps
<1>5. CASE Beating!Begin
  BY <1>5, BeginKeeps DEF Beating!Begin
<1>6. CASE Beating!TakeChunk
  <2>1. beating # "at_chunk" /\ beating' = "at_chunk"
    BY <1>6 DEF Beating!TakeChunk, Beating!Awake
  <2>2. QED BY <1>6, <2>1, TakeChunkKeeps
<1>7. CASE Beating!TakeEnd \/ Beating!Abandon
  <2>1. sent' = sent /\ beating' = "discarding"
    BY <1>7 DEF Beating!TakeEnd, Beating!Abandon, Beating!EnterFinally
  <2>2. QED BY <1>7, <2>1, LeaveKeeps
<1>8. CASE Beating!Resume
  <2>1. sent' = sent /\ beating' = "waiting"
    BY <1>8 DEF Beating!Resume, Beating!ResumeBeat, Beating!ResumeChunk, Beating!Wait
  <2>2. QED BY <1>8, <2>1, ResumeBeatKeeps, ResumeChunkKeeps DEF Beating!Resume
<1>9. CASE Beating!Settle
  BY <1>9, SettleKeeps DEF Beating!Settle
<1>10. CASE UNCHANGED beatingVars
  <2>1. UNCHANGED <<beating, elapsed, sent, verdict, pump, inHand, queue, unfinished,
                    produced, upstreamOpen, getter, held, ready>>
    BY <1>10 DEF beatingVars
  <2>2. OnItsWay'
    BY <2>1, WayKept DEF ChunkInv
  <2>3. QED BY <2>1, <2>2 DEF ChunkInv, Beating!TypeOK, Beating!PumpTypeOK, HeldByTheDone
<1>11. CASE Beating!Over
  <2>1. UNCHANGED beatingVars
    BY <1>11 DEF Beating!Over, Beating!vars, Beating!pumpVars, Beating!stageVars, beatingVars
  <2>2. QED BY <1>10, <2>1
<1> HIDE DEF Beating!InOrder, Beating!HandsOver
<1>12. QED
  BY <1>1, <1>2, <1>3, <1>4, <1>5, <1>6, <1>7, <1>8, <1>9, <1>10, <1>11
     DEF Beating!Next, Beating!Wake

(* No step of heartbeat_stream hands the client a chunk out of turn or     *)
(* twice, whatever beats go out around it, and upstream is asked for its next     *)
(* chunk only once the client has come back for more: for every number of  *)
(* chunks and every interval.                                              *)
THEOREM ChunksAreAlwaysInLockstep == MCSpec => ChunksInLockstep
<1> DEFINE Good == part = "heartbeat" => ChunkInv
<1>1. MCInit => Good
  BY ChunksStart DEF MCInit
<1>2. Good /\ [MCNext]_mcvars => Good'
  <2> SUFFICES ASSUME Good, [MCNext]_mcvars, part' = "heartbeat" PROVE ChunkInv'
    OBVIOUS
  <2>1. part = "heartbeat" /\ [Beating!Next]_beatingVars
    BY DEF MCNext, mcvars
  <2>2. QED BY <2>1, ChunksKept
<1>3. Good /\ [MCNext]_mcvars =>
        [Beating!InOrder /\ Beating!TypeOK' /\ Beating!Lockstep']_beatingVars
  <2> SUFFICES ASSUME Good, [MCNext]_mcvars, beatingVars' # beatingVars
               PROVE  Beating!InOrder /\ Beating!TypeOK' /\ Beating!Lockstep'
    OBVIOUS
  <2>1. part = "heartbeat" /\ Beating!Next
    BY DEF MCNext, mcvars
  <2>2. ChunkInv' /\ Beating!InOrder
    BY <2>1, ChunksKept
  <2>3. Beating!Lockstep'
    BY <2>2 DEF ChunkInv, OnItsWay, NothingOut, Live, Beating!Lockstep
  <2>4. QED BY <2>2, <2>3 DEF ChunkInv
<1>4. QED BY <1>1, <1>2, <1>3, PTL DEF MCSpec, ChunksInLockstep
=============================================================================
