---------------------------- MODULE SubagentStage ----------------------------
(***************************************************************************)
(* inject_subagent_events (agent/inject_subagent_events.py) racing its     *)
(* lockstep pump against the channel SubAgentObserver announces onto       *)
(* (agent/subagent_observer.py), with the delegations that announce.       *)
(*                                                                         *)
(* Actors: the pump task, the two get() tasks, the stage's own generator,  *)
(* the client that pulls it, and one tool-call task per delegation.        *)
(***************************************************************************)
EXTENDS LockstepPump, FiniteSets

CONSTANTS
    Delegations,    \* the delegate_task calls of the run
    MaxSteps,       \* bound: announcements one delegation makes at most
    Parallel        \* TRUE: a delegation's own task may announce while
                    \* upstream is suspended at a yield, as a tool call
                    \* running beside another one does

ASSUME StageAssumption ==
    /\ IsFiniteSet(Delegations)
    /\ MaxSteps \in Nat \ {0, 1}
    /\ Parallel \in BOOLEAN

VARIABLES
    progress,       \* the SUBAGENT_SINK queue
    pgetter,        \* the stage's progress.get() task
    pheld,          \* the announcement that task holds
    stage,          \* where the stage's generator is suspended
    ended,          \* its local of that name
    sent,           \* number of the last upstream item handed to the client
    shown,          \* the announcements handed to the client, in order
    delegation,     \* each delegation's lifecycle
    steps,          \* announcements each delegation has made
    announced,      \* history: every announcement, in the order it was made
    verdict         \* how the stage finished

stageVars == <<progress, pgetter, pheld, stage, ended, sent, shown, verdict>>
delegationVars == <<delegation, steps, announced>>
vars == <<pumpVars, stageVars, delegationVars>>

\* during: how many items upstream had yielded when this was announced, that
\* is, it was announced while upstream was producing item during + 1.
Announcements == [by : Delegations, step : 1 .. MaxSteps,
                  phase : {"started", "step", "closed"}, during : 0 .. NItems]
NoAnnouncement == [phase |-> "none"]
\* after: how many upstream items the client had when it was shown this.
Shown == [what : Announcements, after : 0 .. NItems]

AtYield == {"at_drain", "at_progress", "at_event"}
StageStates == {"unstarted", "waiting", "discarding", "closed"} \union AtYield

TypeOK ==
    /\ PumpTypeOK
    /\ progress \in Seq(Announcements)
    /\ pgetter \in GetterStates
    /\ pheld \in Announcements \union {NoAnnouncement}
    /\ stage \in StageStates
    /\ ended \in BOOLEAN
    /\ sent \in 0 .. NItems
    /\ shown \in Seq(Shown)
    /\ delegation \in [Delegations -> {"idle", "open", "closed"}]
    /\ steps \in [Delegations -> 0 .. MaxSteps]
    /\ announced \in Seq(Announcements)
    /\ verdict \in {"none", "ended", "failed", "abandoned"}

Init ==
    /\ PumpInit
    /\ progress = <<>>
    /\ pgetter = "none"
    /\ pheld = NoAnnouncement
    /\ stage = "unstarted"
    /\ ended = FALSE
    /\ sent = 0
    /\ shown = <<>>
    /\ delegation = [d \in Delegations |-> "idle"]
    /\ steps = [d \in Delegations |-> 0]
    /\ announced = <<>>
    /\ verdict = "none"

-----------------------------------------------------------------------------
(* The delegations: SubAgentObserver.wrap_tool_execute announces the start *)
(* and exactly one close; _forward_child_events announces what lies        *)
(* between; _emit is a put_nowait, which wakes a parked progress.get().    *)

Emit(d, phase) ==
    LET a == [by |-> d, step |-> steps[d] + 1, phase |-> phase,
              during |-> produced]
    IN  /\ progress' = Append(progress, a)
        /\ announced' = Append(announced, a)
        /\ steps' = [steps EXCEPT ![d] = @ + 1]
        /\ IF pgetter = "parked"
           THEN /\ pgetter' = "scheduled"
                /\ ready' = Append(ready, "progress_getter")
           ELSE UNCHANGED <<pgetter, ready>>
        /\ UNCHANGED <<pump, inHand, queue, unfinished, produced, upstreamOpen,
                       getter, held, pheld, stage, ended, sent, shown, verdict>>

\* A tool-call task runs while upstream is being driven (or torn down); one
\* running beside another tool call runs whenever the loop gets to it.  After
\* the stage has let go, tasks still unwinding announce to nobody.
TaskRuns ==
    \/ Parallel
    \/ pump \in {"pulling", "cancelled"}
    \/ stage \in {"discarding", "closed"}

Start(d) ==
    /\ delegation[d] = "idle"
    /\ pump = "pulling"
    /\ delegation' = [delegation EXCEPT ![d] = "open"]
    /\ Emit(d, "started")

Step(d) ==
    /\ delegation[d] = "open"
    /\ TaskRuns
    /\ steps[d] < MaxSteps - 1
    /\ UNCHANGED delegation
    /\ Emit(d, "step")

Close(d) ==
    /\ delegation[d] = "open"
    /\ TaskRuns
    /\ delegation' = [delegation EXCEPT ![d] = "closed"]
    /\ Emit(d, "closed")

UpstreamYields ==
    /\ Produce("item")
    /\ UNCHANGED <<stageVars, delegationVars>>

\* The agent run awaits its tool calls: it does not end while a delegation is
\* open.  It may fail any time.
UpstreamEnds ==
    /\ produced = NItems
    /\ \A d \in Delegations : delegation[d] # "open"
    /\ Produce("end")
    /\ UNCHANGED <<stageVars, delegationVars>>

UpstreamFails ==
    /\ Produce("error")
    /\ UNCHANGED <<stageVars, delegationVars>>

PumpSteps ==
    /\ Put \/ Join \/ Unwind
    /\ UNCHANGED <<stageVars, delegationVars>>

-----------------------------------------------------------------------------
(* The stage's generator.                                                  *)

\* finally: the tasks are cancelled and awaited.  A getter is gone at once;
\* the pump has the upstream chain to unwind first.
EnterFinally(how) ==
    /\ stage' = "discarding"
    /\ verdict' = how
    /\ pump' = IF pump = "done" THEN pump ELSE "cancelled"
    /\ getter' = "none"
    /\ pgetter' = "none"
    /\ ready' = <<>>
    /\ held' = NoItem
    /\ pheld' = NoAnnouncement

Deliver(a) == shown' = Append(shown, [what |-> a, after |-> sent])

(* A loop that waits for upstream alone and drains between its items, the  *)
(* way the two sibling injectors do.                                       *)
LoopTopNoRace(g, pg, end, rq) ==
    \/ /\ progress # <<>>
       /\ Deliver(Head(progress))
       /\ progress' = Tail(progress)
       /\ stage' = "at_drain"
       /\ getter' = g
       /\ pgetter' = pg
       /\ ready' = rq
       /\ held' = IF g = "none" THEN NoItem ELSE held
       /\ UNCHANGED <<pump, pheld, verdict>>
    \/ /\ progress = <<>>
       /\ end
       /\ EnterFinally("ended")
       /\ UNCHANGED <<progress, shown>>
    \/ /\ progress = <<>>
       /\ ~end
       /\ stage' = "waiting"
       /\ getter' = IF g = "none" THEN "scheduled" ELSE g
       /\ pgetter' = "none"
       /\ ready' = rq \o (IF g = "none" THEN <<"chunk_getter">> ELSE <<>>)
                      \o (IF g = "done" THEN <<"stage">> ELSE <<>>)
       /\ held' = IF g = "none" THEN NoItem ELSE held
       /\ UNCHANGED <<pump, progress, pheld, shown, verdict>>

(* while True, from its head to the next await or yield: drain, leave if   *)
(* ended, make the get() tasks that are missing, asyncio.wait.  g and pg   *)
(* are next_event and next_progress as the loop finds them, end is ended,  *)
(* rq what is left of the ready queue.                                     *)
LoopTop(g, pg, end, rq) ==
    \/ /\ progress # <<>>
       /\ Deliver(Head(progress))
       /\ progress' = Tail(progress)
       /\ stage' = "at_drain"
       /\ getter' = g
       /\ pgetter' = pg
       /\ ready' = rq
       /\ held' = IF g = "none" THEN NoItem ELSE held
       /\ UNCHANGED <<pump, pheld, verdict>>
    \/ /\ progress = <<>>
       /\ end
       /\ EnterFinally("ended")
       /\ UNCHANGED <<progress, shown>>
    \/ /\ progress = <<>>
       /\ ~end
       /\ stage' = "waiting"
       /\ getter' = IF g = "none" THEN "scheduled" ELSE g
       /\ pgetter' = IF pg = "none" THEN "scheduled" ELSE pg
       /\ ready' = rq \o (IF g = "none" THEN <<"chunk_getter">> ELSE <<>>)
                      \o (IF pg = "none" THEN <<"progress_getter">> ELSE <<>>)
                      \o (IF "done" \in {g, pg} THEN <<"stage">> ELSE <<>>)
       /\ held' = IF g = "none" THEN NoItem ELSE held
       /\ UNCHANGED <<pump, progress, pheld, shown, verdict>>

\* The client pulls the stage for the first time: the pump task is made.
Begin ==
    /\ stage = "unstarted"
    /\ pump' = "pulling"
    /\ stage' = "waiting"
    /\ getter' = "scheduled"
    /\ pgetter' = "scheduled"
    /\ ready' = <<"chunk_getter", "progress_getter">>
    /\ UNCHANGED <<inHand, queue, unfinished, produced, upstreamOpen, held,
                   progress, pheld, ended, sent, shown, verdict, delegationVars>>

(* task_done() called after every yield, not only after an event.          *)
ResumeDrainAcks ==
    /\ stage = "at_drain"
    /\ unfinished' = unfinished - 1
    /\ LoopTop(getter, pgetter, ended, ready)
    /\ UNCHANGED <<inHand, queue, produced, upstreamOpen,
                   ended, sent, delegationVars>>

ResumeDrain ==
    /\ stage = "at_drain"
    /\ LoopTop(getter, pgetter, ended, ready)
    /\ UNCHANGED <<inHand, queue, unfinished, produced, upstreamOpen,
                   ended, sent, delegationVars>>

ResumeProgress ==
    /\ stage = "at_progress"
    /\ LoopTop(getter, "none", ended, ready)
    /\ UNCHANGED <<inHand, queue, unfinished, produced, upstreamOpen,
                   ended, sent, delegationVars>>

\* events.task_done() comes here, after the yield.
ResumeEvent ==
    /\ stage = "at_event"
    /\ unfinished' = unfinished - 1
    /\ LoopTop(getter, pgetter, ended, ready)
    /\ UNCHANGED <<inHand, queue, produced, upstreamOpen,
                   ended, sent, delegationVars>>

\* asyncio.wait has returned.
Awake ==
    /\ stage = "waiting"
    /\ ready # <<>>
    /\ Head(ready) = "stage"

(* A tie in which the event is acknowledged and dropped.                   *)
ShowProgressDropTie ==
    /\ Awake
    /\ pgetter = "done"
    /\ Deliver(pheld)
    /\ pheld' = NoAnnouncement
    /\ stage' = "at_progress"
    /\ ready' = Tail(ready)
    /\ IF getter = "done" /\ held.kind = "item"
       THEN getter' = "none" /\ held' = NoItem /\ unfinished' = unfinished - 1
       ELSE UNCHANGED <<getter, held, unfinished>>
    /\ UNCHANGED <<pump, inHand, queue, produced, upstreamOpen, progress,
                   pgetter, ended, sent, verdict, delegationVars>>

\* next_progress is done: it is shown first, and an event that is done too
\* keeps its result for a later turn.
ShowProgress ==
    /\ Awake
    /\ pgetter = "done"
    /\ Deliver(pheld)
    /\ pheld' = NoAnnouncement
    /\ stage' = "at_progress"
    /\ ready' = Tail(ready)
    /\ UNCHANGED <<pump, inHand, queue, unfinished, produced, upstreamOpen,
                   getter, held, progress, pgetter, ended, sent, verdict,
                   delegationVars>>

(* An event taken without looking at next_progress first.                  *)
TakeItemFirst ==
    /\ Awake
    /\ getter = "done"
    /\ held.kind = "item"
    /\ sent' = held.n
    /\ stage' = "at_event"
    /\ getter' = "none"
    /\ held' = NoItem
    /\ ready' = Tail(ready)
    /\ UNCHANGED <<pump, inHand, queue, unfinished, produced, upstreamOpen,
                   progress, pgetter, pheld, ended, shown, verdict,
                   delegationVars>>

(* An item handed over with next_event left as it is: the turn after takes  *)
(* the same result again.                                                  *)
TakeItemKeepsTask ==
    /\ Awake
    /\ pgetter # "done"
    /\ held.kind = "item"
    /\ sent' = held.n
    /\ stage' = "at_event"
    /\ ready' = Tail(ready)
    /\ UNCHANGED <<pump, inHand, queue, unfinished, produced, upstreamOpen,
                   getter, held, progress, pgetter, pheld, ended, shown, verdict,
                   delegationVars>>

TakeItem ==
    /\ Awake
    /\ pgetter # "done"
    /\ held.kind = "item"
    /\ sent' = held.n
    /\ stage' = "at_event"
    /\ getter' = "none"
    /\ held' = NoItem
    /\ ready' = Tail(ready)
    /\ UNCHANGED <<pump, inHand, queue, unfinished, produced, upstreamOpen,
                   progress, pgetter, pheld, ended, shown, verdict,
                   delegationVars>>

(* The end marker taken without looking at next_progress first.            *)
TakeEndFirst ==
    /\ Awake
    /\ getter = "done"
    /\ held.kind = "end"
    /\ ended' = TRUE
    /\ LoopTop("none", pgetter, TRUE, Tail(ready))
    /\ UNCHANGED <<inHand, queue, unfinished, produced, upstreamOpen, sent,
                   delegationVars>>

TakeEnd ==
    /\ Awake
    /\ pgetter # "done"
    /\ held.kind = "end"
    /\ ended' = TRUE
    /\ LoopTop("none", pgetter, TRUE, Tail(ready))
    /\ UNCHANGED <<inHand, queue, unfinished, produced, upstreamOpen, sent,
                   delegationVars>>

TakeError ==
    /\ Awake
    /\ pgetter # "done"
    /\ held.kind = "error"
    /\ EnterFinally("failed")
    /\ UNCHANGED <<inHand, queue, unfinished, produced, upstreamOpen, progress,
                   ended, sent, shown, delegationVars>>

\* GeneratorExit at a yield, or CancelledError at the stage's own await.
Abandon ==
    /\ stage \in AtYield \union {"waiting"}
    /\ EnterFinally("abandoned")
    /\ UNCHANGED <<inHand, queue, unfinished, produced, upstreamOpen, progress,
                   ended, sent, shown, delegationVars>>

(* A finally that cancels its tasks without awaiting them.                 *)
SettleAtOnce ==
    /\ stage = "discarding"
    /\ stage' = "closed"
    /\ UNCHANGED <<pumpVars, progress, pgetter, pheld, ended, sent, shown,
                   verdict, delegationVars>>

\* discard_tasks' gather returns once the pump has unwound.
Settle ==
    /\ stage = "discarding"
    /\ pump = "done"
    /\ stage' = "closed"
    /\ UNCHANGED <<pumpVars, progress, pgetter, pheld, ended, sent, shown,
                   verdict, delegationVars>>

RunProgressGetter ==
    /\ pgetter = "scheduled"
    /\ IF progress = <<>>
       THEN /\ pgetter' = "parked"
            /\ CanRunGetter("progress_getter")
            /\ UNCHANGED <<progress, pheld>>
       ELSE /\ pgetter' = "done"
            /\ pheld' = Head(progress)
            /\ progress' = Tail(progress)
            /\ CanRunGetterAndWake("progress_getter", stage = "waiting")
    /\ UNCHANGED <<pump, inHand, queue, unfinished, produced, upstreamOpen,
                   getter, held, stage, ended, sent, shown, verdict,
                   delegationVars>>

RunEventGetter ==
    /\ RunChunkGetter(stage = "waiting")
    /\ UNCHANGED <<stageVars, delegationVars>>

Resume == ResumeDrain \/ ResumeProgress \/ ResumeEvent
Wake   == ShowProgress \/ TakeItem \/ TakeEnd \/ TakeError
Getters == RunEventGetter \/ RunProgressGetter

Upstream == UpstreamYields \/ UpstreamEnds \/ UpstreamFails

\* Everything is over; nothing is left to run.
Over ==
    /\ stage = "closed"
    /\ pump = "done"
    /\ \A d \in Delegations : delegation[d] # "open"
    /\ UNCHANGED vars

Next ==
    \/ \E d \in Delegations : Start(d) \/ Step(d) \/ Close(d)
    \/ Upstream
    \/ PumpSteps
    \/ Begin
    \/ Resume
    \/ Getters
    \/ Wake
    \/ Abandon
    \/ Settle
    \/ Over

Spec == Init /\ [][Next]_vars

(* The loop runs what is ready, and the client keeps reading.  Upstream    *)
(* and the delegations owe nothing: a model or a tool may stay silent for  *)
(* as long as it likes, and the client may leave.                          *)
Fairness ==
    /\ WF_vars(PumpSteps)
    /\ WF_vars(Begin)
    /\ WF_vars(Resume)
    /\ WF_vars(RunEventGetter)
    /\ WF_vars(RunProgressGetter)
    /\ WF_vars(Wake)
    /\ WF_vars(Settle)

FairSpec == Spec /\ Fairness

-----------------------------------------------------------------------------
IsShown(a) == \E i \in DOMAIN shown : shown[i].what = a

(* Lockstep.  Upstream is asked for its next item only once the client has *)
(* every earlier one and has come back for more: task_done() comes after   *)
(* the yield, and the pump's join() waits for it.                          *)
Lockstep == pump = "pulling" => sent = produced /\ stage # "at_event"

(* The client receives upstream's items one by one in upstream's order,    *)
(* none skipped and none repeated, however progress interleaves with them: *)
(* the step that hands an item over hands over the successor of the last,  *)
(* and no other step counts one as handed over.                            *)
HandsOver == stage' = "at_event" /\ stage # "at_event"
EventsInOrder == [][sent' = IF HandsOver THEN sent + 1 ELSE sent]_vars

(* An announcement made while upstream was producing item N + 1 reaches    *)
(* the client before that item: once the client holds an item, everything  *)
(* announced before it was produced has been shown.  So a delegation that  *)
(* closed before RUN_FINISHED is closed on the client before it, too: the  *)
(* client refuses RUN_FINISHED while one is open.                          *)
NotOvertaken ==
    \A i \in DOMAIN announced :
        IsShown(announced[i]) \/ sent <= announced[i].during

(* A delegation's start never reaches the client before the tool call that *)
(* started it: everything upstream had yielded by then is delivered first. *)
StartFollowsItsCall ==
    \A i \in DOMAIN shown :
        shown[i].what.phase = "started" => shown[i].after >= shown[i].what.during

(* A stage that ends normally has handed over every upstream item, and     *)
(* every announcement exactly once: the closing words of a delegation are  *)
(* not dropped when the run finishes in the same breath.                   *)
NothingLost ==
    verdict = "ended" =>
        /\ sent = produced
        /\ Len(shown) = Len(announced)
        /\ \A i \in DOMAIN announced : IsShown(announced[i])

Channel == INSTANCE AnnouncementChannel WITH
    Announcement <- Announcements,
    shown <- [i \in DOMAIN shown |-> shown[i].what]

(* With tools run one at a time, the stage implements the channel: its     *)
(* tasks and queues never reorder, drop or repeat what they carry.         *)
ImplementsChannel == Channel!Spec

(* When the stage is over, its pump is over and the upstream generator has *)
(* run its finally: nobody who closes it next finds it already running.    *)
NothingLeftRunning == stage = "closed" => pump = "done" /\ ~upstreamOpen

(* Progress is delivered while upstream is silent: whatever is announced   *)
(* is shown, though upstream may never produce anything again, unless the  *)
(* client leaves or the run fails.                                         *)
AnnouncedIsShown ==
    \A d \in Delegations : \A k \in 1 .. MaxSteps :
        (steps[d] >= k) ~>
            \/ \E i \in DOMAIN shown : /\ shown[i].what.by = d
                                       /\ shown[i].what.step = k
            \/ verdict \in {"abandoned", "failed"}

(* Leaving is never stuck: once in its finally, the stage closes.          *)
DiscardSettles == stage = "discarding" ~> stage = "closed"
=============================================================================
