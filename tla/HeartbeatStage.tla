---------------------------- MODULE HeartbeatStage ----------------------------
(***************************************************************************)
(* heartbeat_stream (agent/heartbeat_stream.py): the encoded chunks of a   *)
(* run, pumped in lockstep, with an SSE comment whenever the wait for the  *)
(* next chunk outlasts the interval.                                       *)
(*                                                                         *)
(* Time is discrete: Tick lets one unit pass in a wait, and the wait's     *)
(* timer expires at Interval.  Between expiry and the stage's next turn    *)
(* the loop runs whatever was readied meanwhile.                           *)
(***************************************************************************)
EXTENDS LockstepPump

CONSTANT Interval   \* heartbeat_seconds, in units of time

IntervalAssumption == Interval \in Nat \ {0}

VARIABLES
    stage,          \* where the stage's generator is suspended
    elapsed,        \* time the present asyncio.wait has lasted
    sent,           \* number of the last chunk handed to the client
    verdict         \* how the stage finished

stageVars == <<stage, elapsed, sent, verdict>>
vars == <<pumpVars, stageVars>>

AtYield == {"at_beat", "at_chunk"}
StageStates == {"unstarted", "waiting", "discarding", "closed"} \union AtYield

TypeOK ==
    /\ PumpTypeOK
    /\ stage \in StageStates
    /\ elapsed \in 0 .. Interval
    /\ sent \in 0 .. NItems
    /\ verdict \in {"none", "ended", "failed", "abandoned"}

Init ==
    /\ PumpInit
    /\ stage = "unstarted"
    /\ elapsed = 0
    /\ sent = 0
    /\ verdict = "none"

-----------------------------------------------------------------------------
Upstream ==
    /\ \E kind \in {"item", "end", "error"} : Produce(kind)
    /\ UNCHANGED stageVars

PumpSteps ==
    /\ Put \/ Join \/ Unwind
    /\ UNCHANGED stageVars

RunGetter ==
    /\ RunChunkGetter(stage = "waiting")
    /\ UNCHANGED stageVars

\* Time passes while the stage waits; the loop fires an expired timer, and
\* runs what is ready, before it sleeps again.
Tick ==
    /\ stage = "waiting"
    /\ elapsed < Interval
    /\ ready = <<>>
    /\ elapsed' = elapsed + 1
    /\ UNCHANGED <<pumpVars, stage, sent, verdict>>

(* A wait that has its timeout only until the first chunk has gone out.    *)
TimerExpiresAtStart ==
    /\ stage = "waiting"
    /\ sent = 0
    /\ elapsed = Interval
    /\ ~Contains(ready, "stage")
    /\ ready' = Append(ready, "stage")
    /\ UNCHANGED <<pump, inHand, queue, unfinished, produced, upstreamOpen,
                   getter, held, stageVars>>

\* The timer of asyncio.wait readies the stage, nothing more.
TimerExpires ==
    /\ stage = "waiting"
    /\ elapsed = Interval
    /\ ~Contains(ready, "stage")
    /\ ready' = Append(ready, "stage")
    /\ UNCHANGED <<pump, inHand, queue, unfinished, produced, upstreamOpen,
                   getter, held, stageVars>>

-----------------------------------------------------------------------------
EnterFinally(how) ==
    /\ stage' = "discarding"
    /\ verdict' = how
    /\ pump' = IF pump = "done" THEN pump ELSE "cancelled"
    /\ getter' = "none"
    /\ held' = NoItem
    /\ ready' = <<>>

Begin ==
    /\ stage = "unstarted"
    /\ pump' = "pulling"
    /\ stage' = "waiting"
    /\ getter' = "scheduled"
    /\ ready' = <<"chunk_getter">>
    /\ UNCHANGED <<inHand, queue, unfinished, produced, upstreamOpen, held,
                   elapsed, sent, verdict>>

Awake ==
    /\ stage = "waiting"
    /\ ready # <<>>
    /\ Head(ready) = "stage"

\* The interval expired with next_chunk not done: a comment goes out, and the
\* task is left waiting.
Beat ==
    /\ Awake
    /\ getter # "done"
    /\ stage' = "at_beat"
    /\ ready' = Tail(ready)
    /\ UNCHANGED <<pump, inHand, queue, unfinished, produced, upstreamOpen,
                   getter, held, elapsed, sent, verdict>>

(* A stage that hands on the end marker as it does a chunk.                *)
TakeAnything ==
    /\ Awake
    /\ getter = "done"
    /\ sent' = held.n
    /\ stage' = "at_chunk"
    /\ getter' = "none"
    /\ held' = NoItem
    /\ ready' = Tail(ready)
    /\ UNCHANGED <<pump, inHand, queue, unfinished, produced, upstreamOpen,
                   elapsed, verdict>>

TakeChunk ==
    /\ Awake
    /\ getter = "done"
    /\ held.kind = "item"
    /\ sent' = held.n
    /\ stage' = "at_chunk"
    /\ getter' = "none"
    /\ held' = NoItem
    /\ ready' = Tail(ready)
    /\ UNCHANGED <<pump, inHand, queue, unfinished, produced, upstreamOpen,
                   elapsed, verdict>>

\* The end marker breaks the loop, a queued exception is raised.
TakeEnd ==
    /\ Awake
    /\ getter = "done"
    /\ held.kind # "item"
    /\ EnterFinally(IF held.kind = "end" THEN "ended" ELSE "failed")
    /\ UNCHANGED <<inHand, queue, unfinished, produced, upstreamOpen, elapsed,
                   sent>>

\* The head of the loop: the get() task that is missing, and a fresh wait.
Wait(g) ==
    /\ stage' = "waiting"
    /\ elapsed' = 0
    /\ getter' = IF g = "none" THEN "scheduled" ELSE g
    /\ ready' = ready \o (IF g = "none" THEN <<"chunk_getter">> ELSE <<>>)
                      \o (IF g = "done" THEN <<"stage">> ELSE <<>>)

(* A beat that ends in the bookkeeping of a chunk: next_chunk forgotten,   *)
(* task_done() called.                                                     *)
ResumeBeatAsChunk ==
    /\ stage = "at_beat"
    /\ unfinished' = IF unfinished = 0 THEN 0 ELSE unfinished - 1
    /\ Wait("none")
    /\ UNCHANGED <<pump, inHand, queue, produced, upstreamOpen, held, sent,
                   verdict>>

(* A beat after which the loop makes another get() task.                   *)
ResumeBeatAnew ==
    /\ stage = "at_beat"
    /\ Wait("none")
    /\ UNCHANGED <<pump, inHand, queue, unfinished, produced, upstreamOpen,
                   held, sent, verdict>>

ResumeBeat ==
    /\ stage = "at_beat"
    /\ Wait(getter)
    /\ UNCHANGED <<pump, inHand, queue, unfinished, produced, upstreamOpen,
                   held, sent, verdict>>

\* chunks.task_done() comes after the yield.
ResumeChunk ==
    /\ stage = "at_chunk"
    /\ unfinished' = unfinished - 1
    /\ Wait(getter)
    /\ UNCHANGED <<pump, inHand, queue, produced, upstreamOpen, held, sent, verdict>>

\* GeneratorExit at a yield, or CancelledError at the stage's own await.
Abandon ==
    /\ stage \in AtYield \union {"waiting"}
    /\ EnterFinally("abandoned")
    /\ UNCHANGED <<inHand, queue, unfinished, produced, upstreamOpen, elapsed,
                   sent>>

Settle ==
    /\ stage = "discarding"
    /\ pump = "done"
    /\ stage' = "closed"
    /\ UNCHANGED <<pumpVars, elapsed, sent, verdict>>

Over == stage = "closed" /\ pump = "done" /\ UNCHANGED vars

Resume == ResumeBeat \/ ResumeChunk
Wake   == Beat \/ TakeChunk \/ TakeEnd

Next ==
    \/ Upstream
    \/ PumpSteps
    \/ RunGetter
    \/ Tick
    \/ TimerExpires
    \/ Begin
    \/ Wake
    \/ Resume
    \/ Abandon
    \/ Settle
    \/ Over

Spec == Init /\ [][Next]_vars

(* The loop runs what is ready, time passes, and the client keeps reading. *)
(* Upstream may stay silent for ever.                                      *)
Fairness ==
    /\ WF_vars(PumpSteps)
    /\ WF_vars(RunGetter)
    /\ WF_vars(Tick)
    /\ WF_vars(TimerExpires)
    /\ WF_vars(Begin)
    /\ WF_vars(Wake)
    /\ WF_vars(Resume)
    /\ WF_vars(Settle)

FairSpec == Spec /\ Fairness

-----------------------------------------------------------------------------
(* A beat never costs a chunk: the client receives upstream's chunks one   *)
(* by one, none skipped, none repeated, whatever beats go out around them: *)
(* the step that hands a chunk over hands over the successor of the last.  *)
HandsOver == stage' = "at_chunk" /\ stage # "at_chunk"
InOrder == sent' = IF HandsOver THEN sent + 1 ELSE sent

(* Lockstep, as for the stage inside: a client that stops reading stops    *)
(* the run.                                                                *)
Lockstep == pump = "pulling" => sent = produced /\ stage # "at_chunk"

(* A chunk upstream has produced reaches a client that keeps reading,      *)
(* however many beats go out around it.                                    *)
ChunkDelivered ==
    \A n \in 1 .. NItems : (produced >= n) ~> (sent >= n \/ verdict = "abandoned")

(* A client that keeps reading a silent stream is never left waiting: the  *)
(* wait always ends, with a chunk or with a beat.                          *)
NeverSilentForEver == stage = "waiting" ~> stage # "waiting"
=============================================================================
