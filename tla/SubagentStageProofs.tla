-------------------------- MODULE SubagentStageProofs --------------------------
(***************************************************************************)
(* What holds of SubagentStage for every run length, every set of          *)
(* delegations and every bound on what they announce.                      *)
(*                                                                         *)
(* The argument is about the one upstream item that is on its way.  Put    *)
(* and get() move it from the pump's hand to the queue to the get() task   *)
(* to the client; the count of unfinished puts says whether the stage has  *)
(* come back from its yield.  LockstepInv says where the item is for each  *)
(* place the pump can be suspended at, and every property below reads off  *)
(* it.                                                                     *)
(***************************************************************************)
EXTENDS MCSubagentStage, SequenceTheorems, TLAPS

\* The stage has not begun to discard its tasks.
Live == stage \notin {"discarding", "closed"}

\* Nothing is on its way: the client has all that upstream has yielded.
AtRest ==
    /\ unfinished = 0
    /\ queue = <<>>
    /\ held = NoItem
    /\ stage # "at_event"
    /\ sent = produced

\* x is the one thing the client has not been handed.
Undelivered(x) ==
    /\ x \in Items
    /\ x.kind = "item" => x.n = produced /\ produced = sent + 1
    /\ x.kind # "item" => produced = sent

\* x is in the queue, or with the get() task.
Passing(x) ==
    /\ unfinished = 1
    /\ stage # "at_event"
    /\ \/ queue = <<x>> /\ held = NoItem
       \/ queue = <<>> /\ held = x

AtClient ==
    /\ unfinished = 1
    /\ queue = <<>>
    /\ held = NoItem
    /\ stage = "at_event"
    /\ sent = produced

LockstepInv ==
    /\ pump \in {"unborn", "pulling", "putting", "joining", "cancelled", "done"}
    /\ Live => pump # "cancelled"
    /\ ~Live => pump \in {"cancelled", "done"}
    /\ stage = "closed" => pump = "done"
    /\ stage = "unstarted" <=> pump = "unborn"
    /\ pump = "done" => upstreamOpen = FALSE
    /\ pump = "putting" /\ inHand.kind # "item" => upstreamOpen = FALSE
    /\ Live /\ pump \in {"unborn", "pulling"} => AtRest
    /\ Live /\ pump = "putting" =>
          /\ unfinished = 0
          /\ queue = <<>>
          /\ held = NoItem
          /\ stage # "at_event"
          /\ Undelivered(inHand)
    /\ Live /\ pump = "joining" =>
          \/ AtRest
          \/ AtClient
          \/ \E x \in Items : x.kind = "item" /\ Undelivered(x) /\ Passing(x)
    /\ Live /\ pump = "done" =>
          \/ \E x \in Items : x.kind # "item" /\ Undelivered(x) /\ Passing(x)
          \/ /\ ended = TRUE
             /\ unfinished = 1
             /\ queue = <<>>
             /\ held = NoItem
             /\ stage # "at_event"
             /\ sent = produced

\* The types the argument needs; TypeOK has the rest.
CountsOK ==
    /\ produced \in 0 .. NItems
    /\ sent \in 0 .. NItems
    /\ unfinished \in Nat

IInv == CountsOK /\ LockstepInv

-----------------------------------------------------------------------------
LEMMA InitLockstep == Init => IInv
BY NItemsAssumption
   DEF Init, PumpInit, IInv, CountsOK, LockstepInv, Live, AtRest, NoItem

(* Delegations announce on the other channel.                              *)
LEMMA DelegationsKeep ==
    ASSUME IInv, NEW d \in Delegations, Start(d) \/ Step(d) \/ Close(d)
    PROVE  IInv'
<1>1. UNCHANGED <<pump, inHand, queue, unfinished, produced, upstreamOpen, held, stage, ended, sent>>
  BY DEF Start, Step, Close, Emit
<1>2. QED BY <1>1
  DEF IInv, CountsOK, LockstepInv, Live, AtRest, Undelivered, Passing,
       AtClient

LEMMA UpstreamKeeps == ASSUME IInv, Upstream PROVE IInv'
<1>1. PICK kind \in {"item", "end", "error"} : Produce(kind)
  BY DEF Upstream, UpstreamYields, UpstreamEnds, UpstreamFails
<1>2. UNCHANGED <<stage, ended, sent>>
  BY DEF Upstream, UpstreamYields, UpstreamEnds, UpstreamFails, stageVars
<1>3. Live /\ AtRest /\ pump = "pulling"
  BY <1>1 DEF Produce, IInv, LockstepInv
<1>4. /\ pump' = "putting"
      /\ inHand' = [kind |-> kind, n |-> produced + 1]
      /\ produced' = IF kind = "item" THEN produced + 1 ELSE produced
      /\ kind = "item" => produced < NItems
      /\ UNCHANGED <<queue, unfinished, held>>
  BY <1>1 DEF Produce
<1>5. kind # "item" => upstreamOpen' = FALSE
  BY <1>1 DEF Produce
<1>6. CountsOK'
  BY <1>2, <1>4, NItemsAssumption DEF IInv, CountsOK
<1>7. inHand' \in Items
  BY <1>4, NItemsAssumption DEF Items, IInv, CountsOK
<1>8. Undelivered(inHand)'
  <2>1. produced' = IF kind = "item" THEN produced + 1 ELSE produced
    BY <1>4
  <2>2. inHand' = [kind |-> kind, n |-> produced + 1]
    BY <1>4
  <2>3. sent' = sent /\ sent = produced
    BY <1>2, <1>3 DEF AtRest
  <2>4. produced \in Nat
    BY DEF IInv, CountsOK
  <2>5. QED BY <1>7, <2>1, <2>2, <2>3, <2>4 DEF Undelivered
<1>9. inHand'.kind = kind
  BY <1>4
<1>10. LockstepInv'
  BY <1>2, <1>3, <1>4, <1>5, <1>8, <1>9 DEF LockstepInv, IInv, Live, AtRest
<1>11. QED BY <1>6, <1>10 DEF IInv

LEMMA PutKeeps == ASSUME IInv, PumpSteps, Put PROVE IInv'
<1>1. UNCHANGED <<stage, ended, sent, held, produced, upstreamOpen>>
  BY DEF PumpSteps, stageVars, Put
<1>2. PICK x : x = inHand
  OBVIOUS
<1>3. /\ Live
      /\ Undelivered(x)
      /\ unfinished = 0 /\ queue = <<>> /\ held = NoItem
      /\ stage # "at_event"
      /\ pump = "putting"
      /\ stage # "unstarted"
  BY <1>2 DEF Put, IInv, LockstepInv
<1>4. queue' = <<x>> /\ unfinished' = 1
  <2>1. queue' = Append(queue, x) /\ unfinished' = unfinished + 1
    BY <1>2 DEF Put
  <2>2. queue = <<>> /\ unfinished = 0
    BY <1>3
  <2>3. QED BY <2>1, <2>2
<1>5. pump' = IF x.kind = "item" THEN "joining" ELSE "done"
  BY <1>2 DEF Put
<1>6. x.kind # "item" => upstreamOpen' = FALSE
  BY <1>1, <1>2, <1>3 DEF IInv, LockstepInv
<1>7. x \in Items /\ Undelivered(x)'
  BY <1>1, <1>3 DEF Undelivered
<1>8. Passing(x)'
  BY <1>1, <1>3, <1>4 DEF Passing
<1>9. CountsOK'
  BY <1>1, <1>4 DEF IInv, CountsOK
<1>10. LockstepInv'
  <2>1. CASE x.kind = "item"
    BY <1>1, <1>3, <1>5, <1>7, <1>8, <2>1 DEF LockstepInv, Live
  <2>2. CASE x.kind # "item"
    BY <1>1, <1>3, <1>5, <1>6, <1>7, <1>8, <2>2 DEF LockstepInv, Live
  <2>3. QED BY <2>1, <2>2
<1>11. QED BY <1>9, <1>10 DEF IInv

LEMMA JoinKeeps == ASSUME IInv, PumpSteps, Join PROVE IInv'
<1>1. UNCHANGED <<stage, ended, sent, held, queue, unfinished, produced>>
  BY DEF PumpSteps, stageVars, Join
<1>2. pump = "joining" /\ unfinished = 0 /\ pump' = "pulling"
  BY DEF Join
<1>3. Live /\ stage # "unstarted" /\ AtRest
  BY <1>2 DEF IInv, LockstepInv, AtClient, Passing
<1>4. AtRest'
  BY <1>1, <1>3 DEF AtRest
<1>5. CountsOK'
  BY <1>1 DEF IInv, CountsOK
<1>6. LockstepInv'
  BY <1>1, <1>2, <1>3, <1>4 DEF LockstepInv, Live
<1>7. QED BY <1>5, <1>6 DEF IInv

LEMMA UnwindKeeps == ASSUME IInv, PumpSteps, Unwind PROVE IInv'
<1>1. UNCHANGED <<stage, sent, unfinished, produced>>
  BY DEF PumpSteps, stageVars, Unwind
<1>2. pump = "cancelled" /\ pump' = "done" /\ upstreamOpen' = FALSE
  BY DEF Unwind
<1>3. ~Live /\ stage # "unstarted"
  BY <1>2 DEF IInv, LockstepInv
<1>4. QED BY <1>1, <1>2, <1>3 DEF IInv, CountsOK, LockstepInv, Live

-----------------------------------------------------------------------------
(* Into the finally: from here on the item on its way is nobody's.         *)
LEMMA LeavingKeeps ==
    ASSUME IInv, NEW how, EnterFinally(how), stage # "closed",
           UNCHANGED <<sent, produced, upstreamOpen>>,
           unfinished' \in Nat
    PROVE  IInv'
<1>1. stage' = "discarding" /\ pump' = IF pump = "done" THEN pump ELSE "cancelled"
  BY DEF EnterFinally
<1>2. CountsOK'
  BY DEF IInv, CountsOK
<1>3. pump' = "done" => upstreamOpen' = FALSE
  BY <1>1 DEF IInv, LockstepInv
<1>4. LockstepInv'
  BY <1>1, <1>3 DEF LockstepInv, Live
<1>5. QED BY <1>2, <1>4 DEF IInv

(* The loop's head moves no item: it yields progress, leaves, or waits.    *)
LEMMA LoopTopCases ==
    ASSUME NEW g, NEW pg, NEW end, NEW rq, LoopTop(g, pg, end, rq)
    PROVE  \/ /\ stage' \in {"at_drain", "waiting"}
              /\ pump' = pump
              /\ held' = IF g = "none" THEN NoItem ELSE held
              /\ getter' \in {g, IF g = "none" THEN "scheduled" ELSE g}
              /\ pgetter' \in {pg, "scheduled"}
              /\ pheld' = pheld
           \/ EnterFinally("ended")
BY DEF LoopTop

(* With nothing on its way, the generator may be anywhere but at an event. *)
LEMMA StageMoves ==
    ASSUME IInv, Live, pump # "unborn",
           stage' \in {"at_drain", "at_progress", "waiting"},
           stage # "unstarted", stage # "at_event",
           UNCHANGED <<pump, inHand, queue, unfinished, produced, upstreamOpen,
                       held, sent, ended>>
    PROVE  IInv'
<1>1. Live' /\ stage' # "at_event" /\ stage' # "unstarted"
  BY DEF Live
<1>2. CountsOK'
  BY DEF IInv, CountsOK
<1>3. CASE pump = "pulling"
  <2>1. AtRest'
    BY <1>1, <1>3 DEF IInv, LockstepInv, AtRest
  <2>2. LockstepInv'
    BY <1>1, <1>3, <2>1 DEF LockstepInv, Live
  <2>3. QED BY <1>2, <2>2 DEF IInv
<1>4. CASE pump = "putting"
  <2>1. Undelivered(inHand)'
    BY <1>4 DEF IInv, LockstepInv, Undelivered
  <2>2. LockstepInv'
    BY <1>1, <1>4, <2>1 DEF IInv, LockstepInv, Live
  <2>3. QED BY <1>2, <2>2 DEF IInv
<1>5. CASE pump = "joining"
  <2>1. CASE AtRest
    <3>1. AtRest'
      BY <1>1, <2>1 DEF AtRest
    <3>2. LockstepInv'
      BY <1>1, <1>5, <3>1 DEF IInv, LockstepInv, Live
    <3>3. QED BY <1>2, <3>2 DEF IInv
  <2>2. CASE ~AtRest
    <3>1. PICK x \in Items : x.kind = "item" /\ Undelivered(x) /\ Passing(x)
      BY <1>5, <2>2 DEF IInv, LockstepInv, AtClient
    <3>2. Undelivered(x)' /\ Passing(x)'
      BY <1>1, <3>1 DEF Undelivered, Passing
    <3>3. LockstepInv'
      BY <1>1, <1>5, <3>1, <3>2 DEF IInv, LockstepInv, Live
    <3>4. QED BY <1>2, <3>3 DEF IInv
  <2>3. QED BY <2>1, <2>2
<1>6. CASE pump = "done"
  <2>0. upstreamOpen' = FALSE
    BY <1>6 DEF IInv, LockstepInv
  <2>1. CASE \E x \in Items : x.kind # "item" /\ Undelivered(x) /\ Passing(x)
    <3>1. PICK x \in Items : x.kind # "item" /\ Undelivered(x) /\ Passing(x)
      BY <2>1
    <3>2. Undelivered(x)' /\ Passing(x)'
      BY <1>1, <3>1 DEF Undelivered, Passing
    <3>3. LockstepInv'
      BY <1>1, <1>6, <2>0, <3>1, <3>2 DEF LockstepInv, Live
    <3>4. QED BY <1>2, <3>3 DEF IInv
  <2>2. CASE ~\E x \in Items : x.kind # "item" /\ Undelivered(x) /\ Passing(x)
    <3>1. /\ ended = TRUE
          /\ unfinished = 1
          /\ queue = <<>>
          /\ held = NoItem
          /\ sent = produced
      BY <1>6, <2>2 DEF IInv, LockstepInv
    <3>2. LockstepInv'
      BY <1>1, <1>6, <2>0, <3>1 DEF LockstepInv, Live
    <3>3. QED BY <1>2, <3>2 DEF IInv
  <2>3. QED BY <2>1, <2>2
<1>7. pump \in {"pulling", "putting", "joining", "done"}
  BY DEF IInv, LockstepInv
<1>8. QED BY <1>3, <1>4, <1>5, <1>6, <1>7

(* The stage's own steps, one lemma to each that the argument turns on.    *)
LEMMA BeginKeeps == ASSUME IInv, Begin PROVE IInv'
<1>1. /\ stage = "unstarted" /\ stage' = "waiting" /\ pump' = "pulling"
      /\ UNCHANGED <<inHand, queue, unfinished, produced, held, sent>>
  BY DEF Begin
<1>2. Live /\ AtRest
  BY <1>1 DEF IInv, LockstepInv, Live
<1>3. CountsOK'
  BY <1>1 DEF IInv, CountsOK
<1>4. AtRest' /\ Live'
  BY <1>1, <1>2 DEF AtRest, Live
<1>5. LockstepInv'
  BY <1>1, <1>4 DEF LockstepInv
<1>6. QED BY <1>3, <1>5 DEF IInv

LEMMA ResumeEventKeeps == ASSUME IInv, ResumeEvent PROVE IInv'
<1>1. stage = "at_event" /\ unfinished' = unfinished - 1
  BY DEF ResumeEvent
<1>2. /\ UNCHANGED <<inHand, queue, produced, upstreamOpen, ended, sent>>
      /\ LoopTop(getter, pgetter, ended, ready)
  BY DEF ResumeEvent
<1>3. Live /\ pump = "joining" /\ AtClient
  BY <1>1 DEF IInv, LockstepInv, Live, AtRest, Passing
<1>4. unfinished' = 0
  <2>1. unfinished = 1
    BY <1>3 DEF AtClient
  <2>2. QED BY <1>1, <2>1
<1>5. CASE EnterFinally("ended")
  <2>1. unfinished' \in Nat /\ stage # "closed"
    BY <1>1, <1>4
  <2>2. UNCHANGED <<sent, produced, upstreamOpen>>
    BY <1>2
  <2>3. QED BY <1>5, <2>1, <2>2, LeavingKeeps
<1>6. CASE stage' \in {"at_drain", "waiting"} /\ pump' = pump
           /\ held' = IF getter = "none" THEN NoItem ELSE held
  <2>1. held' = NoItem
    BY <1>3, <1>6 DEF AtClient
  <2>2. AtRest' /\ Live' /\ stage' # "unstarted"
    BY <1>2, <1>3, <1>4, <1>6, <2>1 DEF AtRest, AtClient, Live
  <2>3. CountsOK'
    BY <1>2, <1>4 DEF IInv, CountsOK
  <2>4. LockstepInv'
    BY <1>3, <1>6, <2>2 DEF LockstepInv
  <2>5. QED BY <2>3, <2>4 DEF IInv
<1>7. QED BY <1>2, <1>5, <1>6, LoopTopCases

(* A resume that acknowledges nothing: after a drain, or after progress.   *)
LEMMA ResumeElsewhereKeeps ==
    ASSUME IInv, ResumeDrain \/ ResumeProgress, getter = "none" => held = NoItem
    PROVE  IInv'
<1>1. /\ stage \in {"at_drain", "at_progress"}
      /\ UNCHANGED <<inHand, queue, unfinished, produced, upstreamOpen, ended, sent>>
      /\ \E pg : LoopTop(getter, pg, ended, ready)
  BY DEF ResumeDrain, ResumeProgress
<1>2. Live /\ pump # "unborn"
  BY <1>1 DEF IInv, LockstepInv, Live
<1>3. CASE EnterFinally("ended")
  <2>1. unfinished' \in Nat
    BY <1>1 DEF IInv, CountsOK
  <2>2. QED BY <1>1, <1>3, <2>1, LeavingKeeps
<1>4. CASE stage' \in {"at_drain", "waiting"} /\ pump' = pump
           /\ held' = IF getter = "none" THEN NoItem ELSE held
  <2>1. held' = held
    BY <1>4
  <2>2. QED BY <1>1, <1>2, <1>4, <2>1, StageMoves
<1>5. QED BY <1>1, <1>3, <1>4, LoopTopCases

LEMMA ShowProgressKeeps == ASSUME IInv, ShowProgress PROVE IInv'
<1>1. /\ stage = "waiting" /\ stage' = "at_progress"
      /\ UNCHANGED <<pump, inHand, queue, unfinished, produced, upstreamOpen,
                     held, sent, ended>>
  BY DEF ShowProgress, Awake
<1>2. Live /\ pump # "unborn"
  BY <1>1 DEF IInv, LockstepInv, Live
<1>3. QED BY <1>1, <1>2, StageMoves

(* An item with the get() task is the one the client is missing.           *)
LEMMA HeldIsNext ==
    ASSUME IInv, Live, held # NoItem
    PROVE  /\ pump \in {"joining", "done"}
           /\ held \in Items
           /\ Undelivered(held)
           /\ unfinished = 1
           /\ queue = <<>>
           /\ held.kind = "item" <=> pump = "joining"
<1>1. pump \in {"joining", "done"}
  BY DEF IInv, LockstepInv, AtRest
<1>2. \E x \in Items : Undelivered(x) /\ Passing(x) /\ (x.kind = "item" <=> pump = "joining")
  <2>1. CASE pump = "joining"
    BY <2>1 DEF IInv, LockstepInv, AtRest, AtClient
  <2>2. CASE pump = "done"
    BY <2>2 DEF IInv, LockstepInv
  <2>3. QED BY <1>1, <2>1, <2>2
<1>3. PICK x \in Items : Undelivered(x) /\ Passing(x) /\ (x.kind = "item" <=> pump = "joining")
  BY <1>2
<1>4. held = x /\ queue = <<>> /\ unfinished = 1
  BY <1>3 DEF Passing
<1>5. QED BY <1>1, <1>3, <1>4

LEMMA TakeItemKeeps == ASSUME IInv, TakeItem PROVE IInv' /\ sent' = sent + 1
<1>1. /\ stage = "waiting" /\ stage' = "at_event"
      /\ held.kind = "item" /\ held' = NoItem /\ sent' = held.n
      /\ UNCHANGED <<pump, inHand, queue, unfinished, produced, upstreamOpen, ended>>
  BY DEF TakeItem, Awake
<1>2. Live /\ held # NoItem
  <2>1. NoItem.kind = "none"
    BY DEF NoItem
  <2>2. QED BY <1>1, <2>1 DEF Live
<1>3. /\ pump = "joining" /\ Undelivered(held)
      /\ unfinished = 1 /\ queue = <<>>
  BY <1>1, <1>2, HeldIsNext
<1>4. sent' = produced /\ produced = sent + 1
  BY <1>1, <1>3 DEF Undelivered
<1>5. AtClient' /\ Live'
  BY <1>1, <1>3, <1>4 DEF AtClient, Live
<1>6. CountsOK'
  BY <1>1, <1>4 DEF IInv, CountsOK
<1>7. LockstepInv'
  BY <1>1, <1>3, <1>5 DEF LockstepInv
<1>8. QED BY <1>4, <1>6, <1>7 DEF IInv

LEMMA TakeEndKeeps == ASSUME IInv, TakeEnd PROVE IInv'
<1>1. /\ stage = "waiting"
      /\ held.kind = "end"
      /\ ended' = TRUE
      /\ UNCHANGED <<inHand, queue, unfinished, produced, upstreamOpen, sent>>
      /\ LoopTop("none", pgetter, TRUE, Tail(ready))
  BY DEF TakeEnd, Awake
<1>2. Live /\ held # NoItem /\ stage # "closed"
  <2>1. NoItem.kind = "none"
    BY DEF NoItem
  <2>2. QED BY <1>1, <2>1 DEF Live
<1>3. /\ pump = "done" /\ Undelivered(held)
      /\ unfinished = 1 /\ queue = <<>>
  BY <1>1, <1>2, HeldIsNext
<1>4. CASE EnterFinally("ended")
  <2>1. unfinished' \in Nat
    BY <1>1 DEF IInv, CountsOK
  <2>2. QED BY <1>1, <1>2, <1>4, <2>1, LeavingKeeps
<1>5. CASE stage' \in {"at_drain", "waiting"} /\ pump' = pump
           /\ held' = IF "none" = "none" THEN NoItem ELSE held
  <2>1. held' = NoItem /\ stage' # "at_event" /\ stage' # "unstarted"
    BY <1>5
  <2>2. CountsOK'
    BY <1>1 DEF IInv, CountsOK
  <2>3. Live'
    BY <1>5 DEF Live
  <2>4. sent = produced
    BY <1>1, <1>3 DEF Undelivered
  <2>5. upstreamOpen' = FALSE
    BY <1>1, <1>3 DEF IInv, LockstepInv
  <2>6. LockstepInv'
    BY <1>1, <1>3, <1>5, <2>1, <2>3, <2>4, <2>5 DEF LockstepInv
  <2>7. QED BY <2>2, <2>6 DEF IInv
<1>6. QED BY <1>1, <1>4, <1>5, LoopTopCases

LEMMA LeaveKeeps == ASSUME IInv, TakeError \/ Abandon PROVE IInv'
<1>1. /\ \E how : EnterFinally(how)
      /\ stage # "closed"
      /\ UNCHANGED <<unfinished, sent, produced, upstreamOpen>>
  BY DEF TakeError, Abandon, Awake, AtYield
<1>2. unfinished' \in Nat
  BY <1>1 DEF IInv, CountsOK
<1>3. QED BY <1>1, <1>2, LeavingKeeps

LEMMA SettleKeeps == ASSUME IInv, Settle PROVE IInv'
<1>1. /\ stage = "discarding" /\ stage' = "closed" /\ pump = "done"
      /\ UNCHANGED <<pump, upstreamOpen, unfinished, sent, produced>>
  BY DEF Settle, pumpVars
<1>2. QED BY <1>1 DEF IInv, CountsOK, LockstepInv, Live

(* get() moves the item from the queue into the hand of its task.          *)
LEMMA EventGetterKeeps ==
    ASSUME IInv, RunEventGetter, held = NoItem
    PROVE  IInv'
<1>1. UNCHANGED <<pump, inHand, unfinished, produced, upstreamOpen, stage, sent, ended>>
  BY DEF RunEventGetter, RunChunkGetter, stageVars
<1>2. CASE queue = <<>>
  <2>1. UNCHANGED <<queue, held>>
    BY <1>2 DEF RunEventGetter, RunChunkGetter
  <2>2. QED BY <1>1, <2>1 DEF IInv, CountsOK, LockstepInv, Live, AtRest,
                             AtClient, Undelivered, Passing
<1>3. CASE queue # <<>>
  <2>1. held' = Head(queue) /\ queue' = Tail(queue)
    BY <1>3 DEF RunEventGetter, RunChunkGetter
  <2>2. CountsOK'
    BY <1>1 DEF IInv, CountsOK
  <2>3. CASE ~Live
    BY <1>1, <2>2, <2>3 DEF IInv, LockstepInv, Live
  <2>4. CASE Live
    <3>1. PICK x \in Items : Undelivered(x) /\ Passing(x) /\ (x.kind = "item" <=> pump = "joining")
      BY <1>3, <2>4 DEF IInv, LockstepInv, AtRest, AtClient
    <3>2. pump \in {"joining", "done"}
      BY <1>3, <2>4 DEF IInv, LockstepInv, AtRest
    <3>3. queue = <<x>> /\ unfinished = 1 /\ stage # "at_event"
      BY <1>3, <3>1 DEF Passing
    <3>4. held' = x /\ queue' = <<>>
      BY <2>1, <3>3
    <3>5. Undelivered(x)' /\ Passing(x)' /\ Live'
      BY <1>1, <2>4, <3>1, <3>3, <3>4 DEF Undelivered, Passing, Live
    <3>6. LockstepInv'
      BY <1>1, <3>1, <3>2, <3>5 DEF IInv, LockstepInv
    <3>7. QED BY <2>2, <3>6 DEF IInv
  <2>5. QED BY <2>3, <2>4
<1>4. QED BY <1>2, <1>3

LEMMA ProgressGetterKeeps == ASSUME IInv, RunProgressGetter PROVE IInv'
<1>1. UNCHANGED <<pump, inHand, queue, unfinished, produced, upstreamOpen, held, stage, ended, sent>>
  BY DEF RunProgressGetter
<1>2. QED BY <1>1
  DEF IInv, CountsOK, LockstepInv, Live, AtRest, Undelivered, Passing,
       AtClient

-----------------------------------------------------------------------------
(* A get() task that is not done holds no item.                            *)
GetterInv == getter # "done" => held = NoItem

LEMMA GetterKeeps == IInv /\ GetterInv /\ [Next]_vars => GetterInv'
<1> SUFFICES ASSUME IInv, GetterInv, [Next]_vars PROVE GetterInv'
  OBVIOUS
<1>1. ASSUME NEW d \in Delegations, Start(d) \/ Step(d) \/ Close(d) PROVE GetterInv'
  BY <1>1 DEF GetterInv, Start, Step, Close, Emit
<1>2. CASE Upstream
  BY <1>2 DEF GetterInv, Upstream, UpstreamYields, UpstreamEnds, UpstreamFails, Produce
<1>3. CASE PumpSteps
  BY <1>3 DEF GetterInv, PumpSteps, Put, Join, Unwind
<1>4. CASE Begin
  <2>1. held = NoItem /\ held' = held
    BY <1>4 DEF Begin, IInv, LockstepInv, Live, AtRest
  <2>2. QED BY <2>1 DEF GetterInv
<1>5. CASE Resume
  <2>1. \E pg : LoopTop(getter, pg, ended, ready)
    BY <1>5 DEF Resume, ResumeDrain, ResumeProgress, ResumeEvent
  <2>2. CASE EnterFinally("ended")
    BY <2>2 DEF GetterInv, EnterFinally
  <2>3. CASE /\ held' = IF getter = "none" THEN NoItem ELSE held
             /\ getter' \in {getter, IF getter = "none" THEN "scheduled" ELSE getter}
    BY <2>3 DEF GetterInv
  <2>4. QED BY <2>1, <2>2, <2>3, LoopTopCases
<1>6. CASE Getters
  BY <1>6 DEF GetterInv, Getters, RunEventGetter, RunChunkGetter, RunProgressGetter
<1>7. CASE Wake
  <2>1. CASE ShowProgress
    BY <2>1 DEF GetterInv, ShowProgress
  <2>2. CASE TakeItem
    BY <2>2 DEF GetterInv, TakeItem
  <2>3. CASE TakeEnd
    <3>1. LoopTop("none", pgetter, TRUE, Tail(ready))
      BY <2>3 DEF TakeEnd
    <3>2. QED BY <3>1, LoopTopCases DEF GetterInv, EnterFinally
  <2>4. CASE TakeError
    BY <2>4 DEF GetterInv, TakeError, EnterFinally
  <2>5. QED BY <1>7, <2>1, <2>2, <2>3, <2>4 DEF Wake
<1>8. CASE Abandon
  BY <1>8 DEF GetterInv, Abandon, EnterFinally
<1>9. CASE Settle
  BY <1>9 DEF GetterInv, Settle, pumpVars
<1>10. CASE UNCHANGED vars
  BY <1>10 DEF GetterInv, vars, pumpVars
<1>11. QED
  BY <1>1, <1>2, <1>3, <1>4, <1>5, <1>6, <1>7, <1>8, <1>9, <1>10 DEF Next, Over

LEMMA NextKeeps == IInv /\ GetterInv /\ [Next]_vars => IInv'
<1> SUFFICES ASSUME IInv, GetterInv, [Next]_vars PROVE IInv'
  OBVIOUS
<1>1. ASSUME NEW d \in Delegations, Start(d) \/ Step(d) \/ Close(d) PROVE IInv'
  BY <1>1, DelegationsKeep
<1>2. CASE Upstream
  BY <1>2, UpstreamKeeps
<1>3. CASE PumpSteps
  BY <1>3, PutKeeps, JoinKeeps, UnwindKeeps DEF PumpSteps
<1>4. CASE Begin
  BY <1>4, BeginKeeps
<1>5. CASE Resume
  BY <1>5, ResumeEventKeeps, ResumeElsewhereKeeps DEF Resume, GetterInv
<1>6. CASE Getters
  BY <1>6, EventGetterKeeps, ProgressGetterKeeps
     DEF Getters, GetterInv, RunEventGetter, RunChunkGetter
<1>7. CASE Wake
  BY <1>7, ShowProgressKeeps, TakeItemKeeps, TakeEndKeeps, LeaveKeeps DEF Wake
<1>8. CASE Abandon
  BY <1>8, LeaveKeeps
<1>9. CASE Settle
  BY <1>9, SettleKeeps
<1>10. CASE UNCHANGED vars
  <2>1. UNCHANGED <<pump, inHand, queue, unfinished, produced, upstreamOpen, held, stage, ended, sent>>
    BY <1>10 DEF vars, pumpVars, stageVars
  <2>2. QED BY <2>1
    DEF IInv, CountsOK, LockstepInv, Live, AtRest, Undelivered, Passing, AtClient
<1>11. QED
  BY <1>1, <1>2, <1>3, <1>4, <1>5, <1>6, <1>7, <1>8, <1>9, <1>10 DEF Next, Over

LEMMA Invariance == Spec => [](IInv /\ GetterInv)
<1>1. Init => GetterInv
  BY DEF Init, PumpInit, GetterInv
<1>2. QED BY <1>1, InitLockstep, GetterKeeps, NextKeeps, PTL DEF Spec

-----------------------------------------------------------------------------
(* Upstream is asked for its next item only once the client has every      *)
(* earlier one and has come back for more: pump_in_lockstep's join() and   *)
(* the task_done() after inject_subagent_events' yield keep the run and    *)
(* its client in lockstep.                                                 *)
THEOREM LockstepHolds == Spec => []Lockstep
<1>1. IInv => Lockstep
  BY DEF IInv, LockstepInv, Lockstep, Live, AtRest
<1>2. QED BY <1>1, Invariance, PTL

(* No step of any task hands the client an item out of turn or twice: the  *)
(* TakeItem that hands one over hands over the successor of the last, and  *)
(* no other step of the stage, its tasks or the delegations hands one over *)
(* or counts one.                                                          *)
THEOREM EventsInOrderHolds == Spec => EventsInOrder
<1>1. IInv /\ GetterInv /\ [Next]_vars =>
        [sent' = IF HandsOver THEN sent + 1 ELSE sent]_vars
  <2> SUFFICES ASSUME IInv, [Next]_vars, vars' # vars
               PROVE  sent' = IF HandsOver THEN sent + 1 ELSE sent
    OBVIOUS
  <2>1. CASE TakeItem
    <3>1. HandsOver
      BY <2>1 DEF TakeItem, Awake, HandsOver
    <3>2. QED BY <2>1, <3>1, TakeItemKeeps
  <2>2. CASE Next /\ ~TakeItem
    <3>1. sent' = sent
      BY <2>2 DEF Next, Start, Step, Close, Emit, Upstream, UpstreamYields,
         UpstreamEnds, UpstreamFails, PumpSteps, Begin, Resume, ResumeDrain,
         ResumeProgress, ResumeEvent, Getters, RunEventGetter,
         RunProgressGetter, Wake, ShowProgress, TakeEnd, TakeError, Abandon,
         Settle, Over, stageVars, vars
    <3>2. stage' = stage \/ stage' # "at_event"
      BY <2>2 DEF Next, Start, Step, Close, Emit, Upstream, UpstreamYields,
         UpstreamEnds, UpstreamFails, PumpSteps, Begin, Resume, ResumeDrain,
         ResumeProgress, ResumeEvent, Getters, RunEventGetter,
         RunProgressGetter, Wake, ShowProgress, TakeEnd, TakeError, Abandon,
         Settle, Over, LoopTop, EnterFinally, stageVars, vars
    <3>3. QED BY <3>1, <3>2 DEF HandsOver
  <2>3. QED BY <2>1, <2>2
<1>2. QED BY <1>1, Invariance, PTL DEF Spec, EventsInOrder

(* When the stage is over, discard_tasks has seen its pump through: nothing*)
(* is inside the upstream generator, and it has run its finally.           *)
THEOREM NothingLeftRunningHolds == Spec => []NothingLeftRunning
<1>1. IInv => NothingLeftRunning
  BY DEF IInv, LockstepInv, NothingLeftRunning
<1>2. QED BY <1>1, Invariance, PTL

-----------------------------------------------------------------------------
(* Type correctness.                                                       *)

\* A delegation that has not closed has an announcement left for its close.
StepsInv ==
    \A d \in Delegations :
        /\ delegation[d] = "idle" => steps[d] = 0
        /\ delegation[d] = "open" => steps[d] \in 1 .. MaxSteps - 1

LEMMA RemoveAtType ==
    ASSUME NEW S, NEW s \in Seq(S), NEW i \in DOMAIN s
    PROVE  RemoveAt(s, i) \in Seq(S)
<1>1. Len(s) \in Nat /\ DOMAIN s = 1 .. Len(s)
  BY LenProperties
<1>2. SubSeq(s, 1, i - 1) \in Seq(S) /\ SubSeq(s, i + 1, Len(s)) \in Seq(S)
  BY <1>1, SubSeqProperties
<1>3. QED BY <1>2, ConcatProperties DEF RemoveAt

\* A get() task's turn leaves a queue of tasks.
LEMMA TurnType ==
    ASSUME ready \in Seq(Tasks), NEW i \in DOMAIN ready,
           ready' \in {RemoveAt(ready, i), Append(RemoveAt(ready, i), "stage")}
    PROVE  ready' \in Seq(Tasks)
<1>1. RemoveAt(ready, i) \in Seq(Tasks)
  BY RemoveAtType
<1>2. "stage" \in Tasks
  BY DEF Tasks
<1>3. QED BY <1>1, <1>2, AppendProperties

LEMMA InitType == Init => TypeOK /\ StepsInv
<1> SUFFICES ASSUME Init PROVE TypeOK /\ StepsInv
  OBVIOUS
<1>1. PumpTypeOK
  <2>1. \A S : <<>> \in Seq(S)
    BY EmptySeq
  <2>2. QED BY <2>1, NItemsAssumption
      DEF Init, PumpInit, PumpTypeOK, PumpStates, GetterStates
<1>2. progress \in Seq(Announcements) /\ shown \in Seq(Shown) /\ announced \in Seq(Announcements)
  BY EmptySeq DEF Init
<1>3. /\ pgetter \in GetterStates
      /\ stage \in StageStates
      /\ ended \in BOOLEAN
      /\ pheld \in Announcements \union {NoAnnouncement}
      /\ verdict \in {"none", "ended", "failed", "abandoned"}
  BY DEF Init, GetterStates, StageStates
<1>7. sent \in 0 .. NItems
  BY NItemsAssumption DEF Init
<1>4. delegation \in [Delegations -> {"idle", "open", "closed"}] /\ steps \in [Delegations -> 0 .. MaxSteps]
  BY StageAssumption DEF Init
<1>5. StepsInv
  BY DEF Init, StepsInv
<1>6. QED BY <1>1, <1>2, <1>3, <1>4, <1>5, <1>7 DEF TypeOK

LEMMA EmitType ==
    ASSUME TypeOK, NEW d \in Delegations, NEW phase \in {"started", "step", "closed"},
           steps[d] + 1 \in 1 .. MaxSteps, Emit(d, phase),
           delegation' \in [Delegations -> {"idle", "open", "closed"}]
    PROVE  TypeOK'
<1> DEFINE a == [by |-> d, step |-> steps[d] + 1, phase |-> phase, during |-> produced]
<1>1. a \in Announcements
  BY DEF TypeOK, PumpTypeOK, Announcements
<1>2. /\ progress' = Append(progress, a)
      /\ announced' = Append(announced, a)
      /\ steps' = [steps EXCEPT ![d] = @ + 1]
      /\ pgetter' \in {pgetter, "scheduled"}
      /\ ready' \in {ready, Append(ready, "progress_getter")}
  BY DEF Emit
<1>3. UNCHANGED <<pump, inHand, queue, unfinished, produced, upstreamOpen,
                  getter, held, pheld, stage, ended, sent, shown, verdict>>
  BY DEF Emit
<1>4. progress' \in Seq(Announcements) /\ announced' \in Seq(Announcements)
  <2>1. progress \in Seq(Announcements) /\ announced \in Seq(Announcements)
    BY DEF TypeOK
  <2>2. QED BY <1>1, <1>2, <2>1, AppendProperties
<1>5. ready' \in Seq(Tasks)
  <2>1. ready \in Seq(Tasks)
    BY DEF TypeOK, PumpTypeOK
  <2>2. "progress_getter" \in Tasks
    BY DEF Tasks
  <2>3. Append(ready, "progress_getter") \in Seq(Tasks)
    BY <2>1, <2>2, AppendProperties
  <2>4. QED BY <1>2, <2>1, <2>3
<1>6. steps' \in [Delegations -> 0 .. MaxSteps]
  BY <1>2 DEF TypeOK
<1>7. pgetter' \in GetterStates
  BY <1>2 DEF TypeOK, GetterStates
<1>8. PumpTypeOK'
  BY <1>3, <1>5 DEF TypeOK, PumpTypeOK
<1>9. QED BY <1>3, <1>4, <1>6, <1>7, <1>8 DEF TypeOK

LEMMA DelegationsType ==
    ASSUME TypeOK, StepsInv, NEW d \in Delegations, Start(d) \/ Step(d) \/ Close(d)
    PROVE  TypeOK' /\ StepsInv'
<1>1. CASE Start(d)
  <2>1. delegation' = [delegation EXCEPT ![d] = "open"] /\ steps[d] = 0 /\ Emit(d, "started")
    BY <1>1 DEF Start, StepsInv
  <2>2. delegation' \in [Delegations -> {"idle", "open", "closed"}]
    BY <2>1 DEF TypeOK
  <2>3. TypeOK'
    BY <2>1, <2>2, EmitType, StageAssumption
  <2>4. steps' = [steps EXCEPT ![d] = @ + 1]
    BY <2>1 DEF Emit
  <2>5. StepsInv'
    BY <2>1, <2>4, StageAssumption DEF StepsInv, TypeOK
  <2>6. QED BY <2>3, <2>5
<1>2. CASE Step(d)
  <2>1. delegation' = delegation /\ delegation[d] = "open" /\ steps[d] < MaxSteps - 1 /\ Emit(d, "step")
    BY <1>2 DEF Step
  <2>2. steps[d] \in 1 .. MaxSteps - 1
    BY <2>1 DEF StepsInv
  <2>7. delegation' \in [Delegations -> {"idle", "open", "closed"}]
    BY <2>1 DEF TypeOK
  <2>8. steps[d] + 1 \in 1 .. MaxSteps
    BY <2>2, StageAssumption
  <2>3. TypeOK'
    BY <2>1, <2>7, <2>8, EmitType
  <2>4. steps' = [steps EXCEPT ![d] = @ + 1]
    BY <2>1 DEF Emit
  <2>5. StepsInv'
    BY <2>1, <2>2, <2>4, StageAssumption DEF StepsInv, TypeOK
  <2>6. QED BY <2>3, <2>5
<1>3. CASE Close(d)
  <2>1. delegation' = [delegation EXCEPT ![d] = "closed"] /\ delegation[d] = "open" /\ Emit(d, "closed")
    BY <1>3 DEF Close
  <2>2. steps[d] \in 1 .. MaxSteps - 1
    BY <2>1 DEF StepsInv
  <2>3. delegation' \in [Delegations -> {"idle", "open", "closed"}]
    BY <2>1 DEF TypeOK
  <2>4. TypeOK'
    BY <2>1, <2>2, <2>3, EmitType, StageAssumption
  <2>5. steps' = [steps EXCEPT ![d] = @ + 1]
    BY <2>1 DEF Emit
  <2>6. StepsInv'
    BY <2>1, <2>5, StageAssumption DEF StepsInv, TypeOK
  <2>7. QED BY <2>4, <2>6
<1>4. QED BY <1>1, <1>2, <1>3

\* What TypeOK says of everything but the pump's variables.
StageTypeOK ==
    /\ progress \in Seq(Announcements)
    /\ pgetter \in GetterStates
    /\ pheld \in Announcements \union {NoAnnouncement}
    /\ stage \in StageStates
    /\ ended \in BOOLEAN
    /\ sent \in 0 .. NItems
    /\ shown \in Seq(Shown)
    /\ verdict \in {"none", "ended", "failed", "abandoned"}

DelegationTypeOK ==
    /\ delegation \in [Delegations -> {"idle", "open", "closed"}]
    /\ steps \in [Delegations -> 0 .. MaxSteps]
    /\ announced \in Seq(Announcements)

LEMMA TypeParts == TypeOK <=> PumpTypeOK /\ StageTypeOK /\ DelegationTypeOK
BY DEF TypeOK, StageTypeOK, DelegationTypeOK

LEMMA QuietDelegationsType ==
    ASSUME DelegationTypeOK, StepsInv, UNCHANGED delegationVars
    PROVE  DelegationTypeOK' /\ StepsInv'
BY DEF DelegationTypeOK, StepsInv, delegationVars

LEMMA QuietStageType == ASSUME StageTypeOK, UNCHANGED stageVars PROVE StageTypeOK'
BY DEF StageTypeOK, stageVars

LEMMA PumpSideType ==
    ASSUME IInv, TypeOK, Upstream \/ PumpSteps \/ RunEventGetter
    PROVE  PumpTypeOK'
<1>1. CASE Upstream
  <2>1. PICK kind \in {"item", "end", "error"} : Produce(kind)
    BY <1>1 DEF Upstream, UpstreamYields, UpstreamEnds, UpstreamFails
  <2>2. inHand' \in Items
    BY <2>1, NItemsAssumption DEF Produce, Items, TypeOK, PumpTypeOK
  <2>3. produced' \in 0 .. NItems
    BY <2>1, NItemsAssumption DEF Produce, TypeOK, PumpTypeOK
  <2>4. pump' \in PumpStates /\ upstreamOpen' \in BOOLEAN
    BY <2>1 DEF Produce, PumpStates
  <2>5. UNCHANGED <<queue, unfinished, getter, held, ready>>
    BY <2>1 DEF Produce
  <2>6. QED BY <2>2, <2>3, <2>4, <2>5 DEF TypeOK, PumpTypeOK
<1>2. CASE PumpSteps /\ Put
  <2>1. inHand \in Items /\ unfinished = 0
    BY <1>2 DEF Put, IInv, LockstepInv, Undelivered, Live
  <2>2. /\ queue' = Append(queue, inHand) /\ unfinished' = unfinished + 1 /\ inHand' = NoItem
        /\ pump' \in {"joining", "done"}
        /\ getter' \in {getter, "scheduled"}
        /\ ready' \in {ready, Append(ready, "chunk_getter")}
        /\ UNCHANGED <<produced, upstreamOpen, held>>
    BY <1>2 DEF Put
  <2>3. queue' \in Seq(Items)
    BY <2>1, <2>2, AppendProperties DEF TypeOK, PumpTypeOK
  <2>4. ready' \in Seq(Tasks)
    <3>1. ready \in Seq(Tasks) /\ "chunk_getter" \in Tasks
      BY DEF TypeOK, PumpTypeOK, Tasks
    <3>2. QED BY <2>2, <3>1, AppendProperties
  <2>5. pump' \in PumpStates /\ getter' \in GetterStates
    BY <2>2 DEF TypeOK, PumpTypeOK, PumpStates, GetterStates
  <2>6. unfinished' \in Nat
    BY <2>1, <2>2
  <2>7. QED BY <2>2, <2>3, <2>4, <2>5, <2>6 DEF TypeOK, PumpTypeOK
<1>3. CASE PumpSteps /\ Join
  BY <1>3 DEF Join, TypeOK, PumpTypeOK, PumpStates
<1>4. CASE PumpSteps /\ Unwind
  BY <1>4 DEF Unwind, TypeOK, PumpTypeOK, PumpStates
<1>5. CASE RunEventGetter
  <2>1. UNCHANGED <<pump, inHand, unfinished, produced, upstreamOpen>> /\ getter' \in GetterStates
    BY <1>5 DEF RunEventGetter, RunChunkGetter, GetterStates
  <2>2. queue' \in Seq(Items) /\ held' \in Items \union {NoItem}
    <3>1. queue \in Seq(Items) /\ held \in Items \union {NoItem}
      BY DEF TypeOK, PumpTypeOK
    <3>2. IF queue = <<>> THEN UNCHANGED <<queue, held>>
                          ELSE queue' = Tail(queue) /\ held' = Head(queue)
      BY <1>5 DEF RunEventGetter, RunChunkGetter
    <3>3. QED BY <3>1, <3>2, HeadTailProperties
  <2>3. \E i \in DOMAIN ready : ready' \in {RemoveAt(ready, i), Append(RemoveAt(ready, i), "stage")}
    BY <1>5 DEF RunEventGetter, RunChunkGetter, CanRunGetter, CanRunGetterAndWake
  <2>4. ready' \in Seq(Tasks)
    BY <2>3, TurnType DEF TypeOK, PumpTypeOK
  <2>5. QED BY <2>1, <2>2, <2>4 DEF TypeOK, PumpTypeOK
<1>6. QED BY <1>1, <1>2, <1>3, <1>4, <1>5 DEF PumpSteps

\* Delivering an announcement keeps the record of deliveries one.
LEMMA DeliverType ==
    ASSUME shown \in Seq(Shown), sent \in 0 .. NItems,
           NEW b \in Announcements, Deliver(b)
    PROVE  shown' \in Seq(Shown)
<1>1. [what |-> b, after |-> sent] \in Shown
  BY DEF Shown
<1>2. shown' = Append(shown, [what |-> b, after |-> sent])
  BY DEF Deliver
<1>3. QED BY <1>1, <1>2, AppendProperties

\* So does going into the finally.
LEMMA LeavingType ==
    ASSUME PumpTypeOK, StageTypeOK,
           NEW how \in {"ended", "failed", "abandoned"}, EnterFinally(how),
           UNCHANGED <<progress, shown>>
    PROVE  /\ pump' \in PumpStates
           /\ getter' \in GetterStates
           /\ held' \in Items \union {NoItem}
           /\ ready' \in Seq(Tasks)
           /\ progress' \in Seq(Announcements)
           /\ pgetter' \in GetterStates
           /\ pheld' \in Announcements \union {NoAnnouncement}
           /\ stage' \in StageStates
           /\ shown' \in Seq(Shown)
           /\ verdict' \in {"none", "ended", "failed", "abandoned"}
<1>1. ready' \in Seq(Tasks)
  BY EmptySeq DEF EnterFinally
<1>2. /\ pump' \in {pump, "cancelled"} /\ getter' = "none" /\ held' = NoItem
      /\ pgetter' = "none" /\ pheld' = NoAnnouncement
      /\ stage' = "discarding" /\ verdict' = how
  BY DEF EnterFinally
<1>3. QED BY <1>1, <1>2 DEF PumpTypeOK, StageTypeOK, PumpStates, GetterStates, StageStates

\* The generator's loop, whatever it was handed, leaves its types alone.
LEMMA LoopTopType ==
    ASSUME PumpTypeOK, StageTypeOK, NEW g \in GetterStates, NEW pg \in GetterStates,
           NEW end \in BOOLEAN, NEW rq \in Seq(Tasks), LoopTop(g, pg, end, rq)
    PROVE  /\ pump' \in PumpStates
           /\ getter' \in GetterStates
           /\ held' \in Items \union {NoItem}
           /\ ready' \in Seq(Tasks)
           /\ progress' \in Seq(Announcements)
           /\ pgetter' \in GetterStates
           /\ pheld' \in Announcements \union {NoAnnouncement}
           /\ stage' \in StageStates
           /\ shown' \in Seq(Shown)
           /\ verdict' \in {"none", "ended", "failed", "abandoned"}
<1>1. CASE progress # <<>> /\ stage' = "at_drain"
  <2>1. /\ Deliver(Head(progress)) /\ progress' = Tail(progress)
        /\ getter' = g /\ pgetter' = pg /\ ready' = rq
        /\ held' \in {NoItem, held}
        /\ UNCHANGED <<pump, pheld, verdict>>
    BY <1>1 DEF LoopTop, EnterFinally
  <2>2. Head(progress) \in Announcements /\ progress' \in Seq(Announcements)
    BY <1>1, <2>1, HeadTailProperties DEF StageTypeOK
  <2>3. shown' \in Seq(Shown)
    BY <2>1, <2>2, DeliverType DEF StageTypeOK
  <2>4. stage' \in StageStates
    BY <1>1 DEF StageStates, AtYield
  <2>5. held' \in Items \union {NoItem} /\ pump' \in PumpStates
    BY <2>1 DEF PumpTypeOK
  <2>6. pheld' \in Announcements \union {NoAnnouncement} /\ verdict' \in {"none", "ended", "failed", "abandoned"}
    BY <2>1 DEF StageTypeOK
  <2>7. QED BY <2>1, <2>2, <2>3, <2>4, <2>5, <2>6
<1>2. CASE EnterFinally("ended") /\ UNCHANGED <<progress, shown>>
  BY <1>2, LeavingType
<1>3. CASE stage' = "waiting"
  <2>1. /\ getter' \in {g, "scheduled"} /\ pgetter' \in {pg, "scheduled"}
        /\ held' \in {NoItem, held}
        /\ UNCHANGED <<pump, progress, pheld, shown, verdict>>
    BY <1>3 DEF LoopTop, EnterFinally
  <2>2. ready' = rq \o (IF g = "none" THEN <<"chunk_getter">> ELSE <<>>)
                    \o (IF pg = "none" THEN <<"progress_getter">> ELSE <<>>)
                    \o (IF "done" \in {g, pg} THEN <<"stage">> ELSE <<>>)
    BY <1>3 DEF LoopTop, EnterFinally
  <2>3. ready' \in Seq(Tasks)
    <3> DEFINE p == IF g = "none" THEN <<"chunk_getter">> ELSE <<>>
               q == IF pg = "none" THEN <<"progress_getter">> ELSE <<>>
               r == IF "done" \in {g, pg} THEN <<"stage">> ELSE <<>>
    <3>1. p \in Seq(Tasks) /\ q \in Seq(Tasks) /\ r \in Seq(Tasks)
      <4>1. <<>> \in Seq(Tasks) /\ \A t \in Tasks : <<t>> \in Seq(Tasks)
        BY EmptySeq
      <4>2. {"chunk_getter", "progress_getter", "stage"} \subseteq Tasks
        BY DEF Tasks
      <4>3. QED BY <4>1, <4>2
    <3> HIDE DEF p, q, r
    <3>2. rq \o p \in Seq(Tasks)
      BY <3>1, ConcatProperties
    <3>3. (rq \o p) \o q \in Seq(Tasks)
      BY <3>1, <3>2, ConcatProperties
    <3>4. ((rq \o p) \o q) \o r \in Seq(Tasks)
      BY <3>1, <3>3, ConcatProperties
    <3>5. QED BY <2>2, <3>4 DEF p, q, r
  <2>4. stage' \in StageStates
    BY <1>3 DEF StageStates
  <2>5. getter' \in GetterStates /\ pgetter' \in GetterStates
    BY <2>1 DEF GetterStates
  <2>6. held' \in Items \union {NoItem} /\ pump' \in PumpStates
    BY <2>1 DEF PumpTypeOK
  <2>7. QED BY <2>1, <2>3, <2>4, <2>5, <2>6 DEF StageTypeOK
<1>4. QED BY <1>1, <1>2, <1>3 DEF LoopTop

\* A progress.get() task that is done holds an announcement.
AnswerInv == pgetter = "done" /\ stage # "at_progress" => pheld \in Announcements

\* The stage's turn takes it off the ready queue.
LEMMA WokenType ==
    ASSUME PumpTypeOK, Awake
    PROVE  /\ Tail(ready) \in Seq(Tasks)
           /\ ready' = Tail(ready) => ready' \in Seq(Tasks)
BY HeadTailProperties DEF PumpTypeOK, Awake

LEMMA StageSideType ==
    ASSUME IInv, TypeOK, AnswerInv, Begin \/ Resume \/ RunProgressGetter \/ Wake \/ Abandon \/ Settle
    PROVE  PumpTypeOK' /\ StageTypeOK'
<1>0. PumpTypeOK /\ StageTypeOK
  BY TypeParts
<1>1. CASE Begin
  <2>1. ready' \in Seq(Tasks)
    <3>1. ready' = Append(Append(<<>>, "chunk_getter"), "progress_getter")
      BY <1>1 DEF Begin
    <3>2. {"chunk_getter", "progress_getter"} \subseteq Tasks
      BY DEF Tasks
    <3>3. QED BY <3>1, <3>2, EmptySeq, AppendProperties
  <2>2. /\ pump' = "pulling" /\ stage' = "waiting"
        /\ getter' = "scheduled" /\ pgetter' = "scheduled"
        /\ UNCHANGED <<inHand, queue, unfinished, produced, upstreamOpen, held,
                       progress, pheld, ended, sent, shown, verdict>>
    BY <1>1 DEF Begin
  <2>3. QED BY <1>0, <2>1, <2>2 DEF PumpTypeOK, StageTypeOK, PumpStates, GetterStates, StageStates
<1>2. CASE Resume
  <2>1. PICK pg \in GetterStates : LoopTop(getter, pg, ended, ready)
    BY <1>0, <1>2 DEF Resume, ResumeDrain, ResumeProgress, ResumeEvent, StageTypeOK, GetterStates
  <2>2. UNCHANGED <<inHand, queue, produced, upstreamOpen, ended, sent>>
    BY <1>2 DEF Resume, ResumeDrain, ResumeProgress, ResumeEvent
  <2>3. unfinished' \in Nat
    <3>1. CASE ResumeEvent
      BY <3>1, ResumeEventKeeps DEF IInv, CountsOK
    <3>2. CASE ~ResumeEvent
      BY <1>0, <1>2, <3>2 DEF Resume, ResumeDrain, ResumeProgress, PumpTypeOK
    <3>3. QED BY <3>1, <3>2
  <2>4. getter \in GetterStates /\ ended \in BOOLEAN /\ ready \in Seq(Tasks)
    BY <1>0 DEF PumpTypeOK, StageTypeOK
  <2>5. QED BY <1>0, <2>1, <2>2, <2>3, <2>4, LoopTopType DEF PumpTypeOK, StageTypeOK
<1>3. CASE RunProgressGetter
  <2>1. UNCHANGED <<pump, inHand, queue, unfinished, produced, upstreamOpen,
                    getter, held, stage, ended, sent, shown, verdict>> /\ pgetter' \in GetterStates
    BY <1>3 DEF RunProgressGetter, GetterStates
  <2>2. progress' \in Seq(Announcements) /\ pheld' \in Announcements \union {NoAnnouncement}
    <3>1. IF progress = <<>> THEN UNCHANGED <<progress, pheld>>
                             ELSE pheld' = Head(progress) /\ progress' = Tail(progress)
      BY <1>3 DEF RunProgressGetter
    <3>2. QED BY <1>0, <3>1, HeadTailProperties DEF StageTypeOK
  <2>3. \E i \in DOMAIN ready : ready' \in {RemoveAt(ready, i), Append(RemoveAt(ready, i), "stage")}
    BY <1>3 DEF RunProgressGetter, CanRunGetter, CanRunGetterAndWake
  <2>4. ready' \in Seq(Tasks)
    BY <1>0, <2>3, TurnType DEF PumpTypeOK
  <2>5. QED BY <1>0, <2>1, <2>2, <2>4 DEF PumpTypeOK, StageTypeOK
<1>4. CASE ShowProgress
  <2>1. /\ Deliver(pheld) /\ pheld \in Announcements
        /\ pheld' = NoAnnouncement /\ stage' = "at_progress"
        /\ UNCHANGED <<pump, inHand, queue, unfinished, produced, upstreamOpen,
                       getter, held, progress, pgetter, ended, sent, verdict>>
    BY <1>4 DEF ShowProgress, AnswerInv, Awake
  <2>2. shown' \in Seq(Shown)
    BY <1>0, <2>1, DeliverType DEF StageTypeOK
  <2>3. ready' \in Seq(Tasks)
    BY <1>0, <1>4, WokenType DEF ShowProgress
  <2>4. QED BY <1>0, <2>1, <2>2, <2>3 DEF PumpTypeOK, StageTypeOK, StageStates, AtYield
<1>5. CASE TakeItem
  <2>1. /\ stage' = "at_event" /\ getter' = "none" /\ held' = NoItem
        /\ UNCHANGED <<pump, inHand, queue, unfinished, produced, upstreamOpen,
                       progress, pgetter, pheld, ended, shown, verdict>>
    BY <1>5 DEF TakeItem
  <2>2. sent' \in 0 .. NItems
    BY <1>5, TakeItemKeeps DEF IInv, CountsOK
  <2>3. ready' \in Seq(Tasks)
    BY <1>0, <1>5, WokenType DEF TakeItem
  <2>4. QED BY <1>0, <2>1, <2>2, <2>3
        DEF PumpTypeOK, StageTypeOK, StageStates, AtYield, GetterStates
<1>6. CASE TakeEnd
  <2>1. /\ LoopTop("none", pgetter, TRUE, Tail(ready)) /\ ended' = TRUE
        /\ UNCHANGED <<inHand, queue, unfinished, produced, upstreamOpen, sent>>
    BY <1>6 DEF TakeEnd
  <2>2. /\ "none" \in GetterStates /\ pgetter \in GetterStates /\ TRUE \in BOOLEAN
        /\ Tail(ready) \in Seq(Tasks)
    BY <1>0, <1>6, WokenType DEF TakeEnd, StageTypeOK, GetterStates
  <2>3. QED BY <1>0, <2>1, <2>2, LoopTopType DEF PumpTypeOK, StageTypeOK
<1>7. CASE TakeError \/ Abandon
  <2>1. /\ \E how \in {"ended", "failed", "abandoned"} : EnterFinally(how)
        /\ UNCHANGED <<inHand, queue, unfinished, produced, upstreamOpen, progress,
                       ended, sent, shown>>
    BY <1>7 DEF TakeError, Abandon
  <2>2. QED BY <1>0, <2>1, LeavingType DEF PumpTypeOK, StageTypeOK
<1>8. CASE Settle
  <2>1. /\ stage' = "closed"
        /\ UNCHANGED <<pumpVars, progress, pgetter, pheld, ended, sent, shown, verdict>>
    BY <1>8 DEF Settle
  <2>2. QED BY <1>0, <2>1 DEF PumpTypeOK, StageTypeOK, StageStates, pumpVars
<1>9. QED BY <1>1, <1>2, <1>3, <1>4, <1>5, <1>6, <1>7, <1>8 DEF Wake

LEMMA LoopTopAnswer ==
    ASSUME NEW g, NEW pg, NEW end, NEW rq, LoopTop(g, pg, end, rq),
           pg = "done" => pheld \in Announcements
    PROVE  AnswerInv'
<1>1. CASE EnterFinally("ended")
  BY <1>1 DEF EnterFinally, AnswerInv
<1>2. CASE pgetter' \in {pg, "scheduled"} /\ pheld' = pheld
  BY <1>2 DEF AnswerInv
<1>3. QED BY <1>1, <1>2, LoopTopCases

LEMMA AnswerKeeps == TypeOK /\ AnswerInv /\ [Next]_vars => AnswerInv'
<1> SUFFICES ASSUME TypeOK, AnswerInv, [Next]_vars PROVE AnswerInv'
  OBVIOUS
<1>1. ASSUME NEW d \in Delegations, Start(d) \/ Step(d) \/ Close(d) PROVE AnswerInv'
  BY <1>1 DEF AnswerInv, Start, Step, Close, Emit
<1>2. CASE Upstream \/ PumpSteps \/ RunEventGetter \/ UNCHANGED vars
  BY <1>2 DEF AnswerInv, Upstream, UpstreamYields, UpstreamEnds, UpstreamFails,
              PumpSteps, RunEventGetter, vars, stageVars
<1>3. CASE Begin \/ Settle \/ TakeItem \/ ShowProgress
  <2>1. \/ pgetter' = "scheduled"
        \/ UNCHANGED <<pgetter, pheld>> /\ stage # "at_progress"
        \/ stage' = "at_progress"
    BY <1>3 DEF Begin, Settle, TakeItem, ShowProgress, Awake
  <2>2. QED BY <2>1 DEF AnswerInv
<1>4. CASE Resume \/ TakeEnd
  <2>1. CASE ResumeDrain \/ ResumeEvent
    <3>1. LoopTop(getter, pgetter, ended, ready) /\ stage # "at_progress"
      BY <2>1 DEF ResumeDrain, ResumeEvent
    <3>2. QED BY <3>1, LoopTopAnswer DEF AnswerInv
  <2>2. CASE ResumeProgress
    <3>1. LoopTop(getter, "none", ended, ready)
      BY <2>2 DEF ResumeProgress
    <3>2. QED BY <3>1, LoopTopAnswer
  <2>3. CASE TakeEnd
    <3>1. LoopTop("none", pgetter, TRUE, Tail(ready)) /\ pgetter # "done"
      BY <2>3 DEF TakeEnd
    <3>2. QED BY <3>1, LoopTopAnswer
  <2>4. QED BY <1>4, <2>1, <2>2, <2>3 DEF Resume
<1>5. CASE RunProgressGetter
  BY <1>5, HeadTailProperties DEF AnswerInv, RunProgressGetter, TypeOK
<1>6. CASE TakeError \/ Abandon
  BY <1>6 DEF AnswerInv, TakeError, Abandon, EnterFinally
<1>7. QED BY <1>1, <1>2, <1>3, <1>4, <1>5, <1>6
      DEF Next, Resume, Getters, Wake, Over

LEMMA TypeKeeps ==
    IInv /\ TypeOK /\ StepsInv /\ AnswerInv /\ [Next]_vars => TypeOK' /\ StepsInv'
<1> SUFFICES ASSUME IInv, TypeOK, StepsInv, AnswerInv, [Next]_vars
             PROVE  TypeOK' /\ StepsInv'
  OBVIOUS
<1>0. PumpTypeOK /\ StageTypeOK /\ DelegationTypeOK
  BY TypeParts
<1>1. ASSUME NEW d \in Delegations, Start(d) \/ Step(d) \/ Close(d)
      PROVE  TypeOK' /\ StepsInv'
  BY <1>1, DelegationsType
<1>2. CASE Upstream \/ PumpSteps \/ RunEventGetter
  <2>1. UNCHANGED stageVars /\ UNCHANGED delegationVars
    BY <1>2 DEF Upstream, UpstreamYields, UpstreamEnds, UpstreamFails,
                PumpSteps, RunEventGetter
  <2>2. PumpTypeOK' /\ StageTypeOK' /\ DelegationTypeOK' /\ StepsInv'
    BY <1>0, <1>2, <2>1, PumpSideType, QuietStageType, QuietDelegationsType
  <2>3. QED BY <2>2 DEF TypeOK, StageTypeOK, DelegationTypeOK
<1>3. CASE Begin \/ Resume \/ RunProgressGetter \/ Wake \/ Abandon \/ Settle
  <2>1. UNCHANGED delegationVars
    BY <1>3 DEF Begin, Resume, ResumeDrain, ResumeProgress, ResumeEvent,
         RunProgressGetter, Wake, ShowProgress, TakeItem, TakeEnd, TakeError,
         Abandon, Settle
  <2>2. PumpTypeOK' /\ StageTypeOK' /\ DelegationTypeOK' /\ StepsInv'
    BY <1>0, <1>3, <2>1, StageSideType, QuietDelegationsType
  <2>3. QED BY <2>2 DEF TypeOK, StageTypeOK, DelegationTypeOK
<1>4. CASE UNCHANGED vars
  <2>1. UNCHANGED pumpVars /\ UNCHANGED stageVars /\ UNCHANGED delegationVars
    BY <1>4 DEF vars
  <2>2. PumpTypeOK'
    BY <1>0, <2>1 DEF PumpTypeOK, pumpVars
  <2>3. StageTypeOK' /\ DelegationTypeOK' /\ StepsInv'
    BY <1>0, <2>1, QuietStageType, QuietDelegationsType
  <2>4. QED BY <2>2, <2>3 DEF TypeOK, StageTypeOK, DelegationTypeOK
<1>5. QED BY <1>1, <1>2, <1>3, <1>4 DEF Next, Getters, Over

(* Every variable of the stage keeps its type, whatever the run's length   *)
(* and whoever delegates: the queue's count of unfinished puts never goes  *)
(* below zero (task_done() would raise), and no item carries a number      *)
(* upstream has not reached.                                               *)
THEOREM TypeCorrect == Spec => []TypeOK
<1>1. Init => AnswerInv
  BY DEF Init, AnswerInv
<1>2. QED BY <1>1, InitType, TypeKeeps, AnswerKeeps, Invariance, PTL DEF Spec

-----------------------------------------------------------------------------
(* The race.                                                               *)

Chunk == "chunk_getter"
Progress == "progress_getter"

\* Who is ready: a get() task that was made or woken, and the stage if one of
\* those it waits for is done.
ReadyInv ==
    LET c == getter = "scheduled"
        p == pgetter = "scheduled"
        s == stage = "waiting" /\ (getter = "done" \/ pgetter = "done")
    IN  Live =>
          \/ ready = <<>> /\ ~c /\ ~p /\ ~s
          \/ ready = <<Chunk>> /\ c /\ ~p /\ ~s
          \/ ready = <<Progress>> /\ ~c /\ p /\ ~s
          \/ ready = <<"stage">> /\ ~c /\ ~p /\ s
          \/ (ready = <<Chunk, Progress>> \/ ready = <<Progress, Chunk>>) /\ c /\ p /\ ~s
          \/ (ready = <<Chunk, "stage">> \/ ready = <<"stage", Chunk>>) /\ c /\ ~p /\ s
          \/ (ready = <<Progress, "stage">> \/ ready = <<"stage", Progress>>) /\ ~c /\ p /\ s

\* What the two get() tasks hold, wherever the stage is.
HandsInv ==
    /\ getter = "done" => held \in Items
    /\ pgetter = "done" /\ stage # "at_progress" => pheld \in Announcements
    /\ pgetter # "done" => pheld = NoAnnouncement
    /\ stage = "at_progress" => pgetter = "done" /\ pheld = NoAnnouncement
    /\ Live /\ pgetter = "parked" => progress = <<>>
    /\ stage = "waiting" => getter # "none" /\ pgetter # "none"
    /\ stage = "unstarted" => pgetter = "none"
    /\ ~Live => getter = "none" /\ pgetter = "none"

\* Upstream has ended: the run has nothing more to delegate.
EndMade ==
    \/ pump = "putting" /\ inHand.kind = "end"
    \/ held.kind = "end"
    \/ \E i \in DOMAIN queue : queue[i].kind = "end"

AllQuiet == produced = NItems /\ \A d \in Delegations : delegation[d] # "open"

EndInv ==
    /\ EndMade => AllQuiet
    /\ Live => ~ended /\ verdict = "none"
    /\ verdict = "ended" => AllQuiet

\* The stage about to take what the event getter holds, before the progress
\* getter has had its turn: what waits was announced since.
OvertakingInv ==
    Live /\ ready = <<"stage", Progress>> =>
        /\ ~Parallel => FALSE
        /\ held.kind = "item" => \A i \in DOMAIN progress : progress[i].during >= produced
        /\ held.kind = "end" => progress = <<>>

RaceInv == ReadyInv /\ HandsInv /\ EndInv /\ OvertakingInv

-----------------------------------------------------------------------------
(* The ready queue.                                                        *)

LEMMA AppendShort ==
    /\ \A x : Append(<<>>, x) = <<x>>
    /\ \A x, y : Append(<<x>>, y) = <<x, y>>
<1>1. ASSUME NEW x PROVE Append(<<>>, x) = <<x>>
  OBVIOUS
<1>2. ASSUME NEW x, NEW y PROVE Append(<<x>>, y) = <<x, y>>
  <2> DEFINE S == {x, y}
  <2>1. <<x>> \in Seq(S) /\ <<x, y>> \in Seq(S) /\ y \in S /\ Len(<<x, y>>) = 2
    OBVIOUS
  <2>2. /\ Append(<<x>>, y) \in Seq(S) /\ Len(Append(<<x>>, y)) = 2
        /\ Append(<<x>>, y)[1] = x /\ Append(<<x>>, y)[2] = y
    <3>1. Len(<<x>>) = 1 /\ <<x>>[1] = x
      OBVIOUS
    <3>2. QED BY <2>1, <3>1, AppendProperties
  <2>3. \A j \in 1 .. 2 : Append(<<x>>, y)[j] = <<x, y>>[j]
    BY <2>2
  <2>4. QED BY <2>1, <2>2, <2>3, SeqEqual
<1>3. QED BY <1>1, <1>2

\* One at the end, one off the front.
LEMMA AppendAt ==
    ASSUME NEW S, NEW s \in Seq(S), NEW x
    PROVE  /\ Len(Append(s, x)) = Len(s) + 1
           /\ DOMAIN Append(s, x) = 1 .. Len(s) + 1 /\ DOMAIN s = 1 .. Len(s)
           /\ \A i \in DOMAIN s : Append(s, x)[i] = s[i]
           /\ Append(s, x)[Len(s) + 1] = x
           /\ \A i \in DOMAIN Append(s, x) :
                (i \in DOMAIN s /\ Append(s, x)[i] = s[i]) \/ Append(s, x)[i] = x
           /\ Range(Append(s, x)) = Range(s) \union {x}
<1> DEFINE T == S \union {x}
           t == Append(s, x)
<1>1. s \in Seq(T) /\ x \in T
  <2>1. \A i \in DOMAIN s : s[i] \in S
    BY ElementOfSeq, LenProperties
  <2>2. s \in [1 .. Len(s) -> T] /\ Len(s) \in Nat
    BY <2>1, LenProperties
  <2>3. QED BY <2>2, SeqDef
<1>2. /\ t \in Seq(T) /\ Len(t) = Len(s) + 1
      /\ \A i \in 1 .. Len(s) : t[i] = s[i]
      /\ t[Len(s) + 1] = x
  BY <1>1, AppendProperties
<1>3. DOMAIN t = 1 .. Len(s) + 1 /\ DOMAIN s = 1 .. Len(s) /\ Len(s) \in Nat
  BY <1>1, <1>2, LenProperties
<1> HIDE DEF t, T
<1>4. Range(t) = Range(s) \union {x}
  <2>1. \A y \in Range(t) : y \in Range(s) \union {x}
    BY <1>2, <1>3 DEF Range
  <2>2. \A y \in Range(s) : y \in Range(t)
    BY <1>2, <1>3 DEF Range
  <2>3. x \in Range(t)
    BY <1>2, <1>3 DEF Range
  <2>4. QED BY <2>1, <2>2, <2>3
<1>5. QED BY <1>2, <1>3, <1>4 DEF t

LEMMA ConcatShort ==
    /\ <<>> \o <<>> = <<>>
    /\ \A x : <<x>> \o <<>> = <<x>> /\ <<>> \o <<x>> = <<x>>
    /\ \A x, y : <<x>> \o <<y>> = <<x, y>> /\ <<x, y>> \o <<>> = <<x, y>>
<1>1. <<>> \o <<>> = <<>>
  BY ConcatEmptySeq, EmptySeq
<1>2. ASSUME NEW x PROVE <<x>> \o <<>> = <<x>> /\ <<>> \o <<x>> = <<x>>
  <2>1. <<x>> \in Seq({x})
    OBVIOUS
  <2>2. QED BY <2>1, ConcatEmptySeq
<1>3. ASSUME NEW x, NEW y PROVE <<x>> \o <<y>> = <<x, y>> /\ <<x, y>> \o <<>> = <<x, y>>
  <2> DEFINE S == {x, y}
  <2>1. <<x>> \in Seq(S) /\ <<x, y>> \in Seq(S) /\ y \in S
    OBVIOUS
  <2>2. Append(<<x>>, y) = <<x>> \o <<y>>
    BY <2>1, AppendIsConcat
  <2>3. QED BY <2>1, <2>2, AppendShort, ConcatEmptySeq
<1>4. QED BY <1>1, <1>2, <1>3

LEMMA RemoveFromShort ==
    /\ \A x : RemoveAt(<<x>>, 1) = <<>>
    /\ \A x, y : RemoveAt(<<x, y>>, 1) = <<y>> /\ RemoveAt(<<x, y>>, 2) = <<x>>
<1>1. ASSUME NEW x PROVE RemoveAt(<<x>>, 1) = <<>>
  <2>1. SubSeq(<<x>>, 1, 0) = <<>> /\ SubSeq(<<x>>, 2, 1) = <<>> /\ Len(<<x>>) = 1
    BY SubSeqEmpty
  <2>2. <<>> \o <<>> = <<>>
    BY ConcatEmptySeq, EmptySeq
  <2>3. RemoveAt(<<x>>, 1) = SubSeq(<<x>>, 1, 0) \o SubSeq(<<x>>, 2, 1)
    BY <2>1 DEF RemoveAt
  <2>4. QED BY <2>1, <2>2, <2>3
<1>2. ASSUME NEW x, NEW y
      PROVE  RemoveAt(<<x, y>>, 1) = <<y>> /\ RemoveAt(<<x, y>>, 2) = <<x>>
  <2> DEFINE S == {x, y}
             s == <<x, y>>
  <2>1. s \in Seq(S) /\ Len(s) = 2 /\ s[1] = x /\ s[2] = y
    OBVIOUS
  <2>2. SubSeq(s, 1, 0) = <<>> /\ SubSeq(s, 3, 2) = <<>>
    BY SubSeqEmpty
  <2>3. ASSUME NEW i \in {1, 2} PROVE SubSeq(s, i, i) = <<s[i]>>
    <3> HIDE DEF s
    <3>1. \A j \in i .. i : s[j] \in S
      BY <2>1, <2>3
    <3>2. i \in Int
      BY <2>3
    <3>3. SubSeq(s, i, i) \in Seq(S) /\ Len(SubSeq(s, i, i)) = 1 /\ SubSeq(s, i, i)[1] = s[i]
      BY <3>1, <3>2, SubSeqProperties
    <3>4. <<s[i]>> \in Seq(S) /\ Len(<<s[i]>>) = 1 /\ <<s[i]>>[1] = s[i]
      BY <2>1, <2>3
    <3>5. \A j \in 1 .. 1 : SubSeq(s, i, i)[j] = <<s[i]>>[j]
      BY <3>3, <3>4
    <3>6. QED BY <3>3, <3>4, <3>5, SeqEqual
  <2>4. \A z : <<>> \o <<z>> = <<z>> /\ <<z>> \o <<>> = <<z>>
    <3> TAKE z
    <3>1. <<z>> \in Seq({z})
      OBVIOUS
    <3>2. QED BY <3>1, ConcatEmptySeq
  <2>5. /\ RemoveAt(s, 1) = SubSeq(s, 1, 0) \o SubSeq(s, 2, 2)
        /\ RemoveAt(s, 2) = SubSeq(s, 1, 1) \o SubSeq(s, 3, 2)
    BY <2>1 DEF RemoveAt
  <2>6. QED BY <2>1, <2>2, <2>3, <2>4, <2>5
<1>3. QED BY <1>1, <1>2

\* No task is ready twice, and no more than two are.
Short(r) ==
    \/ r = <<>>
    \/ \E x \in Tasks : r = <<x>>
    \/ \E x, y \in Tasks : x # y /\ r = <<x, y>>

LEMMA ReadyIsShort == ASSUME ReadyInv, Live PROVE Short(ready)
BY DEF ReadyInv, Short, Tasks, Chunk, Progress

\* A getter has its turn: it is first, or second to the stage.
LEMMA TurnOf ==
    ASSUME Short(ready), NEW g \in {Chunk, Progress}, NEW i \in DOMAIN ready,
           ready[i] = g, \A j \in 1 .. i - 1 : ready[j] = "stage"
    PROVE  \/ ready = <<g>> /\ RemoveAt(ready, i) = <<>>
           \/ \E t \in Tasks \ {g} : ready = <<g, t>> /\ RemoveAt(ready, i) = <<t>>
           \/ ready = <<"stage", g>> /\ RemoveAt(ready, i) = <<"stage">>
<1>1. CASE ready = <<>>
  BY <1>1
<1>2. ASSUME NEW x \in Tasks, ready = <<x>>
      PROVE  ready = <<g>> /\ RemoveAt(ready, i) = <<>>
  BY <1>2, RemoveFromShort
<1>3. ASSUME NEW x \in Tasks, NEW y \in Tasks, x # y, ready = <<x, y>>
      PROVE  \/ \E t \in Tasks \ {g} : ready = <<g, t>> /\ RemoveAt(ready, i) = <<t>>
             \/ ready = <<"stage", g>> /\ RemoveAt(ready, i) = <<"stage">>
  <2>1. CASE i = 1
    <3>1. x = g /\ RemoveAt(ready, i) = <<y>>
      BY <1>3, <2>1, RemoveFromShort
    <3>2. QED BY <1>3, <3>1
  <2>2. CASE i = 2
    <3>1. ready[1] = "stage" /\ 1 \in 1 .. i - 1
      BY <2>2
    <3>2. x = "stage" /\ y = g /\ RemoveAt(ready, i) = <<x>>
      BY <1>3, <2>2, <3>1, RemoveFromShort
    <3>3. QED BY <1>3, <3>2
  <2>3. QED BY <1>3, <2>1, <2>2
<1>4. QED BY <1>1, <1>2, <1>3 DEF Short

LEMMA GetterTurn ==
    ASSUME Short(ready), NEW g \in {Chunk, Progress}, CanRunGetter(g)
    PROVE  \/ ready = <<g>> /\ ready' = <<>>
           \/ \E t \in Tasks \ {g} : ready = <<g, t>> /\ ready' = <<t>>
           \/ ready = <<"stage", g>> /\ ready' = <<"stage">>
<1>1. PICK i \in DOMAIN ready :
         /\ ready[i] = g
         /\ \A j \in 1 .. i - 1 : ready[j] = "stage"
         /\ ready' = RemoveAt(ready, i)
  BY DEF CanRunGetter
<1>2. QED BY <1>1, TurnOf

LEMMA GetterTurnAndWake ==
    ASSUME Short(ready), NEW g \in {Chunk, Progress}, NEW w \in BOOLEAN,
           CanRunGetterAndWake(g, w)
    PROVE  \/ ready = <<g>> /\ ready' = IF w THEN <<"stage">> ELSE <<>>
           \/ \E t \in Tasks \ {g, "stage"} :
                 ready = <<g, t>> /\ ready' = IF w THEN <<t, "stage">> ELSE <<t>>
           \/ ready = <<g, "stage">> /\ ready' = <<"stage">>
           \/ ready = <<"stage", g>> /\ ready' = <<"stage">>
<1>1. PICK i \in DOMAIN ready :
         /\ ready[i] = g
         /\ \A j \in 1 .. i - 1 : ready[j] = "stage"
         /\ ready' = IF w /\ ~Contains(ready, "stage")
                     THEN Append(RemoveAt(ready, i), "stage")
                     ELSE RemoveAt(ready, i)
  BY DEF CanRunGetterAndWake
<1>2. g # "stage"
  BY DEF Chunk, Progress
<1>3. CASE ready = <<g>> /\ RemoveAt(ready, i) = <<>>
  <2>1. ~Contains(ready, "stage")
    BY <1>2, <1>3 DEF Contains
  <2>2. QED BY <1>1, <1>3, <2>1
<1>4. ASSUME NEW t \in Tasks \ {g}, ready = <<g, t>>, RemoveAt(ready, i) = <<t>>
      PROVE  \/ t # "stage" /\ ready' = IF w THEN <<t, "stage">> ELSE <<t>>
             \/ t = "stage" /\ ready' = <<"stage">>
  <2>1. Contains(ready, "stage") <=> t = "stage"
    BY <1>2, <1>4 DEF Contains
  <2>2. CASE t = "stage"
    BY <1>1, <1>4, <2>1, <2>2
  <2>3. CASE t # "stage"
    <3>1. Append(<<t>>, "stage") = <<t, "stage">>
      BY AppendShort
    <3>2. QED BY <1>1, <1>4, <2>1, <2>3, <3>1
  <2>4. QED BY <2>2, <2>3
<1>5. CASE ready = <<"stage", g>> /\ RemoveAt(ready, i) = <<"stage">>
  <2>1. Contains(ready, "stage")
    BY <1>5 DEF Contains
  <2>2. QED BY <1>1, <1>5, <2>1
<1>6. QED BY <1>1, <1>3, <1>4, <1>5, TurnOf

-----------------------------------------------------------------------------
(* The race keeps its shape.                                               *)

\* What is known of the stage already.
Grounds == TypeOK /\ IInv /\ GetterInv /\ StepsInv /\ AnswerInv

LEMMA NothingsKind ==
    /\ NoItem.kind = "none" /\ NoItem \notin Items
    /\ NoAnnouncement \notin Announcements
<1>1. NoItem.kind = "none" /\ NoAnnouncement.phase = "none"
  BY DEF NoItem, NoAnnouncement
<1>2. /\ \A x \in Items : x.kind \in {"item", "end", "error"}
      /\ \A a \in Announcements : a.phase \in {"started", "step", "closed"}
  BY DEF Items, Announcements
<1>3. QED BY <1>1, <1>2

\* While upstream is asked, nothing of it is under way.
LEMMA PullingRests ==
    ASSUME Grounds, RaceInv, pump = "pulling"
    PROVE  /\ Live /\ held = NoItem /\ queue = <<>> /\ getter # "done"
           /\ sent = produced /\ stage # "at_event"
           /\ ~EndMade /\ verdict = "none"
<1>1. Live /\ AtRest
  BY DEF Grounds, IInv, LockstepInv
<1>2. held = NoItem /\ queue = <<>> /\ sent = produced /\ stage # "at_event"
  BY <1>1 DEF AtRest
<1>3. getter # "done"
  BY <1>2, NothingsKind DEF RaceInv, HandsInv
<1>4. ~EndMade
  BY <1>2, NothingsKind DEF EndMade
<1>5. QED BY <1>1, <1>2, <1>3, <1>4 DEF RaceInv, EndInv

\* A delegation that announces has not closed; one at a time, it does so while
\* upstream is asked, or to nobody.
LEMMA EmitsWhen ==
    ASSUME Grounds, RaceInv, NEW d \in Delegations, Start(d) \/ Step(d) \/ Close(d)
    PROVE  /\ \E phase \in {"started", "step", "closed"} : Emit(d, phase)
           /\ ~AllQuiet \/ pump = "pulling"
           /\ ~Parallel /\ Live => pump = "pulling"
           /\ \A e \in Delegations \ {d} : delegation'[e] = delegation[e]
<1>1. \E phase \in {"started", "step", "closed"} : Emit(d, phase)
  BY DEF Start, Step, Close
<1>2. ~AllQuiet \/ pump = "pulling"
  BY DEF Start, Step, Close, AllQuiet
<1>3. ~Parallel /\ Live => pump = "pulling"
  BY DEF Start, Step, Close, TaskRuns, Live, Grounds, IInv, LockstepInv
<1>4. \A e \in Delegations \ {d} : delegation'[e] = delegation[e]
  BY DEF Start, Step, Close, Grounds, TypeOK
<1>5. QED BY <1>1, <1>2, <1>3, <1>4

LEMMA DelegationsRace ==
    ASSUME Grounds, RaceInv, NEW d \in Delegations, Start(d) \/ Step(d) \/ Close(d)
    PROVE  RaceInv'
<1>1. PICK phase \in {"started", "step", "closed"} : Emit(d, phase)
  BY EmitsWhen
<1> DEFINE a == [by |-> d, step |-> steps[d] + 1, phase |-> phase, during |-> produced]
<1>2. /\ UNCHANGED <<pump, inHand, queue, unfinished, produced, upstreamOpen,
                     getter, held, pheld, stage, ended, sent, shown, verdict>>
      /\ progress' = Append(progress, a)
      /\ IF pgetter = "parked"
         THEN pgetter' = "scheduled" /\ ready' = Append(ready, Progress)
         ELSE UNCHANGED <<pgetter, ready>>
  BY <1>1 DEF Emit, Progress
<1>3. Live' <=> Live
  BY <1>2 DEF Live
<1>4. ASSUME pgetter = "parked", Live
      PROVE  \/ ready = <<>> /\ ready' = <<Progress>> /\ getter # "scheduled"
                /\ ~(stage = "waiting" /\ getter = "done")
             \/ ready = <<Chunk>> /\ ready' = <<Chunk, Progress>> /\ getter = "scheduled"
             \/ ready = <<"stage">> /\ ready' = <<"stage", Progress>> /\ getter = "done"
                /\ stage = "waiting"
  BY <1>2, <1>4, AppendShort DEF RaceInv, ReadyInv
<1>5. ReadyInv'
  <2>1. CASE ~Live
    BY <1>3, <2>1 DEF ReadyInv
  <2>2. CASE pgetter # "parked"
    BY <1>2, <1>3, <2>2 DEF RaceInv, ReadyInv
  <2>3. CASE pgetter = "parked" /\ Live
    BY <1>2, <1>4, <2>3 DEF ReadyInv
  <2>4. QED BY <2>1, <2>2, <2>3
<1>6. HandsInv'
  <2>1. pgetter' # "parked" /\ (pgetter' # pgetter => pgetter = "parked" /\ pgetter' = "scheduled")
    BY <1>2
  <2>2. QED BY <1>2, <1>3, <2>1 DEF RaceInv, HandsInv
<1>7. EndInv'
  <2>1. EndMade' <=> EndMade
    BY <1>2 DEF EndMade
  <2>2. ~AllQuiet => ~EndMade /\ verdict # "ended"
    BY DEF RaceInv, EndInv
  <2>3. ~EndMade /\ verdict # "ended"
    BY <2>2, EmitsWhen, PullingRests
  <2>4. QED BY <1>2, <1>3, <2>1, <2>3 DEF RaceInv, EndInv
<1>8. OvertakingInv'
  <2> SUFFICES ASSUME Live', ready' = <<"stage", Progress>>
               PROVE  /\ ~Parallel => FALSE
                      /\ held'.kind = "item" =>
                           \A i \in DOMAIN progress' : progress'[i].during >= produced'
                      /\ held'.kind = "end" => progress' = <<>>
    BY DEF OvertakingInv
  <2>1. \/ pgetter = "parked" /\ progress = <<>> /\ getter = "done"
        \/ ready = <<"stage", Progress>>
    <3>1. CASE pgetter = "parked"
      BY <1>3, <1>4, <3>1 DEF RaceInv, HandsInv, Chunk, Progress
    <3>2. CASE pgetter # "parked"
      BY <1>2, <3>2
    <3>3. QED BY <3>1, <3>2
  <2>2. getter = "done"
    BY <1>3, <2>1 DEF RaceInv, ReadyInv, Chunk, Progress
  <2>3. pump # "pulling"
    BY <2>2, PullingRests
  <2>4. held.kind # "end"
    BY <2>3, EmitsWhen DEF RaceInv, EndInv, EndMade
  <2>5. Parallel
    BY <1>3, <2>3, EmitsWhen
  <2>6. ASSUME held.kind = "item" PROVE \A i \in DOMAIN progress : progress[i].during >= produced
    BY <1>3, <2>1, <2>6, EmptySeq DEF RaceInv, OvertakingInv
  <2>7. ASSUME held.kind = "item", NEW i \in DOMAIN progress'
        PROVE  progress'[i].during >= produced
    <3>1. progress \in Seq(Announcements) /\ produced \in Nat
      BY DEF Grounds, TypeOK, PumpTypeOK
    <3>2. (i \in DOMAIN progress /\ progress'[i] = progress[i]) \/ progress'[i] = a
      <4> HIDE DEF a
      <4>1. QED BY <1>2, <2>7, <3>1, AppendAt
    <3>3. QED BY <2>6, <2>7, <3>1, <3>2
  <2>8. QED BY <1>2, <2>4, <2>5, <2>7
<1>9. QED BY <1>5, <1>6, <1>7, <1>8 DEF RaceInv

\* Upstream answers: its item, or its end, is in the pump's hand.
LEMMA UpstreamRace == ASSUME Grounds, RaceInv, Upstream PROVE RaceInv'
<1>1. PICK kind \in {"item", "end", "error"} :
         Produce(kind) /\ (kind = "end" => AllQuiet)
  BY DEF Upstream, UpstreamYields, UpstreamEnds, UpstreamFails, AllQuiet
<1>2. UNCHANGED stageVars /\ UNCHANGED delegationVars
  BY DEF Upstream, UpstreamYields, UpstreamEnds, UpstreamFails
<1>3. /\ pump = "pulling" /\ inHand'.kind = kind
      /\ kind # "item" => produced' = produced
      /\ UNCHANGED <<queue, getter, held, ready>>
  BY <1>1 DEF Produce
<1>4. Live /\ held = NoItem /\ queue = <<>> /\ getter # "done" /\ verdict = "none"
  BY <1>3, PullingRests
<1>5. Live' <=> Live
  BY <1>2 DEF Live, stageVars
<1>6. ReadyInv' /\ HandsInv'
  BY <1>2, <1>3, <1>5 DEF RaceInv, ReadyInv, HandsInv, stageVars
<1>7. EndInv'
  <2>1. EndMade' => kind = "end"
    BY <1>3, <1>4, NothingsKind DEF EndMade
  <2>2. EndMade' => AllQuiet'
    BY <1>1, <1>2, <1>3, <2>1 DEF AllQuiet, delegationVars
  <2>3. QED BY <1>2, <1>4, <1>5, <2>2 DEF RaceInv, EndInv, stageVars
<1>8. OvertakingInv'
  <2>1. Live => ready # <<"stage", Progress>>
    BY <1>4 DEF RaceInv, ReadyInv, Chunk, Progress
  <2>2. QED BY <1>3, <1>4, <2>1 DEF OvertakingInv
<1>9. QED BY <1>6, <1>7, <1>8 DEF RaceInv

\* The pump puts what the client is missing where nothing else is.
LEMMA PutFinds ==
    ASSUME Grounds, pump = "putting"
    PROVE  Live /\ queue = <<>> /\ held = NoItem
BY DEF Grounds, IInv, LockstepInv

\* The pump's own steps: at most it wakes the event getter.
LEMMA PumpRace == ASSUME Grounds, RaceInv, PumpSteps PROVE RaceInv'
<1>1. UNCHANGED stageVars /\ UNCHANGED delegationVars
  BY DEF PumpSteps
<1>2. Live' <=> Live
  BY <1>1 DEF Live, stageVars
<1>3. UNCHANGED <<held, produced>>
  BY DEF PumpSteps, Put, Join, Unwind
<1>4. EndMade' => EndMade
  <2>1. CASE Put
    <3>1. queue = <<>> /\ queue' = Append(queue, inHand) /\ pump = "putting" /\ pump' # "putting"
      BY <2>1, PutFinds DEF Put
    <3>2. queue' = <<inHand>>
      BY <3>1, AppendShort
    <3>3. QED BY <1>3, <3>1, <3>2 DEF EndMade
  <2>2. CASE Join \/ Unwind
    BY <1>3, <2>2 DEF EndMade, Join, Unwind
  <2>3. QED BY <2>1, <2>2 DEF PumpSteps
<1>5. EndInv'
  BY <1>1, <1>2, <1>3, <1>4 DEF RaceInv, EndInv, AllQuiet, stageVars, delegationVars
<1>6. CASE UNCHANGED <<getter, ready>>
  <2>1. ReadyInv' /\ HandsInv' /\ OvertakingInv'
    BY <1>1, <1>2, <1>3, <1>6 DEF RaceInv, ReadyInv, HandsInv, OvertakingInv, stageVars
  <2>2. QED BY <1>5, <2>1 DEF RaceInv
<1>7. CASE getter = "parked" /\ Put
  <2>1. Live /\ getter' = "scheduled" /\ ready' = Append(ready, Chunk)
    BY <1>7, PutFinds DEF Put, Chunk
  <2>2. \/ ready = <<>> /\ ready' = <<Chunk>> /\ pgetter # "scheduled"
           /\ ~(stage = "waiting" /\ pgetter = "done")
        \/ ready = <<Progress>> /\ ready' = <<Progress, Chunk>> /\ pgetter = "scheduled"
        \/ ready = <<"stage">> /\ ready' = <<"stage", Chunk>> /\ pgetter = "done"
           /\ stage = "waiting"
    BY <1>7, <2>1, AppendShort DEF RaceInv, ReadyInv
  <2>3. ReadyInv'
    BY <1>1, <2>1, <2>2 DEF ReadyInv, stageVars
  <2>4. HandsInv'
    BY <1>1, <1>2, <1>3, <2>1 DEF RaceInv, HandsInv, stageVars
  <2>5. OvertakingInv'
    <3>1. ready' # <<"stage", Progress>>
      BY <2>2 DEF Chunk, Progress
    <3>2. QED BY <3>1 DEF OvertakingInv
  <2>6. QED BY <1>5, <2>3, <2>4, <2>5 DEF RaceInv
<1>8. QED BY <1>6, <1>7 DEF PumpSteps, Put, Join, Unwind

LEMMA BeginRace == ASSUME Grounds, RaceInv, Begin PROVE RaceInv'
<1>1. /\ stage = "unstarted" /\ stage' = "waiting" /\ pump' = "pulling"
      /\ getter' = "scheduled" /\ pgetter' = "scheduled"
      /\ ready' = <<Chunk, Progress>>
      /\ UNCHANGED <<queue, held, pheld, produced, ended, verdict>>
      /\ UNCHANGED delegationVars
  BY DEF Begin, Chunk, Progress
<1>2. Live /\ held = NoItem /\ queue = <<>>
  BY <1>1 DEF Live, Grounds, IInv, LockstepInv, AtRest
<1>3. Live'
  BY <1>1 DEF Live
<1>4. ReadyInv'
  BY <1>1 DEF ReadyInv
<1>5. HandsInv'
  <2>1. pheld = NoAnnouncement
    BY <1>1 DEF RaceInv, HandsInv
  <2>2. QED BY <1>1, <1>3, <2>1 DEF HandsInv
<1>6. EndInv'
  <2>1. ~EndMade'
    BY <1>1, <1>2, NothingsKind DEF EndMade
  <2>2. QED BY <1>1, <1>2, <2>1 DEF RaceInv, EndInv
<1>7. OvertakingInv'
  BY <1>1 DEF OvertakingInv, Chunk, Progress
<1>8. QED BY <1>4, <1>5, <1>6, <1>7 DEF RaceInv

-----------------------------------------------------------------------------
(* The generator's steps.                                                  *)

\* Into the finally, which an ended run reaches with nothing left to say.
LEMMA LeavingRace ==
    ASSUME Grounds, RaceInv, NEW how, EnterFinally(how),
           how # "none", how = "ended" => AllQuiet,
           UNCHANGED <<inHand, queue, produced, progress>>, UNCHANGED delegationVars
    PROVE  RaceInv'
<1>1. /\ stage' = "discarding" /\ getter' = "none" /\ pgetter' = "none"
      /\ verdict' = how /\ held' = NoItem /\ pheld' = NoAnnouncement
      /\ pump' \in {pump, "cancelled"}
  BY DEF EnterFinally
<1>2. ~Live'
  BY <1>1 DEF Live
<1>3. ReadyInv' /\ OvertakingInv'
  BY <1>2 DEF ReadyInv, OvertakingInv
<1>4. HandsInv'
  BY <1>1 DEF HandsInv
<1>5. EndInv'
  <2>1. EndMade' => EndMade
    BY <1>1, NothingsKind DEF EndMade
  <2>2. AllQuiet' <=> AllQuiet
    BY DEF AllQuiet, delegationVars
  <2>3. QED BY <1>1, <1>2, <2>1, <2>2 DEF RaceInv, EndInv
<1>6. QED BY <1>3, <1>4, <1>5 DEF RaceInv

\* The stage's turn: what it finds ready, and leaves so.
LEMMA AwakeFinds ==
    ASSUME Grounds, RaceInv, Awake
    PROVE  /\ Live /\ stage = "waiting" /\ (getter = "done" \/ pgetter = "done")
           /\ \/ ready = <<"stage">> /\ Tail(ready) = <<>>
                 /\ getter # "scheduled" /\ pgetter # "scheduled"
              \/ ready = <<"stage", Chunk>> /\ Tail(ready) = <<Chunk>>
                 /\ getter = "scheduled" /\ pgetter = "done"
              \/ ready = <<"stage", Progress>> /\ Tail(ready) = <<Progress>>
                 /\ getter = "done" /\ pgetter = "scheduled"
<1>1. stage = "waiting" /\ ready # <<>> /\ Head(ready) = "stage"
  BY DEF Awake
<1>2. Live
  BY <1>1 DEF Live
<1>3. \A x : Head(<<x>>) = x /\ Tail(<<x>>) = <<>>
  OBVIOUS
<1>4. \A x, y : Head(<<x, y>>) = x /\ Tail(<<x, y>>) = <<y>>
  OBVIOUS
<1>5. \/ ready = <<"stage">> /\ getter # "scheduled" /\ pgetter # "scheduled"
      \/ ready = <<"stage", Chunk>> /\ getter = "scheduled" /\ pgetter = "done"
      \/ ready = <<"stage", Progress>> /\ getter = "done" /\ pgetter = "scheduled"
  BY <1>1, <1>2, <1>3, <1>4 DEF RaceInv, ReadyInv, Chunk, Progress
<1>6. getter = "done" \/ pgetter = "done"
  BY <1>1, <1>2, <1>5 DEF RaceInv, ReadyInv, Chunk, Progress
<1>7. /\ ready = <<"stage">> => Tail(ready) = <<>>
      /\ \A t : ready = <<"stage", t>> => Tail(ready) = <<t>>
  BY <1>3, <1>4
<1>8. QED BY <1>1, <1>2, <1>5, <1>6, <1>7

LEMMA ShowProgressRace == ASSUME Grounds, RaceInv, ShowProgress PROVE RaceInv'
<1>1. /\ Awake /\ pgetter = "done" /\ pheld' = NoAnnouncement
      /\ stage' = "at_progress" /\ ready' = Tail(ready)
      /\ UNCHANGED <<pump, inHand, queue, produced, getter, held, progress,
                     pgetter, ended, verdict>>
      /\ UNCHANGED delegationVars
  BY DEF ShowProgress
<1>2. /\ Live
      /\ \/ ready' = <<>> /\ getter # "scheduled"
         \/ ready' = <<Chunk>> /\ getter = "scheduled"
  BY <1>1, AwakeFinds
<1>3. Live'
  BY <1>1 DEF Live
<1>4. ReadyInv'
  BY <1>1, <1>2 DEF ReadyInv
<1>5. HandsInv'
  BY <1>1, <1>2, <1>3 DEF RaceInv, HandsInv
<1>6. EndInv'
  BY <1>1, <1>2, <1>3 DEF RaceInv, EndInv, EndMade, AllQuiet, delegationVars
<1>7. OvertakingInv'
  BY <1>2 DEF OvertakingInv, Chunk, Progress
<1>8. QED BY <1>4, <1>5, <1>6, <1>7 DEF RaceInv

\* With something in the event getter's hand and nothing in the progress
\* getter's, what waits was announced after upstream produced it.
LEMMA TakingFinds ==
    ASSUME Grounds, RaceInv, Awake, pgetter # "done"
    PROVE  /\ Live /\ getter = "done" /\ pheld = NoAnnouncement
           /\ \/ pgetter = "parked" /\ progress = <<>> /\ Tail(ready) = <<>>
              \/ /\ pgetter = "scheduled" /\ Parallel /\ Tail(ready) = <<Progress>>
                 /\ held.kind = "item" =>
                      \A i \in DOMAIN progress : progress[i].during >= produced
                 /\ held.kind = "end" => progress = <<>>
<1>1. Live /\ stage = "waiting" /\ getter = "done" /\ pgetter # "none" /\ pheld = NoAnnouncement
  BY AwakeFinds DEF RaceInv, HandsInv
<1>2. CASE ready = <<"stage">> /\ Tail(ready) = <<>> /\ pgetter # "scheduled"
  <2>1. pgetter = "parked"
    BY <1>1, <1>2 DEF Grounds, TypeOK, GetterStates
  <2>2. QED BY <1>1, <1>2, <2>1 DEF RaceInv, HandsInv
<1>3. CASE ready = <<"stage", Progress>> /\ Tail(ready) = <<Progress>> /\ pgetter = "scheduled"
  BY <1>1, <1>3, StageAssumption DEF RaceInv, OvertakingInv
<1>4. QED BY <1>1, <1>2, <1>3, AwakeFinds

LEMMA TakeItemRace == ASSUME Grounds, RaceInv, TakeItem PROVE RaceInv'
<1>1. /\ Awake /\ pgetter # "done" /\ held.kind = "item"
      /\ stage' = "at_event" /\ getter' = "none" /\ held' = NoItem
      /\ ready' = Tail(ready)
      /\ UNCHANGED <<pump, inHand, queue, produced, progress, pgetter, pheld,
                     ended, verdict>>
      /\ UNCHANGED delegationVars
  BY DEF TakeItem
<1>2. /\ Live /\ pheld = NoAnnouncement
      /\ \/ pgetter = "parked" /\ ready' = <<>>
         \/ pgetter = "scheduled" /\ ready' = <<Progress>>
  BY <1>1, TakingFinds
<1>3. Live'
  BY <1>1 DEF Live
<1>4. ReadyInv'
  BY <1>1, <1>2 DEF ReadyInv
<1>5. HandsInv'
  BY <1>1, <1>2, <1>3 DEF RaceInv, HandsInv
<1>6. EndInv'
  <2>1. EndMade' => EndMade
    BY <1>1, NothingsKind DEF EndMade
  <2>2. QED BY <1>1, <1>2, <1>3, <2>1 DEF RaceInv, EndInv, AllQuiet, delegationVars
<1>7. OvertakingInv'
  BY <1>2 DEF OvertakingInv, Chunk, Progress
<1>8. QED BY <1>4, <1>5, <1>6, <1>7 DEF RaceInv

\* The end marker is never taken with anything waiting: the stage leaves.
LEMMA TakeEndLeaves ==
    ASSUME Grounds, RaceInv, TakeEnd
    PROVE  /\ EnterFinally("ended") /\ AllQuiet
           /\ Live /\ progress = <<>> /\ pheld = NoAnnouncement
           /\ UNCHANGED <<inHand, queue, produced, progress, shown, sent>>
           /\ UNCHANGED delegationVars
<1>1. /\ Awake /\ pgetter # "done" /\ held.kind = "end"
      /\ LoopTop("none", pgetter, TRUE, Tail(ready))
      /\ UNCHANGED <<inHand, queue, produced, sent>>
      /\ UNCHANGED delegationVars
  BY DEF TakeEnd
<1>2. Live /\ progress = <<>> /\ pheld = NoAnnouncement
  BY <1>1, TakingFinds
<1>3. EnterFinally("ended") /\ UNCHANGED <<progress, shown>>
  BY <1>1, <1>2 DEF LoopTop
<1>4. AllQuiet
  BY <1>1 DEF RaceInv, EndInv, EndMade
<1>5. QED BY <1>1, <1>2, <1>3, <1>4

\* The loop's head after a yield: it drains, or it waits.
LEMMA ResumeDoes ==
    ASSUME Grounds, RaceInv, Resume
    PROVE  /\ Live /\ stage \in AtYield
           /\ UNCHANGED <<pump, inHand, queue, produced, pheld, held, ended, sent, verdict>>
           /\ UNCHANGED delegationVars
           /\ \E pg \in GetterStates :
                /\ IF stage = "at_progress" THEN pg = "none" ELSE pg = pgetter
                /\ \/ /\ progress # <<>> /\ stage' = "at_drain"
                      /\ Deliver(Head(progress)) /\ progress' = Tail(progress)
                      /\ getter' = getter /\ pgetter' = pg /\ ready' = ready
                   \/ /\ progress = <<>> /\ progress' = <<>> /\ stage' = "waiting"
                      /\ shown' = shown
                      /\ getter' = IF getter = "none" THEN "scheduled" ELSE getter
                      /\ pgetter' = IF pg = "none" THEN "scheduled" ELSE pg
                      /\ ready' = ready \o (IF getter = "none" THEN <<Chunk>> ELSE <<>>)
                                        \o (IF pg = "none" THEN <<Progress>> ELSE <<>>)
                                        \o (IF "done" \in {getter, pg} THEN <<"stage">> ELSE <<>>)
<1>1. PICK pg \in GetterStates :
        /\ IF stage = "at_progress" THEN pg = "none" ELSE pg = pgetter
        /\ LoopTop(getter, pg, ended, ready)
  BY DEF Resume, ResumeDrain, ResumeEvent, ResumeProgress, Grounds, TypeOK, GetterStates
<1>2. stage \in AtYield /\ UNCHANGED <<inHand, queue, produced, ended, sent>> /\ UNCHANGED delegationVars
  BY DEF Resume, ResumeDrain, ResumeEvent, ResumeProgress, AtYield
<1>3. Live /\ ended = FALSE
  BY <1>2 DEF Live, AtYield, RaceInv, EndInv, Grounds, TypeOK
<1>4. getter = "none" => held = NoItem
  BY DEF Grounds, GetterInv
<1>5. UNCHANGED <<pump, pheld, verdict, held>>
  BY <1>1, <1>3, <1>4 DEF LoopTop
<1>6. \/ /\ progress # <<>> /\ stage' = "at_drain"
         /\ Deliver(Head(progress)) /\ progress' = Tail(progress)
         /\ getter' = getter /\ pgetter' = pg /\ ready' = ready
      \/ /\ progress = <<>> /\ progress' = <<>> /\ stage' = "waiting"
         /\ shown' = shown
         /\ getter' = IF getter = "none" THEN "scheduled" ELSE getter
         /\ pgetter' = IF pg = "none" THEN "scheduled" ELSE pg
         /\ ready' = ready \o (IF getter = "none" THEN <<Chunk>> ELSE <<>>)
                           \o (IF pg = "none" THEN <<Progress>> ELSE <<>>)
                           \o (IF "done" \in {getter, pg} THEN <<"stage">> ELSE <<>>)
  BY <1>1, <1>3 DEF LoopTop, Chunk, Progress
<1>7. QED BY <1>1, <1>2, <1>3, <1>5, <1>6

LEMMA ResumeRace == ASSUME Grounds, RaceInv, Resume PROVE RaceInv'
<1>1. /\ Live /\ stage \in AtYield /\ stage # "waiting"
      /\ UNCHANGED <<pump, inHand, queue, produced, pheld, held, ended, verdict>>
      /\ UNCHANGED delegationVars
  BY ResumeDoes DEF AtYield
<1>2. PICK pg \in GetterStates :
        /\ IF stage = "at_progress" THEN pg = "none" ELSE pg = pgetter
        /\ \/ /\ progress # <<>> /\ stage' = "at_drain"
              /\ getter' = getter /\ pgetter' = pg /\ ready' = ready
           \/ /\ progress = <<>> /\ progress' = <<>> /\ stage' = "waiting"
              /\ getter' = IF getter = "none" THEN "scheduled" ELSE getter
              /\ pgetter' = IF pg = "none" THEN "scheduled" ELSE pg
              /\ ready' = ready \o (IF getter = "none" THEN <<Chunk>> ELSE <<>>)
                                \o (IF pg = "none" THEN <<Progress>> ELSE <<>>)
                                \o (IF "done" \in {getter, pg} THEN <<"stage">> ELSE <<>>)
  BY ResumeDoes
<1>3. Live' /\ stage' # "at_progress" /\ stage' # "unstarted"
  BY <1>2 DEF Live
<1>4. /\ pg # "done" => pheld = NoAnnouncement
      /\ pg = "done" => pheld \in Announcements
      /\ pg = "parked" => progress = <<>>
      /\ pg = "scheduled" <=> pgetter = "scheduled"
  BY <1>1, <1>2 DEF RaceInv, HandsInv
<1>5. HandsInv'
  BY <1>1, <1>2, <1>3, <1>4 DEF RaceInv, HandsInv
<1>6. EndInv'
  BY <1>1, <1>3 DEF RaceInv, EndInv, EndMade, AllQuiet, delegationVars
<1>7. /\ getter = "scheduled" /\ pg = "scheduled" =>
           ready = <<Chunk, Progress>> \/ ready = <<Progress, Chunk>>
      /\ getter = "scheduled" /\ pg # "scheduled" => ready = <<Chunk>>
      /\ getter # "scheduled" /\ pg = "scheduled" => ready = <<Progress>>
      /\ getter # "scheduled" /\ pg # "scheduled" => ready = <<>>
  BY <1>1, <1>4 DEF RaceInv, ReadyInv
<1>8. ReadyInv' /\ ready' # <<"stage", Progress>>
  <2>1. CASE stage' = "at_drain"
    BY <1>2, <1>7, <2>1 DEF ReadyInv, Chunk, Progress
  <2>2. CASE stage' = "waiting"
    <3> DEFINE made == ready \o (IF getter = "none" THEN <<Chunk>> ELSE <<>>)
                             \o (IF pg = "none" THEN <<Progress>> ELSE <<>>)
                             \o (IF "done" \in {getter, pg} THEN <<"stage">> ELSE <<>>)
               c == getter \in {"none", "scheduled"}
               p == pg \in {"none", "scheduled"}
               s == getter = "done" \/ pg = "done"
    <3>1. \/ made = <<>> /\ ~c /\ ~p /\ ~s
          \/ made = <<Chunk>> /\ c /\ ~p /\ ~s
          \/ made = <<Progress>> /\ ~c /\ p /\ ~s
          \/ made = <<"stage">> /\ ~c /\ ~p /\ s
          \/ (made = <<Chunk, Progress>> \/ made = <<Progress, Chunk>>) /\ c /\ p /\ ~s
          \/ made = <<Chunk, "stage">> /\ c /\ ~p /\ s
          \/ made = <<Progress, "stage">> /\ ~c /\ p /\ s
      <4> DEFINE made1 == ready \o (IF getter = "none" THEN <<Chunk>> ELSE <<>>)
                 made2 == made1 \o (IF pg = "none" THEN <<Progress>> ELSE <<>>)
      <4>1. getter \in GetterStates
        BY DEF Grounds, TypeOK, PumpTypeOK
      <4>2. /\ c /\ pg = "scheduled" =>
                 made1 = <<Chunk, Progress>> \/ made1 = <<Progress, Chunk>>
            /\ c /\ pg # "scheduled" => made1 = <<Chunk>>
            /\ ~c /\ pg = "scheduled" => made1 = <<Progress>>
            /\ ~c /\ pg # "scheduled" => made1 = <<>>
        <5>1. CASE getter = "none"
          BY <1>7, <5>1, ConcatShort
        <5>2. CASE getter # "none"
          BY <1>7, <5>2, ConcatShort
        <5>3. QED BY <5>1, <5>2
      <4>3. /\ c /\ p => made2 = <<Chunk, Progress>> \/ made2 = <<Progress, Chunk>>
            /\ c /\ ~p => made2 = <<Chunk>>
            /\ ~c /\ p => made2 = <<Progress>>
            /\ ~c /\ ~p => made2 = <<>>
        <5> HIDE DEF made1
        <5>1. CASE pg = "none"
          BY <4>2, <5>1, ConcatShort
        <5>2. CASE pg # "none"
          BY <4>2, <5>2, ConcatShort
        <5>3. QED BY <5>1, <5>2
      <4>4. made = made2 \o (IF "done" \in {getter, pg} THEN <<"stage">> ELSE <<>>)
        OBVIOUS
      <4>5. s => ~c \/ ~p
        OBVIOUS
      <4> HIDE DEF made1, made2, made
      <4>6. CASE s
        BY <4>3, <4>4, <4>5, <4>6, ConcatShort
      <4>7. CASE ~s
        BY <4>3, <4>4, <4>7, ConcatShort
      <4>8. QED BY <4>6, <4>7
    <3>2. ready' = made
      BY <1>2, <2>2
    <3>3. /\ c <=> getter' = "scheduled"
          /\ p <=> pgetter' = "scheduled"
          /\ s <=> getter' = "done" \/ pgetter' = "done"
      BY <1>2, <2>2
    <3> HIDE DEF made, c, p, s
    <3>4. QED BY <2>2, <3>1, <3>2, <3>3 DEF ReadyInv, Chunk, Progress
  <2>3. QED BY <1>2, <2>1, <2>2
<1>9. OvertakingInv'
  BY <1>8 DEF OvertakingInv
<1>10. QED BY <1>5, <1>6, <1>8, <1>9 DEF RaceInv

-----------------------------------------------------------------------------
(* The get() tasks' turns.                                                 *)

LEMMA EventGetterRace == ASSUME Grounds, RaceInv, RunEventGetter PROVE RaceInv'
<1>1. /\ getter = "scheduled" /\ getter' \in {"parked", "done"}
      /\ UNCHANGED <<pump, inHand, produced>>
      /\ UNCHANGED stageVars /\ UNCHANGED delegationVars
  BY DEF RunEventGetter, RunChunkGetter
<1>2. Live /\ Live'
  BY <1>1 DEF RaceInv, HandsInv, Live, stageVars
<1>3. Short(ready) /\ Chunk \in {Chunk, Progress} /\ (stage = "waiting") \in BOOLEAN
  BY <1>2, ReadyIsShort DEF RaceInv
<1>4. CASE queue = <<>>
  <2>1. getter' = "parked" /\ CanRunGetter(Chunk) /\ UNCHANGED <<queue, held>>
    BY <1>4 DEF RunEventGetter, RunChunkGetter, Chunk
  <2>2. \/ ready = <<Chunk>> /\ ready' = <<>>
        \/ \E t \in Tasks \ {Chunk} : ready = <<Chunk, t>> /\ ready' = <<t>>
        \/ ready = <<"stage", Chunk>> /\ ready' = <<"stage">>
    BY <1>3, <2>1, GetterTurn
  <2>3. ReadyInv'
    BY <1>1, <1>2, <2>1, <2>2 DEF RaceInv, ReadyInv, Tasks, Chunk, Progress, stageVars
  <2>4. HandsInv'
    BY <1>1, <1>2, <2>1 DEF RaceInv, HandsInv, stageVars
  <2>5. EndInv'
    BY <1>1, <1>2, <2>1 DEF RaceInv, EndInv, EndMade, AllQuiet, stageVars, delegationVars
  <2>6. OvertakingInv'
    BY <2>2 DEF OvertakingInv, Chunk, Progress
  <2>7. QED BY <2>3, <2>4, <2>5, <2>6 DEF RaceInv
<1>5. CASE queue # <<>>
  <2>1. /\ getter' = "done" /\ CanRunGetterAndWake(Chunk, stage = "waiting")
        /\ held' = Head(queue) /\ queue' = Tail(queue)
    BY <1>5 DEF RunEventGetter, RunChunkGetter, Chunk
  <2>2. \/ ready = <<Chunk>> /\ ready' = IF stage = "waiting" THEN <<"stage">> ELSE <<>>
        \/ \E t \in Tasks \ {Chunk, "stage"} : ready = <<Chunk, t>> /\
              ready' = IF stage = "waiting" THEN <<t, "stage">> ELSE <<t>>
        \/ ready = <<Chunk, "stage">> /\ ready' = <<"stage">>
        \/ ready = <<"stage", Chunk>> /\ ready' = <<"stage">>
    BY <1>3, <2>1, GetterTurnAndWake
  <2>3. ReadyInv'
    BY <1>1, <1>2, <2>1, <2>2 DEF RaceInv, ReadyInv, Tasks, Chunk, Progress, stageVars
  <2>4. queue \in Seq(Items)
    BY DEF Grounds, TypeOK, PumpTypeOK
  <2>5. HandsInv'
    <3>1. held' \in Items
      BY <1>5, <2>1, <2>4, HeadTailProperties
    <3>2. QED BY <1>1, <1>2, <2>1, <3>1 DEF RaceInv, HandsInv, stageVars
  <2>6. EndInv'
    <3>1. /\ held' = queue[1] /\ 1 \in DOMAIN queue
          /\ \A i \in DOMAIN queue' : i + 1 \in DOMAIN queue /\ queue'[i] = queue[i + 1]
      <4>1. Len(queue) \in Nat /\ Len(queue) # 0 /\ DOMAIN queue = 1 .. Len(queue)
        BY <1>5, <2>4, LenProperties, EmptySeq
      <4>2. Tail(queue) \in Seq(Items) /\ Len(Tail(queue)) = Len(queue) - 1
            /\ \A i \in 1 .. Len(Tail(queue)) : Tail(queue)[i] = queue[i + 1]
        BY <1>5, <2>4, HeadTailProperties
      <4>3. Head(queue) = queue[1]
        BY <1>5, <2>4
      <4>4. DOMAIN queue' = 1 .. Len(queue) - 1
        BY <2>1, <4>2, LenProperties
      <4>5. QED BY <2>1, <4>1, <4>2, <4>3, <4>4
    <3>2. EndMade' => EndMade
      BY <1>1, <3>1 DEF EndMade
    <3>3. QED BY <1>1, <1>2, <3>2 DEF RaceInv, EndInv, AllQuiet, stageVars, delegationVars
  <2>7. OvertakingInv'
    <3>1. ready' # <<"stage", Progress>>
      <4>1. CASE stage = "waiting"
        BY <2>2, <4>1 DEF Tasks, Chunk, Progress
      <4>2. CASE stage # "waiting"
        BY <2>2, <4>2 DEF Tasks, Chunk, Progress
      <4>3. QED BY <4>1, <4>2
    <3>2. QED BY <3>1 DEF OvertakingInv
  <2>8. QED BY <2>3, <2>5, <2>6, <2>7 DEF RaceInv
<1>6. QED BY <1>4, <1>5

LEMMA ProgressGetterRace == ASSUME Grounds, RaceInv, RunProgressGetter PROVE RaceInv'
<1>1. /\ pgetter = "scheduled"
      /\ UNCHANGED <<pump, inHand, queue, produced, getter, held, stage, ended, verdict>>
      /\ UNCHANGED delegationVars
  BY DEF RunProgressGetter
<1>2. Live /\ Live' /\ stage # "at_progress" /\ stage # "unstarted" /\ pheld = NoAnnouncement
  BY <1>1 DEF RaceInv, HandsInv, Live
<1>3. Short(ready) /\ Progress \in {Chunk, Progress} /\ (stage = "waiting") \in BOOLEAN
  BY <1>2, ReadyIsShort DEF RaceInv
<1>4. EndInv'
  BY <1>1, <1>2 DEF RaceInv, EndInv, EndMade, AllQuiet, delegationVars
<1>5. CASE progress = <<>>
  <2>1. pgetter' = "parked" /\ CanRunGetter(Progress) /\ UNCHANGED <<progress, pheld>>
    BY <1>5 DEF RunProgressGetter, Progress
  <2>2. \/ ready = <<Progress>> /\ ready' = <<>>
        \/ \E t \in Tasks \ {Progress} : ready = <<Progress, t>> /\ ready' = <<t>>
        \/ ready = <<"stage", Progress>> /\ ready' = <<"stage">>
    BY <1>3, <2>1, GetterTurn
  <2>3. ReadyInv'
    BY <1>1, <1>2, <2>1, <2>2 DEF RaceInv, ReadyInv, Tasks, Chunk, Progress
  <2>4. HandsInv'
    BY <1>1, <1>2, <1>5, <2>1 DEF RaceInv, HandsInv
  <2>5. OvertakingInv'
    BY <2>2 DEF OvertakingInv, Chunk, Progress
  <2>6. QED BY <1>4, <2>3, <2>4, <2>5 DEF RaceInv
<1>6. CASE progress # <<>>
  <2>1. /\ pgetter' = "done" /\ CanRunGetterAndWake(Progress, stage = "waiting")
        /\ pheld' = Head(progress)
    BY <1>6 DEF RunProgressGetter, Progress
  <2>2. \/ ready = <<Progress>> /\ ready' = IF stage = "waiting" THEN <<"stage">> ELSE <<>>
        \/ \E t \in Tasks \ {Progress, "stage"} : ready = <<Progress, t>> /\
              ready' = IF stage = "waiting" THEN <<t, "stage">> ELSE <<t>>
        \/ ready = <<Progress, "stage">> /\ ready' = <<"stage">>
        \/ ready = <<"stage", Progress>> /\ ready' = <<"stage">>
    BY <1>3, <2>1, GetterTurnAndWake
  <2>3. ReadyInv'
    BY <1>1, <1>2, <2>1, <2>2 DEF RaceInv, ReadyInv, Tasks, Chunk, Progress
  <2>4. HandsInv'
    <3>1. pheld' \in Announcements
      BY <1>6, <2>1, HeadTailProperties DEF Grounds, TypeOK
    <3>2. QED BY <1>1, <1>2, <2>1, <3>1 DEF RaceInv, HandsInv
  <2>5. OvertakingInv'
    <3>1. ready' # <<"stage", Progress>>
      <4>1. CASE stage = "waiting"
        BY <2>2, <4>1 DEF Tasks, Chunk, Progress
      <4>2. CASE stage # "waiting"
        BY <2>2, <4>2 DEF Tasks, Chunk, Progress
      <4>3. QED BY <4>1, <4>2
    <3>2. QED BY <3>1 DEF OvertakingInv
  <2>6. QED BY <1>4, <2>3, <2>4, <2>5 DEF RaceInv
<1>7. QED BY <1>5, <1>6

LEMMA SettleRace == ASSUME Grounds, RaceInv, Settle PROVE RaceInv'
<1>1. /\ stage = "discarding" /\ stage' = "closed"
      /\ UNCHANGED pumpVars /\ UNCHANGED delegationVars
      /\ UNCHANGED <<progress, pgetter, pheld, ended, verdict>>
  BY DEF Settle
<1>2. ~Live /\ ~Live'
  BY <1>1 DEF Live
<1>3. ReadyInv' /\ OvertakingInv'
  BY <1>2 DEF ReadyInv, OvertakingInv
<1>4. HandsInv'
  BY <1>1, <1>2 DEF RaceInv, HandsInv, pumpVars
<1>5. EndInv'
  BY <1>1, <1>2 DEF RaceInv, EndInv, EndMade, AllQuiet, pumpVars, delegationVars
<1>6. QED BY <1>3, <1>4, <1>5 DEF RaceInv

LEMMA RaceKeeps == Grounds /\ RaceInv /\ [Next]_vars => RaceInv'
<1> SUFFICES ASSUME Grounds, RaceInv, [Next]_vars PROVE RaceInv'
  OBVIOUS
<1>1. CASE \E d \in Delegations : Start(d) \/ Step(d) \/ Close(d)
  BY <1>1, DelegationsRace
<1>2. CASE Upstream \/ PumpSteps \/ Begin \/ Resume \/ Settle
  BY <1>2, UpstreamRace, PumpRace, BeginRace, ResumeRace, SettleRace
<1>3. CASE Getters
  BY <1>3, EventGetterRace, ProgressGetterRace DEF Getters
<1>4. CASE ShowProgress \/ TakeItem
  BY <1>4, ShowProgressRace, TakeItemRace
<1>5. CASE TakeEnd
  BY <1>5, TakeEndLeaves, LeavingRace
<1>6. CASE TakeError \/ Abandon
  <2>1. /\ EnterFinally("failed") \/ EnterFinally("abandoned")
        /\ UNCHANGED <<inHand, queue, produced, progress>> /\ UNCHANGED delegationVars
    BY <1>6 DEF TakeError, Abandon
  <2>2. QED BY <2>1, LeavingRace
<1>7. CASE UNCHANGED vars
  BY <1>7 DEF RaceInv, ReadyInv, HandsInv, EndInv, EndMade, AllQuiet,
     OvertakingInv, Live, vars, pumpVars, stageVars, delegationVars
<1>8. QED BY <1>1, <1>2, <1>3, <1>4, <1>5, <1>6, <1>7 DEF Next, Wake, Over

LEMMA RaceInvariance == Spec => [](Grounds /\ RaceInv)
<1>1. Init => Grounds /\ RaceInv
  <2> SUFFICES ASSUME Init PROVE Grounds /\ RaceInv
    OBVIOUS
  <2>1. Grounds
    BY InitType, InitLockstep DEF Init, PumpInit, Grounds, GetterInv, AnswerInv
  <2>2. RaceInv
    BY NothingsKind DEF Init, PumpInit, RaceInv, ReadyInv, HandsInv, EndInv,
       EndMade, OvertakingInv, NoItem, Chunk, Progress
  <2>3. QED BY <2>1, <2>2
<1>2. Grounds /\ RaceInv /\ [Next]_vars => Grounds' /\ RaceInv'
  BY RaceKeeps, TypeKeeps, AnswerKeeps, NextKeeps, GetterKeeps DEF Grounds
<1>3. QED BY <1>1, <1>2, PTL DEF Spec

-----------------------------------------------------------------------------
(* What a step can do to an announcement.                                  *)

\* A delegation announces; only while upstream is asked does one start, and
\* with tools run one at a time that is when it announces at all.
Announcing(a) ==
    /\ announced' = Append(announced, a)
    /\ progress' = Append(progress, a)
    /\ a.during = produced
    /\ a.phase = "started" => sent = produced
    /\ ~Parallel /\ Live => stage # "at_event"
    /\ verdict # "ended"
    /\ pgetter = "none" => pgetter' = "none"
    /\ UNCHANGED <<shown, pheld, sent, produced, verdict, stage>>

Draining ==
    /\ Live /\ Live' /\ stage \in AtYield /\ stage' = "at_drain"
    /\ progress # <<>>
    /\ Deliver(Head(progress))
    /\ progress' = Tail(progress)
    /\ pgetter' = IF stage = "at_progress" THEN "none" ELSE pgetter
    /\ UNCHANGED <<announced, pheld, sent, produced, verdict>>

Getting ==
    /\ Live /\ pgetter = "scheduled"
    /\ progress # <<>> /\ pheld = NoAnnouncement
    /\ pheld' = Head(progress)
    /\ progress' = Tail(progress)
    /\ UNCHANGED <<announced, shown, sent, produced, verdict, stage>>

Showing ==
    /\ Live /\ Live' /\ stage' = "at_progress"
    /\ pheld \in Announcements
    /\ Deliver(pheld)
    /\ pheld' = NoAnnouncement
    /\ UNCHANGED <<announced, progress, sent, produced, verdict>>

\* The client gets upstream's next item: what still waits was announced after
\* upstream yielded it.
Handing ==
    /\ Live /\ Live' /\ stage' = "at_event"
    /\ sent' = sent + 1 /\ sent' = produced
    /\ pheld = NoAnnouncement
    /\ \A i \in DOMAIN progress : progress[i].during >= produced
    /\ ~Parallel => progress = <<>>
    /\ UNCHANGED <<announced, progress, pheld, shown, produced, verdict>>

Leaving ==
    /\ Live /\ ~Live'
    /\ pheld' = NoAnnouncement
    /\ verdict' \in {"ended", "failed", "abandoned"}
    /\ verdict' = "ended" =>
          /\ progress = <<>> /\ pheld = NoAnnouncement
          /\ sent = produced /\ produced = NItems
    /\ UNCHANGED <<announced, progress, shown, sent, produced>>

Still ==
    /\ Live' <=> Live
    /\ stage' = "at_event" => stage = "at_event"
    /\ stage' = "at_drain" => stage = "at_drain"
    /\ pgetter = "none" /\ stage' = "at_drain" => pgetter' = "none"
    /\ produced' \in Nat /\ produced' >= produced
    /\ verdict = "ended" => produced' = produced
    /\ UNCHANGED <<announced, progress, pheld, shown, sent, verdict>>

LEMMA AnnouncingIs ==
    ASSUME Grounds, RaceInv, NEW d \in Delegations, Start(d) \/ Step(d) \/ Close(d)
    PROVE  \E a \in Announcements : Announcing(a)
<1>1. PICK phase \in {"started", "step", "closed"} :
        Emit(d, phase) /\ (phase = "started" => pump = "pulling")
  BY DEF Start, Step, Close
<1> DEFINE a == [by |-> d, step |-> steps[d] + 1, phase |-> phase, during |-> produced]
<1>2. a \in Announcements
  <2>1. steps[d] + 1 \in 1 .. MaxSteps
    <3>1. \/ delegation[d] = "idle"
          \/ delegation[d] = "open"
      BY DEF Start, Step, Close
    <3>2. steps[d] = 0 \/ steps[d] \in 1 .. MaxSteps - 1
      BY <3>1 DEF Grounds, StepsInv
    <3>3. QED BY <3>2, StageAssumption
  <2>2. produced \in 0 .. NItems
    BY DEF Grounds, TypeOK, PumpTypeOK
  <2>3. QED BY <2>1, <2>2 DEF Announcements
<1>3. /\ announced' = Append(announced, a) /\ progress' = Append(progress, a)
      /\ pgetter = "none" => pgetter' = "none"
      /\ UNCHANGED <<shown, pheld, sent, produced, verdict, stage>>
  BY <1>1 DEF Emit
<1>4. a.during = produced /\ (a.phase = "started" => sent = produced)
  BY <1>1, PullingRests
<1>5. ~Parallel /\ Live => stage # "at_event"
  BY EmitsWhen, PullingRests
<1>6. verdict # "ended"
  BY EmitsWhen, PullingRests DEF RaceInv, EndInv
<1>7. Announcing(a)
  <2> HIDE DEF a
  <2>1. QED BY <1>3, <1>4, <1>5, <1>6 DEF Announcing
<1>8. QED BY <1>2, <1>7

LEMMA Effects ==
    ASSUME Grounds, RaceInv, [Next]_vars
    PROVE  \/ \E a \in Announcements : Announcing(a)
           \/ Draining \/ Getting \/ Showing \/ Handing \/ Leaving \/ Still
<1>0. produced \in Nat /\ sent \in Nat
  BY DEF Grounds, TypeOK, PumpTypeOK
<1>1. CASE \E d \in Delegations : Start(d) \/ Step(d) \/ Close(d)
  BY <1>1, AnnouncingIs
<1>2. CASE Upstream
  <2>1. pump = "pulling" /\ (produced' = produced \/ produced' = produced + 1)
    BY <1>2 DEF Upstream, UpstreamYields, UpstreamEnds, UpstreamFails, Produce
  <2>2. UNCHANGED stageVars /\ UNCHANGED delegationVars
    BY <1>2 DEF Upstream, UpstreamYields, UpstreamEnds, UpstreamFails
  <2>3. verdict # "ended"
    BY <2>1, PullingRests
  <2>4. Still
    BY <1>0, <2>1, <2>2, <2>3 DEF Still, Live, stageVars, delegationVars
  <2>5. QED BY <2>4
<1>3. CASE PumpSteps \/ RunEventGetter \/ UNCHANGED vars
  <2>1. UNCHANGED stageVars /\ UNCHANGED delegationVars /\ produced' = produced
    BY <1>3 DEF PumpSteps, Put, Join, Unwind, RunEventGetter, RunChunkGetter, vars, pumpVars
  <2>2. Still
    BY <1>0, <2>1 DEF Still, Live, stageVars, delegationVars
  <2>3. QED BY <2>2
<1>4. CASE Begin \/ Settle
  <2>1. /\ UNCHANGED <<progress, pheld, shown, sent, verdict, produced>>
        /\ UNCHANGED delegationVars
        /\ \/ stage = "unstarted" /\ stage' = "waiting"
           \/ stage = "discarding" /\ stage' = "closed"
    BY <1>4 DEF Begin, Settle, pumpVars
  <2>2. Still
    BY <1>0, <2>1 DEF Still, Live, delegationVars
  <2>3. QED BY <2>2
<1>5. CASE Resume
  <2>1. /\ Live /\ stage \in AtYield
        /\ UNCHANGED <<produced, pheld, sent, verdict>> /\ UNCHANGED delegationVars
        /\ \/ /\ progress # <<>> /\ stage' = "at_drain"
              /\ Deliver(Head(progress)) /\ progress' = Tail(progress)
              /\ pgetter' = IF stage = "at_progress" THEN "none" ELSE pgetter
           \/ stage' = "waiting" /\ UNCHANGED <<progress, shown>>
    BY <1>5, ResumeDoes
  <2>2. Draining \/ Still
    BY <1>0, <2>1 DEF Draining, Still, Live, delegationVars
  <2>3. QED BY <2>2
<1>6. CASE RunProgressGetter
  <2>1. /\ pgetter = "scheduled"
        /\ UNCHANGED <<produced, stage, sent, shown, verdict>> /\ UNCHANGED delegationVars
        /\ IF progress = <<>> THEN UNCHANGED <<progress, pheld>>
           ELSE pheld' = Head(progress) /\ progress' = Tail(progress)
    BY <1>6 DEF RunProgressGetter
  <2>2. Live /\ pheld = NoAnnouncement
    BY <2>1 DEF RaceInv, HandsInv
  <2>3. Getting \/ Still
    BY <1>0, <2>1, <2>2 DEF Getting, Still, Live, delegationVars
  <2>4. QED BY <2>3
<1>7. CASE ShowProgress
  <2>1. /\ Live /\ pheld \in Announcements
        /\ Deliver(pheld) /\ pheld' = NoAnnouncement /\ stage' = "at_progress"
        /\ UNCHANGED <<progress, sent, verdict, produced>> /\ UNCHANGED delegationVars
    BY <1>7, AwakeFinds DEF ShowProgress, RaceInv, HandsInv
  <2>2. Showing
    BY <2>1 DEF Showing, Live, delegationVars
  <2>3. QED BY <2>2
<1>8. CASE TakeItem
  <2>1. /\ Awake /\ pgetter # "done" /\ held.kind = "item"
        /\ sent' = held.n /\ stage' = "at_event"
        /\ UNCHANGED <<progress, pheld, shown, verdict, produced>>
        /\ UNCHANGED delegationVars
    BY <1>8 DEF TakeItem
  <2>2. Live /\ held # NoItem
    BY <2>1, AwakeFinds, NothingsKind
  <2>3. Undelivered(held) /\ IInv
    BY <2>2, HeldIsNext DEF Grounds
  <2>4. sent' = produced /\ sent' = sent + 1
    BY <1>8, <2>1, <2>3, TakeItemKeeps DEF Undelivered
  <2>5. /\ pheld = NoAnnouncement
        /\ \/ progress = <<>>
           \/ Parallel /\ \A i \in DOMAIN progress : progress[i].during >= produced
    BY <2>1, TakingFinds
  <2>6. \A i \in DOMAIN progress : progress[i].during >= produced
    BY <2>5, EmptySeq
  <2>7. ~Parallel => progress = <<>>
    BY <2>5
  <2>8. Handing
    BY <2>1, <2>2, <2>4, <2>5, <2>6, <2>7 DEF Handing, Live, delegationVars
  <2>9. QED BY <2>8
<1>9. CASE TakeEnd
  <2>1. /\ EnterFinally("ended") /\ AllQuiet
        /\ Live /\ progress = <<>> /\ pheld = NoAnnouncement
        /\ UNCHANGED <<produced, progress, shown, sent>> /\ UNCHANGED delegationVars
    BY <1>9, TakeEndLeaves
  <2>2. sent = produced
    <3>1. held.kind = "end"
      BY <1>9 DEF TakeEnd
    <3>2. Undelivered(held)
      BY <2>1, <3>1, HeldIsNext, NothingsKind DEF Grounds
    <3>3. QED BY <3>1, <3>2 DEF Undelivered
  <2>3. Leaving
    BY <2>1, <2>2 DEF Leaving, EnterFinally, Live, AllQuiet, delegationVars
  <2>4. QED BY <2>3
<1>10. CASE TakeError \/ Abandon
  <2>1. /\ EnterFinally("failed") \/ EnterFinally("abandoned")
        /\ UNCHANGED <<produced, progress, shown, sent>> /\ UNCHANGED delegationVars
        /\ stage \in AtYield \union {"waiting"}
    BY <1>10 DEF TakeError, Abandon, Awake
  <2>2. Leaving
    BY <2>1 DEF Leaving, EnterFinally, Live, AtYield, delegationVars
  <2>3. QED BY <2>2
<1>11. QED BY <1>1, <1>2, <1>3, <1>4, <1>5, <1>6, <1>7, <1>8, <1>9, <1>10
       DEF Next, Getters, Wake, Over

-----------------------------------------------------------------------------
(* Every announcement is in its place.                                     *)

ShownWhat == {s.what : s \in Range(shown)}
InHands == IF pheld = NoAnnouncement THEN <<>> ELSE <<pheld>>
Pending == Range(progress) \union (IF pheld = NoAnnouncement THEN {} ELSE {pheld})

\* What was announced has been shown or is on its way, and what is on its way
\* was announced after the last item the client has.
PlacedInv ==
    /\ sent <= produced
    /\ Pending \union ShownWhat \subseteq Range(announced)
    /\ Live => Range(announced) \subseteq ShownWhat \union Pending
    /\ Live => Len(announced) = Len(shown) + Len(InHands) + Len(progress)
    /\ \A a \in Range(announced) \ ShownWhat : sent <= a.during
    /\ \A a \in Range(announced) : a.phase = "started" => a.during <= sent
    /\ StartFollowsItsCall
    /\ NothingLost

\* With tools run one at a time, nothing is reordered on the way.
What(s) == [i \in DOMAIN s |-> s[i].what]
OrderInv ==
    ~Parallel =>
      /\ Live => announced = What(shown) \o InHands \o progress
      /\ stage = "at_event" => progress = <<>> /\ pheld = NoAnnouncement
      /\ stage = "at_drain" => pgetter = "none"

LEMMA OffTheFront ==
    ASSUME NEW S, NEW s \in Seq(S), s # <<>>
    PROVE  /\ Head(s) \in S /\ Tail(s) \in Seq(S)
           /\ Len(s) = Len(Tail(s)) + 1
           /\ Range(s) = Range(Tail(s)) \union {Head(s)}
           /\ s = <<Head(s)>> \o Tail(s)
<1> DEFINE h == Head(s)
           t == Tail(s)
<1>1. /\ h \in S /\ t \in Seq(S)
      /\ Len(t) = Len(s) - 1
      /\ \A i \in 1 .. Len(t) : t[i] = s[i + 1]
  BY HeadTailProperties
<1>2. h = s[1]
  OBVIOUS
<1>3. /\ DOMAIN s = 1 .. Len(s) /\ DOMAIN t = 1 .. Len(t)
      /\ Len(s) \in Nat /\ Len(t) \in Nat /\ Len(s) # 0
  BY <1>1, LenProperties, EmptySeq
<1> HIDE DEF h, t
<1>4. Len(s) = Len(t) + 1
  BY <1>1, <1>3
<1>5. Range(s) = Range(t) \union {h}
  <2>1. ASSUME NEW i \in DOMAIN s PROVE s[i] \in Range(t) \union {h}
    <3>1. CASE i = 1
      BY <1>2, <3>1
    <3>2. CASE i # 1
      <4>1. i - 1 \in 1 .. Len(t) /\ s[i] = t[i - 1]
        BY <1>1, <1>3, <1>4, <3>2
      <4>2. QED BY <1>3, <4>1 DEF Range
    <3>3. QED BY <3>1, <3>2
  <2>2. ASSUME NEW i \in DOMAIN t PROVE t[i] \in Range(s)
    <3>1. i + 1 \in DOMAIN s /\ t[i] = s[i + 1]
      BY <1>1, <1>3, <1>4
    <3>2. QED BY <3>1 DEF Range
  <2>3. h \in Range(s)
    BY <1>2, <1>3, <1>4 DEF Range
  <2>4. QED BY <2>1, <2>2, <2>3 DEF Range
<1>6. s = <<h>> \o t
  <2>1. <<h>> \in Seq(S) /\ Len(<<h>>) = 1 /\ <<h>>[1] = h
    BY <1>1
  <2>2. /\ <<h>> \o t \in Seq(S) /\ Len(<<h>> \o t) = 1 + Len(t)
        /\ \A i \in 1 .. 1 + Len(t) :
             (<<h>> \o t)[i] = IF i <= 1 THEN <<h>>[i] ELSE t[i - 1]
    BY <1>1, <2>1, ConcatProperties
  <2>3. ASSUME NEW i \in 1 .. Len(s) PROVE s[i] = (<<h>> \o t)[i]
    <3>1. CASE i = 1
      BY <1>2, <1>3, <1>4, <2>1, <2>2, <3>1
    <3>2. CASE i # 1
      <4>1. i - 1 \in 1 .. Len(t) /\ s[i] = t[i - 1]
        BY <1>1, <1>3, <1>4, <3>2
      <4>2. QED BY <1>3, <1>4, <2>2, <3>2, <4>1
    <3>3. QED BY <3>1, <3>2
  <2>4. Len(s) = Len(<<h>> \o t)
    BY <1>3, <1>4, <2>2
  <2>5. QED BY <2>2, <2>3, <2>4, SeqEqual
<1>7. QED BY <1>1, <1>4, <1>5, <1>6 DEF h, t

\* The types the rest of the argument needs, under the names it uses.
LEMMA StageTypes ==
    ASSUME Grounds
    PROVE  /\ progress \in Seq(Announcements) /\ announced \in Seq(Announcements)
           /\ shown \in Seq(Shown) /\ pheld \in Announcements \union {NoAnnouncement}
           /\ sent \in Nat /\ produced \in Nat /\ sent \in 0 .. NItems
           /\ \A a \in Announcements : a.during \in Nat
           /\ Range(announced) \subseteq Announcements
           /\ Range(progress) \subseteq Announcements
           /\ Len(progress) \in Nat /\ Len(shown) \in Nat /\ Len(announced) \in Nat
<1>1. /\ progress \in Seq(Announcements) /\ announced \in Seq(Announcements)
      /\ shown \in Seq(Shown) /\ pheld \in Announcements \union {NoAnnouncement}
      /\ sent \in Nat /\ produced \in Nat /\ sent \in 0 .. NItems
  BY DEF Grounds, TypeOK, PumpTypeOK
<1>2. \A a \in Announcements : a.during \in Nat
  BY DEF Announcements
<1>3. ASSUME NEW s \in Seq(Announcements) PROVE Range(s) \subseteq Announcements
  BY ElementOfSeq, LenProperties DEF Range
<1>4. QED BY <1>1, <1>2, <1>3, LenProperties

LEMMA DeliverShows ==
    ASSUME Grounds, NEW a, Deliver(a)
    PROVE  /\ Len(shown') = Len(shown) + 1
           /\ ShownWhat' = ShownWhat \union {a}
           /\ \A i \in DOMAIN shown' :
                \/ i \in DOMAIN shown /\ shown'[i] = shown[i]
                \/ shown'[i] = [what |-> a, after |-> sent]
<1> DEFINE x == [what |-> a, after |-> sent]
<1>1. shown \in Seq(Shown) /\ shown' = Append(shown, x)
  BY StageTypes DEF Deliver
<1>2. x.what = a
  OBVIOUS
<1> HIDE DEF x
<1>3. /\ Len(shown') = Len(shown) + 1 /\ Range(shown') = Range(shown) \union {x}
      /\ \A i \in DOMAIN shown' : (i \in DOMAIN shown /\ shown'[i] = shown[i]) \/ shown'[i] = x
  BY <1>1, AppendAt
<1>4. ShownWhat' = ShownWhat \union {a}
  BY <1>2, <1>3 DEF ShownWhat
<1>5. QED BY <1>3, <1>4 DEF x

\* Whether drained or shown, one that was pending is delivered.
LEMMA Delivery ==
    ASSUME Grounds, RaceInv, Draining \/ Showing
    PROVE  \E a \in Announcements :
             /\ Live /\ Deliver(a)
             /\ Pending = Pending' \union {a}
             /\ Len(InHands) + Len(progress) = Len(InHands') + Len(progress') + 1
             /\ UNCHANGED <<announced, sent, produced, verdict>>
<1>1. CASE Draining
  <2>1. /\ Live /\ progress # <<>> /\ Deliver(Head(progress))
        /\ progress' = Tail(progress) /\ pheld' = pheld
        /\ UNCHANGED <<announced, sent, produced, verdict>>
    BY <1>1 DEF Draining
  <2>2. /\ Head(progress) \in Announcements
        /\ Len(progress) = Len(progress') + 1
        /\ Range(progress) = Range(progress') \union {Head(progress)}
    BY <2>1, StageTypes, OffTheFront
  <2>3. Len(progress') \in Nat
    BY <2>1, StageTypes, OffTheFront, LenProperties
  <2>4. InHands' = InHands /\ Len(InHands) \in {0, 1}
    BY <2>1 DEF InHands
  <2>5. QED BY <2>1, <2>2, <2>3, <2>4 DEF Pending
<1>2. CASE Showing
  <2>1. /\ Live /\ pheld \in Announcements /\ Deliver(pheld)
        /\ progress' = progress /\ pheld' = NoAnnouncement
        /\ UNCHANGED <<announced, sent, produced, verdict>>
    BY <1>2 DEF Showing
  <2>2. Len(InHands) = 1 /\ Len(InHands') = 0 /\ Len(progress) \in Nat
    BY <2>1, NothingsKind, StageTypes DEF InHands
  <2>3. QED BY <2>1, <2>2, NothingsKind DEF Pending
<1>3. QED BY <1>1, <1>2

-----------------------------------------------------------------------------
(* Each effect keeps every announcement in its place.                      *)

LEMMA AnnouncingPlaces ==
    ASSUME Grounds, RaceInv, PlacedInv, NEW a \in Announcements, Announcing(a)
    PROVE  PlacedInv'
<1>1. /\ Range(announced') = Range(announced) \union {a}
      /\ Len(announced') = Len(announced) + 1
      /\ Range(progress') = Range(progress) \union {a}
      /\ Len(progress') = Len(progress) + 1
  BY StageTypes, AppendAt DEF Announcing
<1>2. /\ UNCHANGED <<shown, pheld, sent, produced, verdict>>
      /\ a.during = produced /\ verdict # "ended"
      /\ a.phase = "started" => sent = produced
      /\ Live' <=> Live
  BY DEF Announcing, Live
<1>3. Pending' = Pending \union {a} /\ ShownWhat' = ShownWhat /\ InHands' = InHands
  BY <1>1, <1>2 DEF Pending, ShownWhat, InHands
<1>4. Len(InHands) \in Nat
  BY DEF InHands
<1>5. StartFollowsItsCall' /\ NothingLost'
  BY <1>2 DEF PlacedInv, StartFollowsItsCall, NothingLost
<1>6. QED BY <1>1, <1>2, <1>3, <1>4, <1>5, StageTypes DEF PlacedInv

LEMMA DeliveryPlaces ==
    ASSUME Grounds, RaceInv, PlacedInv, Draining \/ Showing
    PROVE  PlacedInv'
<1>1. PICK a \in Announcements :
        /\ Live /\ Deliver(a)
        /\ Pending = Pending' \union {a}
        /\ Len(InHands) + Len(progress) = Len(InHands') + Len(progress') + 1
        /\ UNCHANGED <<announced, sent, produced, verdict>>
  BY Delivery
<1>2. /\ Len(shown') = Len(shown) + 1
      /\ ShownWhat' = ShownWhat \union {a}
      /\ \A i \in DOMAIN shown' :
           \/ i \in DOMAIN shown /\ shown'[i] = shown[i]
           \/ shown'[i] = [what |-> a, after |-> sent]
  BY <1>1, DeliverShows
<1>3. a \in Range(announced)
  BY <1>1 DEF PlacedInv
<1>4. StartFollowsItsCall'
  <2> SUFFICES ASSUME NEW i \in DOMAIN shown', shown'[i].what.phase = "started"
               PROVE  shown'[i].after >= shown'[i].what.during
    BY DEF StartFollowsItsCall
  <2>1. CASE i \in DOMAIN shown /\ shown'[i] = shown[i]
    BY <2>1 DEF PlacedInv, StartFollowsItsCall
  <2>2. CASE shown'[i] = [what |-> a, after |-> sent]
    BY <1>3, <2>2, StageTypes DEF PlacedInv
  <2>3. QED BY <1>2, <2>1, <2>2
<1>5. NothingLost'
  BY <1>1 DEF NothingLost, RaceInv, EndInv
<1>6. Len(announced) = Len(shown') + Len(InHands') + Len(progress')
  <2>1. Len(InHands) \in Nat /\ Len(InHands') \in Nat
    BY DEF InHands
  <2>2. Len(progress') \in Nat
    BY StageTypes, OffTheFront, LenProperties DEF Draining, Showing
  <2>3. Len(announced) = Len(shown) + Len(InHands) + Len(progress)
    BY <1>1 DEF PlacedInv
  <2>4. /\ Len(InHands) + Len(progress) = Len(InHands') + Len(progress') + 1
        /\ Len(shown') = Len(shown) + 1
        /\ Len(shown) \in Nat /\ Len(progress) \in Nat
    BY <1>1, <1>2, StageTypes
  <2>5. QED BY <2>1, <2>2, <2>3, <2>4
<1>7. QED BY <1>1, <1>2, <1>4, <1>5, <1>6 DEF PlacedInv

LEMMA GettingPlaces == ASSUME Grounds, RaceInv, PlacedInv, Getting PROVE PlacedInv'
<1>1. /\ Live /\ pheld = NoAnnouncement /\ progress # <<>>
      /\ pheld' = Head(progress) /\ progress' = Tail(progress)
      /\ UNCHANGED <<announced, shown, sent, produced, verdict>>
  BY DEF Getting
<1>2. /\ pheld' \in Announcements /\ progress' \in Seq(Announcements)
      /\ Len(progress) = Len(progress') + 1
      /\ Range(progress) = Range(progress') \union {pheld'}
  BY <1>1, StageTypes, OffTheFront
<1>3. Pending' = Pending /\ ShownWhat' = ShownWhat
  BY <1>1, <1>2, NothingsKind DEF Pending, ShownWhat
<1>4. Len(InHands') + Len(progress') = Len(InHands) + Len(progress)
  <2>1. Len(InHands) = 0 /\ Len(InHands') = 1
    BY <1>1, <1>2, NothingsKind DEF InHands
  <2>2. QED BY <1>2, <2>1, LenProperties
<1>5. StartFollowsItsCall' /\ NothingLost'
  BY <1>1 DEF PlacedInv, StartFollowsItsCall, NothingLost, IsShown
<1>6. Len(announced) = Len(shown) + Len(InHands') + Len(progress')
  <2>1. Len(InHands) \in Nat /\ Len(InHands') \in Nat
    BY DEF InHands
  <2>2. Len(progress') \in Nat
    BY <1>2, LenProperties
  <2>3. Len(announced) = Len(shown) + Len(InHands) + Len(progress)
    BY <1>1 DEF PlacedInv
  <2>4. Len(shown) \in Nat /\ Len(progress) \in Nat
    BY StageTypes
  <2>5. QED BY <1>4, <2>1, <2>2, <2>3, <2>4
<1>7. QED BY <1>1, <1>3, <1>5, <1>6 DEF PlacedInv

LEMMA HandingPlaces == ASSUME Grounds, RaceInv, PlacedInv, Handing PROVE PlacedInv'
<1>1. /\ Live /\ pheld = NoAnnouncement
      /\ sent' = sent + 1 /\ sent' = produced
      /\ \A i \in DOMAIN progress : progress[i].during >= produced
      /\ UNCHANGED <<announced, progress, pheld, shown, produced, verdict>>
  BY DEF Handing
<1>2. Pending' = Pending /\ ShownWhat' = ShownWhat /\ InHands' = InHands
  BY <1>1 DEF Pending, ShownWhat, InHands
<1>3. \A a \in Range(announced) \ ShownWhat : a \in Range(progress)
  BY <1>1 DEF PlacedInv, Pending
<1>4. \A a \in Range(announced) \ ShownWhat : sent' <= a.during
  BY <1>1, <1>3, StageTypes DEF Range
<1>5. \A a \in Range(announced) : a.phase = "started" => a.during <= sent'
  BY <1>1, StageTypes DEF PlacedInv
<1>6. StartFollowsItsCall' /\ NothingLost'
  BY <1>1 DEF PlacedInv, StartFollowsItsCall, NothingLost, RaceInv, EndInv
<1>7. QED BY <1>1, <1>2, <1>4, <1>5, <1>6, StageTypes DEF PlacedInv

\* A stage that ends has nothing pending.
LEMMA LeavingPlaces == ASSUME Grounds, RaceInv, PlacedInv, Leaving PROVE PlacedInv'
<1>1. /\ Live /\ ~Live' /\ pheld' = NoAnnouncement
      /\ verdict' = "ended" =>
           progress = <<>> /\ pheld = NoAnnouncement /\ sent = produced
      /\ UNCHANGED <<announced, progress, shown, sent, produced>>
  BY DEF Leaving
<1>2. Pending' \subseteq Pending /\ ShownWhat' = ShownWhat
  BY <1>1 DEF Pending, ShownWhat
<1>3. StartFollowsItsCall'
  BY <1>1 DEF PlacedInv, StartFollowsItsCall
<1>4. NothingLost'
  <2> SUFFICES ASSUME verdict' = "ended"
               PROVE  /\ sent = produced /\ Len(shown) = Len(announced)
                      /\ \A i \in DOMAIN announced : IsShown(announced[i])
    BY <1>1 DEF NothingLost, IsShown
  <2>1. progress = <<>> /\ pheld = NoAnnouncement
    BY <1>1
  <2>2. Len(InHands) = 0 /\ Len(progress) = 0 /\ Pending = {}
    BY <2>1 DEF InHands, Pending, Range
  <2>3. Len(shown) = Len(announced) /\ Range(announced) \subseteq ShownWhat
    BY <1>1, <2>2, StageTypes DEF PlacedInv
  <2>4. QED BY <1>1, <2>3 DEF ShownWhat, Range, IsShown
<1>5. QED BY <1>1, <1>2, <1>3, <1>4 DEF PlacedInv

LEMMA StillPlaces == ASSUME Grounds, RaceInv, PlacedInv, Still PROVE PlacedInv'
<1>1. /\ Live' <=> Live
      /\ produced' \in Nat /\ produced' >= produced
      /\ verdict = "ended" => produced' = produced
      /\ UNCHANGED <<announced, progress, pheld, shown, sent, verdict>>
  BY DEF Still
<1>2. Pending' = Pending /\ ShownWhat' = ShownWhat /\ InHands' = InHands
  BY <1>1 DEF Pending, ShownWhat, InHands
<1>3. StartFollowsItsCall' /\ NothingLost'
  BY <1>1 DEF PlacedInv, StartFollowsItsCall, NothingLost, IsShown
<1>4. QED BY <1>1, <1>2, <1>3, StageTypes DEF PlacedInv

-----------------------------------------------------------------------------
(* With tools run one at a time, each effect keeps the order.              *)

LEMMA WhatType ==
    ASSUME NEW s \in Seq(Shown)
    PROVE  What(s) \in Seq(Announcements) /\ Len(What(s)) = Len(s)
<1>1. \A i \in 1 .. Len(s) : s[i].what \in Announcements
  <2>1. \A x \in Shown : x.what \in Announcements
    BY DEF Shown
  <2>2. QED BY <2>1, ElementOfSeq
<1>2. What(s) \in [1 .. Len(s) -> Announcements] /\ Len(s) \in Nat
  BY <1>1, LenProperties DEF What
<1>3. What(s) \in Seq(Announcements)
  BY <1>2, SeqDef
<1>4. QED BY <1>2, <1>3, LenProperties

LEMMA DeliverWhat ==
    ASSUME Grounds, NEW a \in Announcements, Deliver(a)
    PROVE  What(shown') = Append(What(shown), a) /\ shown' \in Seq(Shown)
<1> DEFINE x == [what |-> a, after |-> sent]
<1>1. shown \in Seq(Shown) /\ shown' = Append(shown, x) /\ shown' \in Seq(Shown)
  BY StageTypes, DeliverType DEF Deliver
<1>2. x.what = a
  OBVIOUS
<1> HIDE DEF x
<1>3. /\ Len(shown') = Len(shown) + 1 /\ DOMAIN shown = 1 .. Len(shown)
      /\ DOMAIN shown' = 1 .. Len(shown) + 1
      /\ \A i \in DOMAIN shown : shown'[i] = shown[i]
      /\ shown'[Len(shown) + 1] = x
  BY <1>1, AppendAt
<1>4. /\ What(shown) \in Seq(Announcements) /\ Len(What(shown)) = Len(shown)
      /\ What(shown') \in Seq(Announcements) /\ Len(What(shown')) = Len(shown) + 1
  BY <1>1, <1>3, WhatType
<1>5. /\ Append(What(shown), a) \in Seq(Announcements)
      /\ Len(Append(What(shown), a)) = Len(shown) + 1
      /\ \A i \in 1 .. Len(shown) : Append(What(shown), a)[i] = What(shown)[i]
      /\ Append(What(shown), a)[Len(shown) + 1] = a
  BY <1>4, AppendProperties
<1>6. ASSUME NEW i \in 1 .. Len(shown) + 1
      PROVE  What(shown')[i] = Append(What(shown), a)[i]
  <2>1. What(shown')[i] = shown'[i].what
    BY <1>3 DEF What
  <2>2. CASE i \in 1 .. Len(shown)
    BY <1>3, <1>5, <2>1, <2>2 DEF What
  <2>3. CASE i = Len(shown) + 1
    BY <1>2, <1>3, <1>5, <2>1, <2>3
  <2>4. Len(shown) \in Nat
    BY StageTypes
  <2>5. i \in 1 .. Len(shown) \/ i = Len(shown) + 1
    BY <2>4
  <2>6. QED BY <2>2, <2>3, <2>5
<1>7. QED BY <1>1, <1>4, <1>5, <1>6, SeqEqual

\* One handed on from the front of what follows.
LEMMA MovesAlong ==
    ASSUME NEW S, NEW w \in Seq(S), NEW q \in Seq(S), NEW a \in S
    PROVE  /\ Append(w, a) \o q = w \o (<<a>> \o q)
           /\ (w \o <<a>>) \o q = w \o (<<a>> \o q)
<1>1. <<a>> \in Seq(S)
  OBVIOUS
<1>2. Append(w, a) = w \o <<a>>
  BY AppendIsConcat
<1>3. (w \o <<a>>) \o q = w \o (<<a>> \o q)
  BY <1>1, ConcatAssociative
<1>4. QED BY <1>2, <1>3

\* In order, with the announcement in the getter's hand and without.
LEMMA InOrder ==
    ASSUME Grounds
    PROVE  /\ What(shown) \in Seq(Announcements)
           /\ InHands \in Seq(Announcements)
           /\ What(shown) \o InHands \in Seq(Announcements)
           /\ pheld = NoAnnouncement => What(shown) \o InHands = What(shown)
           /\ pheld # NoAnnouncement => InHands = <<pheld>>
<1>1. What(shown) \in Seq(Announcements)
  BY StageTypes, WhatType
<1>2. pheld # NoAnnouncement => pheld \in Announcements /\ InHands = <<pheld>>
  BY StageTypes DEF InHands
<1>3. pheld = NoAnnouncement => InHands = <<>>
  BY DEF InHands
<1>4. InHands \in Seq(Announcements)
  <2>1. CASE pheld = NoAnnouncement
    BY <1>3, <2>1, EmptySeq
  <2>2. CASE pheld # NoAnnouncement
    <3>1. \A a \in Announcements : <<a>> \in Seq(Announcements)
      OBVIOUS
    <3>2. QED BY <1>2, <2>2, <3>1
  <2>3. QED BY <2>1, <2>2
<1>5. QED BY <1>1, <1>2, <1>3, <1>4, ConcatProperties, ConcatEmptySeq

LEMMA AnnouncingOrders ==
    ASSUME Grounds, RaceInv, OrderInv, NEW a \in Announcements, Announcing(a)
    PROVE  OrderInv'
<1> SUFFICES ASSUME ~Parallel
             PROVE  /\ Live' => announced' = (What(shown) \o InHands)' \o progress'
                    /\ stage' = "at_event" => progress' = <<>> /\ pheld' = NoAnnouncement
                    /\ stage' = "at_drain" => pgetter' = "none"
  BY DEF OrderInv
<1>1. /\ announced' = Append(announced, a) /\ progress' = Append(progress, a)
      /\ Live => stage # "at_event"
      /\ pgetter = "none" => pgetter' = "none"
      /\ UNCHANGED <<shown, pheld, stage>>
  BY DEF Announcing
<1>2. (Live' <=> Live) /\ (What(shown) \o InHands)' = What(shown) \o InHands
  BY <1>1 DEF Live, What, InHands
<1>3. ASSUME Live PROVE announced' = (What(shown) \o InHands) \o progress'
  <2>1. announced = (What(shown) \o InHands) \o progress
    BY <1>3 DEF OrderInv
  <2>2. What(shown) \o InHands \in Seq(Announcements) /\ progress \in Seq(Announcements)
    BY InOrder, StageTypes
  <2> DEFINE w == What(shown) \o InHands
  <2> HIDE DEF w
  <2>3. w \in Seq(Announcements)
    BY <2>2 DEF w
  <2>4. Append(w \o progress, a) = w \o Append(progress, a)
    <3>1. <<a>> \in Seq(Announcements) /\ w \o progress \in Seq(Announcements)
      BY <2>2, <2>3, ConcatProperties
    <3>2. Append(w \o progress, a) = (w \o progress) \o <<a>>
      BY <3>1, AppendIsConcat
    <3>3. Append(progress, a) = progress \o <<a>>
      BY <2>2, AppendIsConcat
    <3>4. (w \o progress) \o <<a>> = w \o (progress \o <<a>>)
      BY <2>2, <2>3, <3>1, ConcatAssociative
    <3>5. QED BY <3>2, <3>3, <3>4
  <2>5. QED BY <1>1, <2>1, <2>4 DEF w
<1>4. stage' = "at_event" => FALSE
  BY <1>1 DEF Live
<1>5. QED BY <1>1, <1>2, <1>3, <1>4 DEF OrderInv

LEMMA DrainingOrders == ASSUME Grounds, RaceInv, OrderInv, Draining PROVE OrderInv'
<1> SUFFICES ASSUME ~Parallel
             PROVE  /\ announced' = (What(shown) \o InHands)' \o progress'
                    /\ stage' # "at_event"
                    /\ pgetter' = "none"
  BY DEF OrderInv
<1>1. /\ Live /\ stage \in AtYield /\ stage' = "at_drain"
      /\ progress # <<>> /\ Deliver(Head(progress)) /\ progress' = Tail(progress)
      /\ pgetter' = IF stage = "at_progress" THEN "none" ELSE pgetter
      /\ UNCHANGED <<announced, pheld>>
  BY DEF Draining
<1>2. pheld = NoAnnouncement /\ pgetter' = "none"
  BY <1>1 DEF OrderInv, AtYield, RaceInv, HandsInv
<1> DEFINE h == Head(progress)
           t == Tail(progress)
           w == What(shown)
<1>3. h \in Announcements /\ t \in Seq(Announcements) /\ progress = <<h>> \o t
  BY <1>1, StageTypes, OffTheFront
<1>4. w \in Seq(Announcements) /\ announced = w \o progress
  BY <1>1, <1>2, InOrder DEF OrderInv
<1>5. What(shown') = Append(w, h) /\ What(shown') \in Seq(Announcements)
  BY <1>1, <1>3, DeliverWhat, WhatType
<1>6. (What(shown) \o InHands)' = What(shown')
  <2>1. InHands' = <<>>
    BY <1>1, <1>2 DEF InHands
  <2>2. QED BY <1>5, <2>1, ConcatEmptySeq
<1>7. announced' = Append(w, h) \o t
  <2> HIDE DEF w, h, t
  <2>1. Append(w, h) \o t = w \o (<<h>> \o t)
    BY <1>3, <1>4, MovesAlong
  <2>2. QED BY <1>1, <1>3, <1>4, <2>1
<1>8. QED BY <1>1, <1>2, <1>5, <1>6, <1>7

LEMMA GettingOrders == ASSUME Grounds, RaceInv, OrderInv, Getting PROVE OrderInv'
<1> SUFFICES ASSUME ~Parallel
             PROVE  /\ announced' = (What(shown) \o InHands)' \o progress'
                    /\ stage' \notin {"at_event", "at_drain"}
  BY DEF OrderInv
<1>1. /\ Live /\ pgetter = "scheduled" /\ progress # <<>> /\ pheld = NoAnnouncement
      /\ pheld' = Head(progress) /\ progress' = Tail(progress)
      /\ UNCHANGED <<announced, shown, stage>>
  BY DEF Getting
<1>2. stage' \notin {"at_event", "at_drain"}
  BY <1>1 DEF OrderInv
<1> DEFINE h == Head(progress)
           t == Tail(progress)
           w == What(shown)
<1>3. h \in Announcements /\ t \in Seq(Announcements) /\ progress = <<h>> \o t
  BY <1>1, StageTypes, OffTheFront
<1>4. w \in Seq(Announcements) /\ announced = w \o progress
  BY <1>1, InOrder DEF OrderInv
<1>5. (What(shown) \o InHands)' = w \o <<h>>
  BY <1>1, <1>3, NothingsKind DEF What, InHands
<1>6. announced' = (w \o <<h>>) \o t
  <2> HIDE DEF w, h, t
  <2>1. (w \o <<h>>) \o t = w \o (<<h>> \o t)
    BY <1>3, <1>4, MovesAlong
  <2>2. QED BY <1>1, <1>3, <1>4, <2>1
<1>7. QED BY <1>1, <1>2, <1>5, <1>6

LEMMA ShowingOrders == ASSUME Grounds, RaceInv, OrderInv, Showing PROVE OrderInv'
<1> SUFFICES ASSUME ~Parallel
             PROVE  /\ announced' = (What(shown) \o InHands)' \o progress'
                    /\ stage' \notin {"at_event", "at_drain"}
  BY DEF OrderInv
<1>1. /\ Live /\ stage' = "at_progress" /\ pheld \in Announcements
      /\ Deliver(pheld) /\ pheld' = NoAnnouncement
      /\ UNCHANGED <<announced, progress>>
  BY DEF Showing
<1>2. announced = (What(shown) \o <<pheld>>) \o progress /\ What(shown) \in Seq(Announcements)
  BY <1>1, InOrder, NothingsKind DEF OrderInv
<1>3. What(shown') = Append(What(shown), pheld) /\ What(shown') \in Seq(Announcements)
  BY <1>1, DeliverWhat, WhatType
<1>4. (What(shown) \o InHands)' = What(shown')
  <2>1. InHands' = <<>>
    BY <1>1 DEF InHands
  <2>2. QED BY <1>3, <2>1, ConcatEmptySeq
<1>5. What(shown) \o <<pheld>> = Append(What(shown), pheld)
  BY <1>1, <1>2, AppendIsConcat
<1>6. QED BY <1>1, <1>2, <1>3, <1>4, <1>5

LEMMA RestOrders ==
    ASSUME Grounds, RaceInv, OrderInv, Handing \/ Leaving \/ Still
    PROVE  OrderInv'
<1>1. CASE Handing
  <2>1. /\ Live /\ stage' = "at_event" /\ pheld = NoAnnouncement
        /\ ~Parallel => progress = <<>>
        /\ UNCHANGED <<announced, progress, pheld, shown>>
    BY <1>1 DEF Handing
  <2>2. (What(shown) \o InHands)' = What(shown) \o InHands
    BY <2>1 DEF What, InHands
  <2>3. QED BY <2>1, <2>2 DEF OrderInv
<1>2. CASE Leaving
  <2>1. ~Live' /\ stage' \notin {"at_event", "at_drain"}
    BY <1>2 DEF Leaving, Live
  <2>2. QED BY <2>1 DEF OrderInv
<1>3. CASE Still
  <2>1. /\ Live' <=> Live
        /\ stage' = "at_event" => stage = "at_event"
        /\ stage' = "at_drain" => stage = "at_drain"
        /\ pgetter = "none" /\ stage' = "at_drain" => pgetter' = "none"
        /\ UNCHANGED <<announced, progress, pheld, shown>>
    BY <1>3 DEF Still
  <2>2. (What(shown) \o InHands)' = What(shown) \o InHands
    BY <2>1 DEF What, InHands
  <2>3. QED BY <2>1, <2>2 DEF OrderInv
<1>4. QED BY <1>1, <1>2, <1>3

-----------------------------------------------------------------------------
ChannelInv == Grounds /\ RaceInv /\ PlacedInv /\ OrderInv

LEMMA ChannelInvariance == Spec => []ChannelInv
<1>1. Init => PlacedInv /\ OrderInv
  <2> SUFFICES ASSUME Init PROVE PlacedInv /\ OrderInv
    OBVIOUS
  <2>1. /\ progress = <<>> /\ shown = <<>> /\ announced = <<>>
        /\ pheld = NoAnnouncement /\ stage = "unstarted"
        /\ sent = 0 /\ produced = 0 /\ verdict = "none"
    BY DEF Init, PumpInit
  <2>2. /\ Len(<<>>) = 0 /\ DOMAIN <<>> = {}
        /\ Range(<<>>) = {} /\ What(<<>>) = <<>>
    BY DEF Range, What
  <2>3. InHands = <<>> /\ Pending = {} /\ ShownWhat = {}
    BY <2>1, <2>2 DEF InHands, Pending, ShownWhat
  <2>4. PlacedInv
    BY <2>1, <2>2, <2>3 DEF PlacedInv, StartFollowsItsCall, NothingLost
  <2>5. OrderInv
    BY <2>1, <2>2, <2>3, ConcatShort DEF OrderInv
  <2>6. QED BY <2>4, <2>5
<1>2. ChannelInv /\ [Next]_vars => PlacedInv' /\ OrderInv'
  <2> SUFFICES ASSUME ChannelInv, [Next]_vars PROVE PlacedInv' /\ OrderInv'
    OBVIOUS
  <2>1. \/ \E a \in Announcements : Announcing(a)
        \/ Draining \/ Getting \/ Showing \/ Handing \/ Leaving \/ Still
    BY Effects DEF ChannelInv
  <2>2. PlacedInv'
    BY <2>1, AnnouncingPlaces, DeliveryPlaces, GettingPlaces, HandingPlaces,
       LeavingPlaces, StillPlaces DEF ChannelInv
  <2>3. OrderInv'
    BY <2>1, AnnouncingOrders, DrainingOrders, GettingOrders, ShowingOrders,
       RestOrders DEF ChannelInv
  <2>4. QED BY <2>2, <2>3
<1>3. QED BY <1>1, <1>2, RaceInvariance, PTL DEF Spec, ChannelInv

(* What a delegation announces is never overtaken by what upstream         *)
(* produces after it, its start never runs ahead of the tool call that     *)
(* started it, and a stage that ends has shown all of it: so the client    *)
(* sees every delegation closed before RUN_FINISHED, whether the run's     *)
(* tools run one at a time or beside one another.                          *)
THEOREM ProgressIsAlwaysInPlace == Spec => []ProgressInPlace
<1>1. ChannelInv => ProgressInPlace
  <2> SUFFICES ASSUME ChannelInv PROVE ProgressInPlace
    OBVIOUS
  <2>1. NotOvertaken
    <3> SUFFICES ASSUME NEW i \in DOMAIN announced, ~IsShown(announced[i])
                 PROVE  sent <= announced[i].during
      BY DEF NotOvertaken
    <3>1. announced[i] \in Range(announced)
      BY DEF Range
    <3>2. announced[i] \notin ShownWhat
      BY DEF ShownWhat, Range, IsShown
    <3>3. QED BY <3>1, <3>2 DEF ChannelInv, PlacedInv
  <2>2. QED BY <2>1 DEF ChannelInv, PlacedInv, ProgressInPlace
<1>2. QED BY <1>1, ChannelInvariance, PTL

-----------------------------------------------------------------------------
(* The refinement.                                                         *)

\* The one delivered is the oldest not shown.
LEMMA DeliveryInOrder ==
    ASSUME ~Parallel, ChannelInv, Draining \/ Showing
    PROVE  \E a \in Announcements :
             /\ Live /\ Deliver(a)
             /\ UNCHANGED <<announced, sent, verdict>>
             /\ \E q \in Seq(Announcements) : announced = Append(What(shown), a) \o q
<1>1. Grounds /\ RaceInv /\ OrderInv /\ OrderInv'
  BY DrainingOrders, ShowingOrders DEF ChannelInv
<1>2. PICK a \in Announcements :
        Live /\ Deliver(a) /\ UNCHANGED <<announced, sent, verdict>>
  BY <1>1, Delivery
<1>3. /\ Live' /\ pheld' \in {NoAnnouncement, pheld}
      /\ progress' \in Seq(Announcements)
  BY <1>1, StageTypes, OffTheFront DEF Draining, Showing
<1>4. /\ What(shown') = Append(What(shown), a) /\ What(shown') \in Seq(Announcements)
  BY <1>1, <1>2, DeliverWhat, WhatType
<1>5. announced = (Append(What(shown), a) \o InHands') \o progress'
  <2>1. announced' = (What(shown) \o InHands)' \o progress'
    BY <1>1, <1>3 DEF OrderInv
  <2>2. (What(shown) \o InHands)' = What(shown') \o InHands'
    OBVIOUS
  <2>3. QED BY <1>2, <1>4, <2>1, <2>2
<1>6. InHands' \in Seq(Announcements)
  <2>1. CASE pheld' = NoAnnouncement
    BY <2>1, EmptySeq DEF InHands
  <2>2. CASE pheld' # NoAnnouncement
    <3>1. pheld' \in Announcements /\ InHands' = <<pheld'>>
      BY <1>1, <1>3, <2>2, StageTypes DEF InHands
    <3>2. QED BY <3>1
  <2>3. QED BY <2>1, <2>2
<1>7. /\ announced = Append(What(shown), a) \o (InHands' \o progress')
      /\ InHands' \o progress' \in Seq(Announcements)
  BY <1>3, <1>4, <1>5, <1>6, ConcatAssociative, ConcatProperties
<1>8. QED BY <1>2, <1>7

LEMMA NextInOrder ==
    ASSUME NEW S, NEW w \in Seq(S), NEW a \in S, NEW q \in Seq(S),
           NEW s, s = Append(w, a) \o q
    PROVE  Len(w) # Len(s) /\ s[Len(w) + 1] = a
<1>1. /\ Append(w, a) \in Seq(S) /\ Len(Append(w, a)) = Len(w) + 1
      /\ Append(w, a)[Len(w) + 1] = a
  BY AppendProperties
<1>2. Len(w) \in Nat /\ Len(q) \in Nat
  BY LenProperties
<1>3. /\ Len(s) = (Len(w) + 1) + Len(q)
      /\ \A i \in 1 .. (Len(w) + 1) + Len(q) :
           s[i] = IF i <= Len(w) + 1 THEN Append(w, a)[i] ELSE q[i - (Len(w) + 1)]
  BY <1>1, ConcatProperties
<1>4. s[Len(w) + 1] = Append(w, a)[Len(w) + 1]
  BY <1>2, <1>3
<1>5. QED BY <1>1, <1>2, <1>3, <1>4

LEMMA AllInOrder ==
    ASSUME ~Parallel, Grounds, OrderInv, Live,
           progress = <<>>, pheld = NoAnnouncement
    PROVE  announced = What(shown)
<1>1. announced = What(shown) \o <<>>
  BY InOrder DEF OrderInv
<1>2. QED BY <1>1, InOrder, ConcatEmptySeq

LEMMA ChannelSteps ==
    ASSUME ~Parallel, ChannelInv, [Next]_vars
    PROVE  [Channel!Next]_(Channel!channelVars)
<1>0. What(shown) = [i \in DOMAIN shown |-> shown[i].what]
  BY DEF What
<1>1. Grounds /\ RaceInv /\ OrderInv
  BY DEF ChannelInv
<1>2. ASSUME NEW a \in Announcements, Announcing(a) PROVE Channel!Announce
  <2>1. announced' = Append(announced, a) /\ UNCHANGED <<shown, sent, verdict>>
    BY <1>2 DEF Announcing
  <2>2. QED BY <2>1 DEF Channel!Announce
<1>3. CASE Draining \/ Showing
  <2>1. PICK a \in Announcements :
          /\ Live /\ Deliver(a)
          /\ UNCHANGED <<announced, sent, verdict>>
          /\ \E q \in Seq(Announcements) : announced = Append(What(shown), a) \o q
    BY <1>3, DeliveryInOrder
  <2>2. What(shown') = Append(What(shown), a)
    BY <1>1, <2>1, DeliverWhat
  <2>3. /\ Len(What(shown)) # Len(announced)
        /\ announced[Len(What(shown)) + 1] = a
    <3>1. What(shown) \in Seq(Announcements)
      BY <1>1, InOrder
    <3>2. QED BY <2>1, <3>1, NextInOrder
  <2>4. verdict = "none"
    BY <1>1, <2>1 DEF RaceInv, EndInv
  <2>5. Channel!ShowNext
    BY <2>1, <2>2, <2>3, <2>4 DEF Channel!ShowNext, Channel!AllShown, What
  <2>6. QED BY <2>5 DEF Channel!Next
<1>4. CASE Handing
  <2>1. /\ Live /\ sent' = sent + 1 /\ sent' = produced
        /\ pheld = NoAnnouncement /\ progress = <<>>
        /\ UNCHANGED <<announced, shown, verdict>>
    BY <1>4 DEF Handing
  <2>2. announced = What(shown)
    BY <1>1, <2>1, AllInOrder
  <2>3. sent < NItems
    BY <1>1, <2>1, NItemsAssumption DEF Grounds, TypeOK, PumpTypeOK
  <2>4. verdict = "none"
    BY <1>1, <2>1 DEF RaceInv, EndInv
  <2>5. Channel!HandOver
    BY <2>1, <2>2, <2>3, <2>4 DEF Channel!HandOver, Channel!AllShown, What
  <2>6. QED BY <2>5 DEF Channel!Next
<1>5. CASE Leaving
  <2>1. /\ Live /\ verdict' \in {"ended", "failed", "abandoned"}
        /\ verdict' = "ended" =>
             /\ progress = <<>> /\ pheld = NoAnnouncement
             /\ sent = produced /\ produced = NItems
        /\ UNCHANGED <<announced, shown, sent>>
    BY <1>5 DEF Leaving
  <2>2. verdict = "none"
    BY <1>1, <2>1 DEF RaceInv, EndInv
  <2>3. verdict' = "ended" => announced = What(shown)
    BY <1>1, <2>1, AllInOrder
  <2>4. Channel!Finish
    BY <2>1, <2>2, <2>3 DEF Channel!Finish, Channel!AllShown, What
  <2>5. QED BY <2>4 DEF Channel!Next
<1>6. CASE Getting \/ Still
  <2>1. UNCHANGED <<announced, shown, sent, verdict>>
    BY <1>6 DEF Getting, Still
  <2>2. QED BY <2>1 DEF Channel!channelVars
<1>7. QED BY <1>1, <1>2, <1>3, <1>4, <1>5, <1>6, Effects DEF Channel!Next

(* With tools run one at a time, the stage is a channel that hands over    *)
(* upstream's items one by one and the announcements in the order they     *)
(* were made, no item ahead of an announcement older than it, and ends     *)
(* with all of both handed over.                                           *)
THEOREM StageImplementsTheChannel == ~Parallel => (Spec => ImplementsChannel)
<1> SUFFICES ASSUME ~Parallel PROVE Spec => ImplementsChannel
  OBVIOUS
<1>1. Init => Channel!Init
  BY DEF Init, PumpInit, Channel!Init
<1>2. ChannelInv /\ [Next]_vars => [Channel!Next]_(Channel!channelVars)
  BY ChannelSteps
<1>3. QED BY <1>1, <1>2, ChannelInvariance, PTL DEF Spec, ImplementsChannel, Channel!Spec
================================================================================
