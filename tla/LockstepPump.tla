---------------------------- MODULE LockstepPump ----------------------------
(***************************************************************************)
(* pump_in_lockstep (agent/utils.py) and the asyncio.Queue(maxsize=1) it   *)
(* fills: the half of a racing stream wrapper that is not the generator.   *)
(* One task drives the upstream generator, puts each item, and waits in    *)
(* join() until the consuming stage has called task_done().                *)
(*                                                                         *)
(* A stage EXTENDS this module and adds the generator: SubagentStage for   *)
(* inject_subagent_events, HeartbeatStage for heartbeat_stream.  Each      *)
(* action is what one task runs between two awaits.                        *)
(***************************************************************************)
EXTENDS Naturals, Sequences, SequencesExt

CONSTANT NItems     \* how many items upstream yields at most

ASSUME NItemsAssumption == NItems \in Nat \ {0}

VARIABLES
    pump,           \* where the pump task is suspended
    inHand,         \* what it is about to put
    queue,          \* the asyncio.Queue's items
    unfinished,     \* the asyncio.Queue's count of puts not yet task_done
    produced,       \* items upstream has yielded so far
    upstreamOpen,   \* FALSE once the upstream generator has run its finally
    getter,         \* the stage's events.get() task
    held,           \* the result that task holds
    ready           \* the loop's FIFO, for the tasks whose order matters

pumpVars == <<pump, inHand, queue, unfinished, produced, upstreamOpen,
              getter, held, ready>>

QueueSize == 1

NoItem == [kind |-> "none", n |-> 0]
Items  == [kind : {"item", "end", "error"}, n : 1 .. NItems + 1]

PumpStates   == {"unborn", "pulling", "putting", "joining", "cancelled", "done"}
GetterStates == {"none", "scheduled", "parked", "done"}
Tasks        == {"chunk_getter", "progress_getter", "stage"}

PumpTypeOK ==
    /\ pump \in PumpStates
    /\ inHand \in Items \union {NoItem}
    /\ queue \in Seq(Items)
    /\ unfinished \in Nat
    /\ produced \in 0 .. NItems
    /\ upstreamOpen \in BOOLEAN
    /\ getter \in GetterStates
    /\ held \in Items \union {NoItem}
    /\ ready \in Seq(Tasks)

PumpInit ==
    /\ pump = "unborn"
    /\ inHand = NoItem
    /\ queue = <<>>
    /\ unfinished = 0
    /\ produced = 0
    /\ upstreamOpen = TRUE
    /\ getter = "none"
    /\ held = NoItem
    /\ ready = <<>>

-----------------------------------------------------------------------------
(* The loop's ready queue.  A get() task runs in the order it was woken;   *)
(* asyncio.wait reaches the stage through one more call_soon than a getter *)
(* needs, so a getter may run ahead of a stage that was readied before it. *)

CanRunGetter(g) ==
    \E i \in DOMAIN ready :
        /\ ready[i] = g
        /\ \A j \in 1 .. i - 1 : ready[j] = "stage"
        /\ ready' = RemoveAt(ready, i)

(* The same, and the getter's completion readies the stage awaiting it.    *)
CanRunGetterAndWake(g, waiting) ==
    \E i \in DOMAIN ready :
        /\ ready[i] = g
        /\ \A j \in 1 .. i - 1 : ready[j] = "stage"
        /\ ready' = IF waiting /\ ~Contains(ready, "stage")
                    THEN Append(RemoveAt(ready, i), "stage")
                    ELSE RemoveAt(ready, i)

-----------------------------------------------------------------------------
(* async for item in stream: upstream yields its next item, is exhausted,  *)
(* or raises.  Only an item leaves the generator suspended and open.       *)
Produce(kind) ==
    /\ pump = "pulling"
    /\ kind = "item" => produced < NItems
    /\ inHand' = [kind |-> kind, n |-> produced + 1]
    /\ produced' = IF kind = "item" THEN produced + 1 ELSE produced
    /\ upstreamOpen' = (kind = "item")
    /\ pump' = "putting"
    /\ UNCHANGED <<queue, unfinished, getter, held, ready>>

(* A pump that does not join() after its put: it asks upstream for the     *)
(* next item while the consumer still has this one.                        *)
PutWithoutJoin ==
    /\ pump = "putting"
    /\ Len(queue) < QueueSize
    /\ queue' = Append(queue, inHand)
    /\ unfinished' = unfinished + 1
    /\ inHand' = NoItem
    /\ pump' = IF inHand.kind = "item" THEN "pulling" ELSE "done"
    /\ IF getter = "parked"
       THEN /\ getter' = "scheduled"
            /\ ready' = Append(ready, "chunk_getter")
       ELSE UNCHANGED <<getter, ready>>
    /\ UNCHANGED <<produced, upstreamOpen, held>>

(* await out.put(...), which waits for room and wakes a parked get().  An  *)
(* item is followed by join(); the end marker and an exception by finally. *)
Put ==
    /\ pump = "putting"
    /\ Len(queue) < QueueSize
    /\ queue' = Append(queue, inHand)
    /\ unfinished' = unfinished + 1
    /\ inHand' = NoItem
    /\ pump' = IF inHand.kind = "item" THEN "joining" ELSE "done"
    /\ IF getter = "parked"
       THEN /\ getter' = "scheduled"
            /\ ready' = Append(ready, "chunk_getter")
       ELSE UNCHANGED <<getter, ready>>
    /\ UNCHANGED <<produced, upstreamOpen, held>>

(* await out.join() returns, and the loop asks upstream for the next item. *)
Join ==
    /\ pump = "joining"
    /\ unfinished = 0
    /\ pump' = "pulling"
    /\ UNCHANGED <<inHand, queue, unfinished, produced, upstreamOpen,
                   getter, held, ready>>

(* A pump that swallows its cancellation and waits on where it was.        *)
UnwindSwallowed ==
    /\ pump = "cancelled"
    /\ UNCHANGED pumpVars

(* A cancelled pump unwinds: wherever the cancellation landed, its finally *)
(* closes the upstream generator before the task is done.                  *)
Unwind ==
    /\ pump = "cancelled"
    /\ upstreamOpen' = FALSE
    /\ inHand' = NoItem
    /\ pump' = "done"
    /\ UNCHANGED <<queue, unfinished, produced, getter, held, ready>>

(* The stage's events.get() task gets a turn: it takes the item there is,  *)
(* or parks until a put wakes it.                                          *)
RunChunkGetter(waiting) ==
    /\ getter = "scheduled"
    /\ IF queue = <<>>
       THEN /\ getter' = "parked"
            /\ CanRunGetter("chunk_getter")
            /\ UNCHANGED <<queue, held>>
       ELSE /\ getter' = "done"
            /\ held' = Head(queue)
            /\ queue' = Tail(queue)
            /\ CanRunGetterAndWake("chunk_getter", waiting)
    /\ UNCHANGED <<pump, inHand, unfinished, produced, upstreamOpen>>

=============================================================================
