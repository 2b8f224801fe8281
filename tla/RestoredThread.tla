---------------------------- MODULE RestoredThread ----------------------------
(***************************************************************************)
(* A thread read back with its activities (ThreadsView._merge_activities   *)
(* and _with_activities, persistence/threads_view.py).                     *)
(*                                                                         *)
(* While a run streams, the client shows its messages and materialises     *)
(* each activity it is pushed: at the end when it is new, in the place of  *)
(* the one it has otherwise.  The row stores the messages only.  A         *)
(* ThreadActivitySource keeps the log of what was pushed, each entry with  *)
(* the message it followed.                                                *)
(***************************************************************************)
EXTENDS Naturals, Sequences, FiniteSets, SequencesExt, Selections

CONSTANTS
    Messages,
    Activities,
    Contents,
    MaxPushes,  \* bound: pushes of a thread
    NoMessage   \* None: an entry that names no message

VARIABLES
    shown,      \* what the client has on screen
    stored,     \* the messages of the thread's row
    log,        \* the source's entries
    cut         \* a later run has replaced the row by a shorter one

vars == <<shown, stored, log, cut>>

\* An activity's id is nobody's message, and None is no id.
RestoredThreadAssumption ==
    Messages \intersect Activities = {} /\ NoMessage \notin Messages /\ MaxPushes \in Nat

Message(m)     == [id |-> m, content |-> NoMessage]
Activity(a, c) == [id |-> a, content |-> c]
Entry(a, c, m) == [event |-> Activity(a, c), after |-> m]

Ids(s) == {s[i].id : i \in DOMAIN s}

Init == shown = <<>> /\ stored = <<>> /\ log = <<>> /\ cut = FALSE

-----------------------------------------------------------------------------
\* _with_activities.

Positions(id) == {i \in DOMAIN log : log[i].event.id = id}
First(id) == CHOOSE i \in Positions(id) : \A j \in Positions(id) : i <= j
Newest(id) == CHOOSE i \in Positions(id) : \A j \in Positions(id) : i >= j

Logged == [i \in DOMAIN log |-> log[i].event.id]

(* The last entry of an activity places it.                                *)
OrderByLast == Reverse(Firsts(Reverse(Logged)))

\* The ids of the log, each at its first entry.
Order == Firsts(Logged)

\* With the content of its last.
Materialise(id) == log[Newest(id)].event

(* An anchor the thread does not have is kept.                             *)
AnchorKept(id) == log[First(id)].after

\* The message its first entry names, if the thread has it.
Anchor(id) ==
    LET named == log[First(id)].after
    IN  IF named \in Ids(stored) THEN named ELSE NoMessage

At(m) ==
    LET here == Sift(Order, {id \in ToSet(Order) : Anchor(id) = m})
    IN  [i \in DOMAIN here |-> Materialise(here[i])]

Restored ==
    FlattenSeq([i \in DOMAIN stored |-> <<stored[i]>> \o At(stored[i].id)])
      \o At(NoMessage)

TypeOK ==
    /\ shown \in Seq([id : Messages \union Activities, content : Contents \union {NoMessage}])
    /\ stored \in Seq([id : Messages, content : {NoMessage}])
    /\ log \in Seq([event : [id : Activities, content : Contents],
                    after : Messages \union {NoMessage}])
    /\ Len(log) <= MaxPushes
    /\ cut \in BOOLEAN
    /\ Restored \in Seq([id : Messages \union Activities, content : Contents \union {NoMessage}])

-----------------------------------------------------------------------------
\* A message of the thread, streamed and stored.
Say(m) ==
    /\ m \notin Ids(shown) /\ ~cut
    /\ shown' = Append(shown, Message(m))
    /\ stored' = Append(stored, Message(m))
    /\ UNCHANGED <<log, cut>>

LastMessage == IF stored = <<>> THEN NoMessage ELSE Last(stored).id

\* An ACTIVITY_SNAPSHOT.  A new activity is pushed beside a message, so the
\* thread has one.
Push(a, c) ==
    /\ stored # <<>> /\ Len(log) < MaxPushes /\ ~cut
    /\ log' = Append(log, Entry(a, c, LastMessage))
    /\ shown' = IF a \in Ids(shown)
                THEN [i \in DOMAIN shown |->
                        IF shown[i].id = a THEN Activity(a, c) ELSE shown[i]]
                ELSE Append(shown, Activity(a, c))
    /\ UNCHANGED <<stored, cut>>

\* A client that edits an earlier turn posts a shorter thread, and the run
\* it starts saves that.
Cut ==
    /\ stored # <<>>
    /\ stored' = Front(stored)
    /\ cut' = TRUE
    /\ UNCHANGED <<shown, log>>

Next ==
    \/ \E m \in Messages : Say(m)
    \/ \E a \in Activities, c \in Contents : Push(a, c)
    \/ Cut

Spec == Init /\ [][Next]_vars

-----------------------------------------------------------------------------
(* "A restored activity is the same message the browser had on screen      *)
(* during the run": a thread read back reads as it was shown, message for  *)
(* message and chart for chart, in their places and with the contents they *)
(* had last.                                                               *)
ReadsAsShown == ~cut => Restored = shown

(* "A silently missing one is the failure this whole seam exists to fix":  *)
(* whatever became of the messages, every activity is there once, and the  *)
(* row's own messages are there in their order.                            *)
NoneMissing ==
    /\ Sift(Restored, {x \in ToSet(Restored) : x.id \in Messages}) = stored
    /\ \A a \in {log[i].event.id : i \in DOMAIN log} :
          Cardinality({i \in DOMAIN Restored : Restored[i].id = a}) = 1
=============================================================================
