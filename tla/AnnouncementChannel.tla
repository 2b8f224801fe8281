------------------------- MODULE AnnouncementChannel -------------------------
(***************************************************************************)
(* What inject_subagent_events promises its client, with no tasks, queues  *)
(* or getters in it: upstream's items come one by one, announcements come  *)
(* in the order they were made, and no item is handed over while an        *)
(* earlier announcement is still waiting.                                  *)
(***************************************************************************)
EXTENDS Naturals, Sequences

CONSTANTS Announcement, NItems

VARIABLES
    announced,  \* every announcement made, in order
    shown,      \* the announcements the client has, in order
    sent,       \* the upstream items the client has
    verdict     \* how the stream finished, "none" while it has not

channelVars == <<announced, shown, sent, verdict>>

Init ==
    /\ announced = <<>>
    /\ shown = <<>>
    /\ sent = 0
    /\ verdict = "none"

AllShown == Len(shown) = Len(announced)

Announce ==
    /\ \E a \in Announcement : announced' = Append(announced, a)
    /\ UNCHANGED <<shown, sent, verdict>>

ShowNext ==
    /\ verdict = "none"
    /\ ~AllShown
    /\ shown' = Append(shown, announced[Len(shown) + 1])
    /\ UNCHANGED <<announced, sent, verdict>>

HandOver ==
    /\ verdict = "none"
    /\ AllShown
    /\ sent < NItems
    /\ sent' = sent + 1
    /\ UNCHANGED <<announced, shown, verdict>>

\* Only a stream that has handed over everything may end; it may fail, or be
\* abandoned by its client, at any point.
Finish ==
    /\ verdict = "none"
    /\ \/ AllShown /\ sent = NItems /\ verdict' = "ended"
       \/ verdict' \in {"failed", "abandoned"}
    /\ UNCHANGED <<announced, shown, sent>>

Next == Announce \/ ShowNext \/ HandOver \/ Finish

Spec == Init /\ [][Next]_channelVars
=============================================================================
