------------------------------- MODULE MCRunEnd -------------------------------
(***************************************************************************)
(* The outermost stages of a stream and the end of its run.  Teardown      *)
(* unwinds the generators and the tasks of a disconnected run, RunExits    *)
(* records every run, and HeartbeatStage keeps a silent one alive.  They   *)
(* share no state but the order in guarded_stream, which Teardown's        *)
(* ProviderClosedFirst is about; so each is explored with the others at    *)
(* rest.                                                                   *)
(***************************************************************************)
EXTENDS RunExits

CONSTANTS NItems, Interval

VARIABLES
    part,       \* which of the three is explored
    closing,    \* Teardown's guard
    heart, pump1, frame, encoder, stage, pump2, event, native, shape, refused,
    beating,    \* HeartbeatStage's generator
    elapsed, sent, verdict,
    pump, inHand, queue, unfinished, produced, upstreamOpen, getter, held, ready

Unwinding == INSTANCE Teardown WITH guard <- closing
Beating == INSTANCE HeartbeatStage WITH stage <- beating

ASSUME BeatingAssumption == NItems \in Nat \ {0} /\ Beating!IntervalAssumption

unwindingVars == <<closing, heart, pump1, frame, encoder, stage, pump2, event,
                   native, shape, refused>>

beatingVars == <<beating, elapsed, sent, verdict, pump, inHand, queue, unfinished,
                 produced, upstreamOpen, getter, held, ready>>

mcvars == <<part, vars, unwindingVars, beatingVars>>

\* A heartbeat stage that is over, so that nothing of it is owed a step.
AtRest ==
    /\ beating = "closed" /\ pump = "done"
    /\ inHand = Beating!NoItem /\ held = Beating!NoItem
    /\ queue = <<>> /\ ready = <<>> /\ upstreamOpen = FALSE /\ getter = "none"
    /\ unfinished = 0 /\ produced = 0 /\ elapsed = 0 /\ sent = 0
    /\ verdict = "ended"

MCInit ==
    /\ part \in {"exits", "teardown", "heartbeat"}
    /\ Init
    /\ Unwinding!Init
    /\ IF part = "heartbeat" THEN Beating!Init ELSE AtRest
    /\ part # "teardown" => heart = "absent"
    /\ part # "exits" => store = "null"

MCNext ==
    /\ UNCHANGED part
    /\ \/ part = "exits" /\ Next /\ UNCHANGED <<unwindingVars, beatingVars>>
       \/ part = "teardown" /\ Unwinding!Next /\ UNCHANGED <<vars, beatingVars>>
       \/ part = "heartbeat" /\ Beating!Next /\ UNCHANGED <<vars, unwindingVars>>

MCSpec ==
    MCInit /\ [][MCNext]_mcvars /\ Fairness /\ Unwinding!Fairness /\ Beating!Fairness

-----------------------------------------------------------------------------
(* No run that is over goes unrecorded, and none whose store takes what it *)
(* is given goes unstored.                                                 *)
ExitRecorded == TypeOK /\ EveryExitRecorded /\ ExchangeStored

(* The provider's stream is closed before a disconnected run is finalized, *)
(* and every generator closed by hand is closable when its turn comes.     *)
ProviderClosedFirst ==
    Unwinding!TypeOK /\ Unwinding!ProviderClosedFirst /\ Unwinding!NoCloseRefused

(* A disconnected request is let go, and its run is recorded, whichever    *)
(* comes first: the one by any store, the other by one that answers.       *)
DisconnectSettles == RequestNotParked /\ DisconnectRecorded

(* A disconnect is carried through to the guard's re-raise.                *)
TeardownEnds == Unwinding!TeardownEnds

(* No step hands the client a chunk out of turn, whatever beats go out     *)
(* around it, or lets the pump run ahead of the client.                    *)
ChunksInLockstep == [][Beating!InOrder /\ Beating!TypeOK' /\ Beating!Lockstep']_beatingVars

(* A chunk upstream has produced reaches a client that keeps reading.      *)
ChunkDelivered == Beating!ChunkDelivered

(* A client that keeps reading a silent stream is never left waiting.      *)
NeverSilentForEver == Beating!NeverSilentForEver
=============================================================================
