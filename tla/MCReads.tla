------------------------------- MODULE MCReads -------------------------------
(***************************************************************************)
(* What the reading endpoints answer: runs/ (RunIndex), threads/<id>/ with *)
(* its activities (RestoredThread), tools/ (ToolNames, which is also who   *)
(* runs a tool).  Three views that share no state; each is explored with   *)
(* the others at rest.                                                     *)
(***************************************************************************)
EXTENDS RunIndex

CONSTANTS
    Messages, Activities, Contents, MaxPushes, NoMessage,
    Names, ReadAttachment, ClientContext, MaxLate

VARIABLES
    view,       \* which of them is explored
    shown, stored, log, cut,
    registry, server, shape, source, bare, uploads, phase, specs, agent, run, late

Thread == INSTANCE RestoredThread
Tools == INSTANCE ToolNames

ASSUME ToolsAssumption == Tools!ToolNamesAssumption
ASSUME ThreadAssumption == Thread!RestoredThreadAssumption

threadVars == <<shown, stored, log, cut>>
toolVars == <<registry, server, shape, source, bare, uploads, phase, specs, agent, run, late>>

NoTools == registry = {} /\ server = {} /\ shape = "none" /\ ~uploads

MCInit ==
    /\ view \in {"runs", "threads", "tools"}
    /\ Init /\ Thread!Init /\ Tools!Init
    /\ view # "tools" => NoTools

MCNext ==
    /\ UNCHANGED view
    /\ \/ view = "runs" /\ Next /\ UNCHANGED <<threadVars, toolVars>>
       \/ view = "threads" /\ Thread!Next /\ UNCHANGED <<vars, toolVars>>
       \/ view = "tools" /\ Tools!Next /\ UNCHANGED <<vars, threadVars>>

MCSpec == MCInit /\ [][MCNext]_<<view, vars, threadVars, toolVars>>

-----------------------------------------------------------------------------
(* A row of the index is named by its own run's question.                  *)
RowsAreNamed == TypeOK /\ NamedByItsOwnQuestion

(* A thread read back reads as the client had it on screen, and loses no   *)
(* activity with the message it was anchored to.                           *)
ThreadIsRestored == Thread!TypeOK /\ Thread!ReadsAsShown /\ Thread!NoneMissing

(* Every tool name is offered once, by the first source that has it, and   *)
(* tools/ lists it there; registries that grow behind the endpoint's back  *)
(* change neither for the other names, and let no ungated spec in.         *)
ToolsAreOwned ==
    Tools!TypeOK /\ Tools!OwnedByTheFirst /\ Tools!CatalogueAgrees /\ Tools!GrowthIsHarmless
=============================================================================
