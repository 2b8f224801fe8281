------------------------------- MODULE MCStores -------------------------------
(***************************************************************************)
(* What survives a run, in two stores that know nothing of each other: the *)
(* threads a client comes back to (ThreadStore), and the step ledger that  *)
(* several mounts share (ScopedSteps).  Each is explored with the other    *)
(* empty: two threads and a handful of runs, none of them special; three   *)
(* mounts in two scopes whose names begin alike, and two run ids, one of   *)
(* them made of the other scope's name.                                    *)
(***************************************************************************)
EXTENDS ThreadStore, TLC

CONSTANTS
    m1, m2, m3,
    Symbols, Mounts, ScopeOf, RunIds, NoParent, MaxRows

VARIABLES
    store,      \* which of the two is explored
    ledger

Steps == INSTANCE ScopedSteps

ASSUME LedgerAssumption == Steps!ScopesAssumption

TwoScopes == m1 :> <<"a">> @@ m2 :> <<"a", "b">> @@ m3 :> <<"a">>
WireIds == {<<"a">>, <<"b", "a">>}

ThreadStoreSymmetry == Permutations(Threads) \union Permutations(Runs)

MCInit == store \in {"threads", "steps"} /\ Init /\ Steps!Init

MCNext ==
    /\ UNCHANGED store
    /\ \/ store = "threads" /\ Next /\ UNCHANGED ledger
       \/ store = "steps" /\ Steps!Next /\ UNCHANGED vars

MCSpec == MCInit /\ [][MCNext]_<<store, vars, ledger>>

-----------------------------------------------------------------------------
(* Where a thread is at rest, its stored row is what its client shows.     *)
RowsAreKept == TypeOK /\ ThreadMatchesClient

(* Turns leave a thread only with it or by a resume within it, and a       *)
(* branch lands on no stored conversation.                                 *)
TurnsAreKept == NoTurnLost /\ BranchLandsOnNothing

(* A mount finds and lists what its own scope wrote, and every parent of   *)
(* what it lists.                                                          *)
ScopesAreApart ==
    Steps!TypeOK /\ Steps!FindsItsOwn /\ Steps!ListsItsOwn /\ Steps!LineageClosed
=============================================================================
